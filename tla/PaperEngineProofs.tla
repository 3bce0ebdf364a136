-------------------------- MODULE PaperEngineProofs --------------------------
(***************************************************************************)
(* The bounds of PaperEngine for every number of threads, operators and    *)
(* plans.  Each has an invariant of its own, over the types and the place  *)
(* of each call: what a thread may still do is charged in advance.         *)
(***************************************************************************)
EXTENDS PaperEngine, FiniteSetTheorems, TLAPS

N == Cardinality(Threads)

\* The steps at which a plan is past the conflict check, and past compliance.
Unconflicted == {"comply", "risk", "order"}
Complied     == {"risk", "order", "save", "count"}
Planned      == Complied \cup {"gate", "conflict", "comply"}

\* A thread that is past _check_stop_file executes a plan.
CallsHavePlans ==
    \A t \in Threads : call[t].at \in Planned => call[t].plan \in Plans

-----------------------------------------------------------------------------
(* What a thread's moves do to its call *)

LEMMA GotoEffect ==
    ASSUME call \in [Threads -> Calls], NEW t \in Threads, NEW x \in Steps,
           Goto(t, x)
    PROVE  /\ call' \in [Threads -> Calls]
           /\ call'[t].at = x
           /\ call'[t].plan = call[t].plan
           /\ call'[t].status = call[t].status
           /\ \A u \in Threads : u # t => call'[u] = call[u]
<1>1. call[t] \in Calls
  OBVIOUS
<1>2. [call[t] EXCEPT !.at = x] \in Calls
  BY <1>1 DEF Calls
<1>3. call' = [call EXCEPT ![t] = [call[t] EXCEPT !.at = x]]
  BY DEF Goto
<1>4. QED
  BY <1>1, <1>2, <1>3 DEF Calls

LEMMA ReturnEffect ==
    ASSUME call \in [Threads -> Calls], NEW t \in Threads, Return(t)
    PROVE  /\ call' \in [Threads -> Calls]
           /\ call'[t] = Idle
           /\ \A u \in Threads : u # t => call'[u] = call[u]
<1>1. Idle \in Calls
  BY DEF Idle, Calls, Steps
<1>2. QED
  BY <1>1 DEF Return

\* Both ways a thread may leave a gate: on to the next one, or back.
LEMMA MoveEffect ==
    ASSUME call \in [Threads -> Calls], NEW t \in Threads, NEW x \in Steps,
           Goto(t, x) \/ Return(t)
    PROVE  /\ call' \in [Threads -> Calls]
           /\ call'[t].at \in {x, "idle"}
           /\ call'[t].at # "idle" => call'[t].plan = call[t].plan
           /\ \A u \in Threads : u # t => call'[u] = call[u]
<1>1. CASE Goto(t, x)
  BY <1>1, GotoEffect
<1>2. CASE Return(t)
  BY <1>2, ReturnEffect DEF Idle
<1>3. QED
  BY <1>1, <1>2

LEMMA BeginEffect ==
    ASSUME call \in [Threads -> Calls], NEW t \in Threads, NEW p \in Plans,
           Begin(t, p)
    PROVE  /\ call' \in [Threads -> Calls]
           /\ call'[t].at = "check"
           /\ \A u \in Threads : u # t => call'[u] = call[u]
<1>1. [Idle EXCEPT !.at = "check", !.plan = p] \in Calls
  BY DEF Idle, Calls, Steps
<1>2. call' = [call EXCEPT ![t] = [Idle EXCEPT !.at = "check", !.plan = p]]
  BY DEF Begin
<1>3. [Idle EXCEPT !.at = "check", !.plan = p].at = "check"
  BY DEF Idle
<1>4. QED
  BY <1>1, <1>2, <1>3

LEMMA CheckedEffect ==
    ASSUME call \in [Threads -> Calls], NEW t \in Threads, Checked(t)
    PROVE  /\ call' \in [Threads -> Calls]
           /\ call'[t].at \in {"gate", "idle"}
           /\ call'[t].at # "idle" => /\ call'[t].plan = call[t].plan
                                      /\ call[t].plan # NoPlan
           /\ \A u \in Threads : u # t => call'[u] = call[u]
<1>1. "gate" \in Steps
  BY DEF Steps
<1>2. CASE call[t].plan = NoPlan
  BY <1>2, ReturnEffect DEF Checked, Idle
<1>3. CASE call[t].plan # NoPlan
  BY <1>1, <1>3, GotoEffect DEF Checked
<1>4. QED
  BY <1>2, <1>3

LEMMA FilledEffect ==
    ASSUME call \in [Threads -> Calls], NEW t \in Threads,
           NEW status \in {"FILLED", "PARTIALLY_FILLED", "REJECTED"},
           call' = [call EXCEPT ![t].at = "save", ![t].status = status]
    PROVE  /\ call' \in [Threads -> Calls]
           /\ call'[t].at = "save"
           /\ call'[t].plan = call[t].plan
           /\ \A u \in Threads : u # t => call'[u] = call[u]
<1>1. call[t] \in Calls
  OBVIOUS
<1>2. [call[t] EXCEPT !.at = "save", !.status = status] \in Calls
  BY <1>1 DEF Calls, Steps
<1>3. call' = [call EXCEPT ![t] = [call[t] EXCEPT !.at = "save", !.status = status]]
  OBVIOUS
<1>4. QED
  BY <1>1, <1>2, <1>3 DEF Calls

-----------------------------------------------------------------------------
(* The types, and that a call past its first step has a plan *)

TypeInv == TypeOK /\ CallsHavePlans

LEMMA InitTypes == Init => TypeInv
BY DEF Init, TypeInv, TypeOK, CallsHavePlans, Idle, Flat, Calls, Steps,
       Positions, Planned, Complied

LEMMA FlatIsPosition == Flat \in Positions
BY DEF Flat, Positions

LEMMA BookedIsPosition ==
    ASSUME PlansAssumption, NEW p \in Plans, NEW held \in Positions,
           NEW left \in Booked(p, held)
    PROVE  left \in Positions
<1>1. p.strategy \in Strategies /\ p.side \in Sides
  BY DEF Strategies, PlansAssumption
<1>2. left = Flat \/ left = [side    |-> IF held = Flat THEN p.side ELSE held.side,
                            owner   |-> p.strategy,
                            traders |-> held.traders \cup {p.strategy}]
  BY DEF Booked
<1>3. QED
  BY <1>1, <1>2, FlatIsPosition DEF Positions

LEMMA TypesKept ==
    ASSUME TypeInv, PlansAssumption, [Next]_vars
    PROVE  TypeInv'
<1>0. call \in [Threads -> Calls]
  BY DEF TypeInv, TypeOK
<1>1. ASSUME NEW t \in Threads, NEW p \in Plans, Begin(t, p) PROVE TypeInv'
  <2>1. begun' \subseteq Plans
    BY <1>1 DEF Begin, TypeInv, TypeOK
  <2>2. CallsHavePlans'
    BY <1>0, <1>1, BeginEffect
       DEF TypeInv, CallsHavePlans, Planned, Complied
  <2>3. QED
    BY <1>0, <1>1, <2>1, <2>2, BeginEffect
       DEF Begin, TypeInv, TypeOK, switches, books
<1>2. ASSUME NEW t \in Threads, Start(t) PROVE TypeInv'
  <2>1. call' \in [Threads -> Calls] /\ CallsHavePlans'
    BY <1>0, <1>2, GotoEffect
       DEF Start, TypeInv, CallsHavePlans, Planned, Complied, Steps
  <2>2. QED
    BY <1>2, <2>1 DEF Start, TypeInv, TypeOK, switches, books
<1>3. ASSUME NEW t \in Threads, ExecuteStep(t) PROVE TypeInv'
  <2>1. CASE CheckStopFile(t)
    <3>1. call' \in [Threads -> Calls] /\ CallsHavePlans'
      <4>1. CASE stopFile
        BY <1>0, <2>1, <4>1, GotoEffect
           DEF CheckStopFile, TypeInv, CallsHavePlans, Planned, Complied, Steps
      <4>2. CASE ~stopFile
        <5>1. Checked(t)
          BY <2>1, <4>2 DEF CheckStopFile
        <5>2. call[t].plan \in Plans \cup {NoPlan}
          BY <1>0 DEF Calls
        <5>3. QED
          BY <1>0, <5>1, <5>2, CheckedEffect
             DEF TypeInv, CallsHavePlans, Planned, Complied
      <4>3. QED
        BY <4>1, <4>2
    <3>2. QED
      BY <2>1, <3>1 DEF CheckStopFile, TypeInv, TypeOK, books
  <2>2. CASE HaltExchange(t)
    <3>1. Checked(t) /\ call[t].plan \in Plans \cup {NoPlan}
      BY <1>0, <2>2 DEF HaltExchange, Calls
    <3>2. call' \in [Threads -> Calls] /\ CallsHavePlans'
      BY <1>0, <3>1, CheckedEffect DEF TypeInv, CallsHavePlans, Planned, Complied
    <3>3. QED
      BY <2>2, <3>2 DEF HaltExchange, TypeInv, TypeOK, books
  <2>3. CASE Gate(t) \/ ResolveConflict(t) \/ Comply(t) \/ Risk(t)
    <3>1. PICK x \in {"conflict", "comply", "risk", "order"} :
              Goto(t, x) \/ Return(t)
      BY <2>3 DEF Gate, ResolveConflict, Comply, Risk
    <3>2. call[t].at \in Planned
      BY <2>3 DEF Gate, ResolveConflict, Comply, Risk, Planned, Complied
    <3>3. x \in Steps
      BY DEF Steps
    <3>4. call' \in [Threads -> Calls] /\ CallsHavePlans'
      BY <1>0, <3>1, <3>2, <3>3, MoveEffect
         DEF TypeInv, CallsHavePlans, Planned, Complied
    <3>5. QED
      BY <2>3, <3>4
         DEF Gate, ResolveConflict, Comply, Risk, TypeInv, TypeOK, switches, books
  <2>4. ASSUME NEW status \in {"FILLED", "PARTIALLY_FILLED"}, OrderFills(t, status)
        PROVE  TypeInv'
    <3>1. call' = [call EXCEPT ![t].at = "save", ![t].status = status]
      BY <2>4 DEF OrderFills
    <3>2. call[t].plan \in Plans
      BY <2>4 DEF OrderFills, TypeInv, CallsHavePlans, Planned, Complied
    <3>3. call' \in [Threads -> Calls] /\ CallsHavePlans'
      BY <1>0, <3>1, <3>2, FilledEffect DEF TypeInv, CallsHavePlans, Planned, Complied
    <3>4. call[t].plan.symbol \in Symbols
      BY <3>2 DEF Symbols
    <3>5. position' \in [Symbols -> Positions]
      BY <2>4, <3>2, <3>4, BookedIsPosition DEF OrderFills, TypeInv, TypeOK
    <3>6. late' \in [Threads -> Nat]
      BY <2>4 DEF OrderFills, TypeInv, TypeOK
    <3>7. QED
      BY <2>4, <3>2, <3>3, <3>5, <3>6
         DEF OrderFills, TypeInv, TypeOK, switches
  <2>5. CASE OrderRejected(t)
    <3>1. call' = [call EXCEPT ![t].at = "save", ![t].status = "REJECTED"]
      BY <2>5 DEF OrderRejected
    <3>2. call[t].plan \in Plans
      BY <2>5 DEF OrderRejected, TypeInv, CallsHavePlans, Planned, Complied
    <3>3. call' \in [Threads -> Calls] /\ CallsHavePlans'
      BY <1>0, <3>1, <3>2, FilledEffect DEF TypeInv, CallsHavePlans, Planned, Complied
    <3>4. QED
      BY <2>5, <3>3 DEF OrderRejected, TypeInv, TypeOK, books
  <2>6. CASE Save(t)
    <3>1. call' \in [Threads -> Calls] /\ CallsHavePlans'
      BY <1>0, <2>6, GotoEffect
         DEF Save, TypeInv, CallsHavePlans, Planned, Complied, Steps
    <3>2. saved' \subseteq Plans
      BY <2>6 DEF Save, TypeInv, TypeOK
    <3>3. QED
      BY <2>6, <3>1, <3>2 DEF Save, TypeInv, TypeOK, switches
  <2>7. CASE Count(t)
    <3>1. call' \in [Threads -> Calls] /\ CallsHavePlans'
      BY <1>0, <2>7, ReturnEffect
         DEF Count, TypeInv, CallsHavePlans, Planned, Complied, Idle
    <3>2. call[t].plan \in Plans
      BY <2>7 DEF Count, TypeInv, CallsHavePlans, Planned, Complied
    <3>3. turnover' \in Nat
      BY <2>7, <3>2 DEF Count, TypeInv, TypeOK, PlansAssumption
    <3>4. QED
      BY <2>7, <3>1, <3>3 DEF Count, TypeInv, TypeOK, switches
  <2>8. QED
    BY <1>3, <2>1, <2>2, <2>3, <2>4, <2>5, <2>6, <2>7 DEF ExecuteStep
<1>4. ASSUME NEW o \in Operators, OperatorStep(o) PROVE TypeInv'
  <2>1. position' \in [Symbols -> Positions] /\ last' \in Plans \cup {NoPlan}
    BY <1>4, FlatIsPosition
       DEF OperatorStep, ActivateKill, HaltAfterKill, ReplaceExchange,
           ClearTurnover, TypeInv, TypeOK, books
  <2>2. op' \in [Operators -> {"idle", "halting", "clearing"}]
    BY <1>4
       DEF OperatorStep, ActivateKill, HaltAfterKill, ReplaceExchange,
           ClearTurnover, Finish, TypeInv, TypeOK
  <2>3. late' \in [Threads -> Nat]
    BY <1>4
       DEF OperatorStep, ActivateKill, HaltAfterKill, ReplaceExchange,
           ClearTurnover, LateNow, TypeInv, TypeOK
  <2>4. call' = call /\ begun' = begun /\ saved' = saved
    BY <1>4
       DEF OperatorStep, ActivateKill, HaltAfterKill, ReplaceExchange,
           ClearTurnover, books
  <2>5. stopFile' \in BOOLEAN /\ killed' \in BOOLEAN /\ halted' \in BOOLEAN
    BY <1>4, Zenon
       DEF OperatorStep, ActivateKill, HaltAfterKill, ReplaceExchange,
           ClearTurnover, TypeInv, TypeOK, switches
  <2>6. turnover' = turnover \/ turnover' = 0
    BY <1>4
       DEF OperatorStep, ActivateKill, HaltAfterKill, ReplaceExchange,
           ClearTurnover, books
  <2>7. QED
    BY <2>1, <2>2, <2>3, <2>4, <2>5, <2>6 DEF TypeInv, TypeOK, CallsHavePlans
<1>5. CASE ToggleStopFile
  BY <1>5 DEF ToggleStopFile, LateNow, TypeInv, TypeOK, CallsHavePlans, books
<1>6. CASE SafeRestart
  BY <1>6 DEF SafeRestart, TypeInv, TypeOK, CallsHavePlans, books
<1>7. CASE UNCHANGED vars
  BY <1>7 DEF vars, switches, books, TypeInv, TypeOK, CallsHavePlans
<1>8. QED
  BY <1>1, <1>2, <1>3, <1>4, <1>5, <1>6, <1>7 DEF Next

(***************************************************************************)
(* Every variable keeps its type.                                          *)
(***************************************************************************)
THEOREM TypeCorrect == Spec => []TypeOK
<1>1. Init => TypeInv
  BY InitTypes
<1>2. TypeInv /\ [Next]_vars => TypeInv'
  BY TypesKept, PlansAssumption
<1>3. TypeInv => TypeOK
  BY DEF TypeInv
<1>4. QED
  BY <1>1, <1>2, <1>3, PTL DEF Spec

-----------------------------------------------------------------------------
(* Fills under a stop.  A thread that had its one late fill is not on the   *)
(* way to another: when it begins again, the check finds the stop.          *)

Spent(t) ==
    /\ call[t].at \notin {"conflict", "comply", "risk", "order"}
    /\ call[t].at \in {"halt", "gate"} => killed

LateInv ==
    /\ LateFillsBounded
    /\ UnderStop => \A t \in Threads : late[t] = 1 => Spent(t)

\* A thread that spent its late fill goes on to steps where it stays spent.
LEMMA SpentKept ==
    ASSUME TypeInv, NEW t \in Threads, UnderStop, Spent(t),
           ExecuteStep(t)
    PROVE  Spent(t)'
<1>0. call \in [Threads -> Calls]
  BY DEF TypeInv, TypeOK
<1>1. call[t].at \in {"check", "halt", "gate", "save", "count"}
  BY <1>0
     DEF Spent, ExecuteStep, CheckStopFile, HaltExchange, Gate, ResolveConflict,
         Comply, Risk, OrderFills, OrderRejected, Save, Count
<1>2. CASE CheckStopFile(t)
  <2>1. killed'
    BY <1>2 DEF CheckStopFile, UnderStop
  <2>2. call'[t].at \in {"halt", "gate", "idle"}
    BY <1>0, <1>2, CheckedEffect, GotoEffect DEF CheckStopFile, Steps
  <2>3. QED
    BY <2>1, <2>2 DEF Spent
<1>3. CASE HaltExchange(t)
  <2>1. killed'
    BY <1>3 DEF HaltExchange, Spent
  <2>2. call'[t].at \in {"gate", "idle"}
    BY <1>0, <1>3, CheckedEffect DEF HaltExchange
  <2>3. QED
    BY <2>1, <2>2 DEF Spent
<1>4. CASE Gate(t)
  <2>1. killed
    BY <1>4 DEF Gate, Spent
  <2>2. call'[t] = Idle
    BY <1>0, <1>4, <2>1, ReturnEffect DEF Gate
  <2>3. QED
    BY <2>2 DEF Spent, Idle
<1>5. CASE Save(t)
  BY <1>0, <1>5, GotoEffect DEF Save, Spent, Steps
<1>6. CASE Count(t)
  BY <1>0, <1>6, ReturnEffect DEF Count, Spent, Idle
<1>7. QED
  BY <1>1, <1>2, <1>3, <1>4, <1>5, <1>6
     DEF ExecuteStep, ResolveConflict, Comply, Risk, OrderFills, OrderRejected

\* A thread's step leaves every other call alone.
LEMMA OthersUnmoved ==
    ASSUME call \in [Threads -> Calls], NEW t \in Threads,
           ExecuteStep(t) \/ Start(t) \/ \E p \in Plans : Begin(t, p)
    PROVE  \A u \in Threads : u # t => call'[u] = call[u]
<1>1. CASE \E p \in Plans : Begin(t, p)
  BY <1>1, BeginEffect
<1>2. CASE Start(t)
  BY <1>2, GotoEffect DEF Start, Steps
<1>3. CASE CheckStopFile(t)
  BY <1>3, CheckedEffect, GotoEffect DEF CheckStopFile, Steps
<1>4. CASE HaltExchange(t)
  BY <1>4, CheckedEffect DEF HaltExchange
<1>5. CASE Gate(t) \/ ResolveConflict(t) \/ Comply(t) \/ Risk(t)
  <2>1. PICK x \in {"conflict", "comply", "risk", "order"} : Goto(t, x) \/ Return(t)
    BY <1>5 DEF Gate, ResolveConflict, Comply, Risk
  <2>2. QED
    BY <2>1, MoveEffect DEF Steps
<1>6. ASSUME NEW status \in {"FILLED", "PARTIALLY_FILLED"}, OrderFills(t, status)
      PROVE  \A u \in Threads : u # t => call'[u] = call[u]
  BY <1>6, FilledEffect DEF OrderFills
<1>7. CASE OrderRejected(t)
  BY <1>7, FilledEffect DEF OrderRejected
<1>8. CASE Save(t) \/ Count(t)
  BY <1>8, GotoEffect, ReturnEffect DEF Save, Count, Steps
<1>9. QED
  BY <1>1, <1>2, <1>3, <1>4, <1>5, <1>6, <1>7, <1>8 DEF ExecuteStep

LEMMA InitLate == Init => LateInv
BY DEF Init, LateInv, LateFillsBounded, Idle

LEMMA LateKept ==
    ASSUME TypeInv, LateInv, [Next]_vars
    PROVE  LateInv'
<1>0. call \in [Threads -> Calls] /\ late \in [Threads -> Nat]
  BY DEF TypeInv, TypeOK
<1>1. ASSUME NEW t \in Threads, Start(t) \/ \E p \in Plans : Begin(t, p)
      PROVE  LateInv'
  <2>1. call'[t].at = "check"
    BY <1>0, <1>1, GotoEffect, BeginEffect DEF Start, Steps
  <2>2. late' = late /\ killed' = killed /\ stopFile' = stopFile
    BY <1>1 DEF Start, Begin, switches
  <2>3. \A u \in Threads : u # t => (Spent(u) <=> Spent(u)')
    BY <1>0, <1>1, <2>2, OthersUnmoved DEF Spent
  <2>4. Spent(t)'
    BY <2>1 DEF Spent
  <2>5. QED
    BY <2>2, <2>3, <2>4 DEF LateInv, LateFillsBounded, UnderStop
<1>2. ASSUME NEW t \in Threads, ExecuteStep(t) PROVE LateInv'
  <2>1. (UnderStop' <=> UnderStop) /\ (killed => killed')
    <3>1. CASE CheckStopFile(t)
      BY <3>1, Zenon DEF CheckStopFile, UnderStop
    <3>2. CASE killed' = killed /\ stopFile' = stopFile
      BY <3>2 DEF UnderStop
    <3>3. QED
      BY <1>2, <3>1, <3>2
         DEF ExecuteStep, HaltExchange, Gate, ResolveConflict, Comply, Risk,
             OrderFills, OrderRejected, Save, Count, switches
  <2>2. \A u \in Threads : u # t /\ Spent(u) => Spent(u)'
    BY <1>0, <1>2, <2>1, OthersUnmoved DEF Spent
  <2>3. CASE late' = late
    BY <1>2, <2>1, <2>2, <2>3, SpentKept DEF LateInv, LateFillsBounded
  <2>4. CASE late' # late
    <3>1. PICK status \in {"FILLED", "PARTIALLY_FILLED"} : OrderFills(t, status)
      BY <1>2, <2>4
         DEF ExecuteStep, CheckStopFile, HaltExchange, Gate, ResolveConflict,
             Comply, Risk, OrderRejected, Save, Count
    <3>2. UnderStop /\ late' = [late EXCEPT ![t] = late[t] + 1]
      BY <1>0, <2>4, <3>1 DEF OrderFills
    <3>3. late[t] = 0
      <4>1. ~Spent(t)
        BY <3>1 DEF Spent, OrderFills
      <4>2. late[t] <= 1 /\ late[t] # 1
        BY <3>2, <4>1 DEF LateInv, LateFillsBounded
      <4>3. QED
        BY <1>0, <4>2
    <3>4. late'[t] = 1 /\ \A u \in Threads : u # t => late'[u] = late[u]
      BY <1>0, <3>2, <3>3
    <3>5. call'[t].at = "save"
      BY <1>0, <3>1, FilledEffect DEF OrderFills
    <3>6. Spent(t)'
      BY <3>5 DEF Spent
    <3>7. QED
      BY <2>1, <2>2, <3>2, <3>4, <3>6 DEF LateInv, LateFillsBounded
  <2>5. QED
    BY <2>3, <2>4
<1>3. ASSUME ToggleStopFile \/ \E o \in Operators : OperatorStep(o) PROVE LateInv'
  <2>1. call' = call /\ (killed => killed')
    BY <1>3
       DEF ToggleStopFile, OperatorStep, ActivateKill, HaltAfterKill,
           ReplaceExchange, ClearTurnover, switches
  <2>2. \A u \in Threads : Spent(u) => Spent(u)'
    BY <2>1 DEF Spent
  <2>3. LateNow \/ (late' = late /\ (UnderStop' <=> UnderStop))
    BY <1>3
       DEF ToggleStopFile, OperatorStep, ActivateKill, HaltAfterKill,
           ReplaceExchange, ClearTurnover, switches, UnderStop
  <2>4. CASE ~UnderStop /\ UnderStop' /\ late' = [u \in Threads |-> 0]
    <3>1. \A u \in Threads : late'[u] = 0
      BY <2>4
    <3>2. QED
      BY <3>1 DEF LateInv, LateFillsBounded
  <2>5. CASE late' = late /\ (UnderStop' => UnderStop)
    BY <2>2, <2>5 DEF LateInv, LateFillsBounded
  <2>6. QED
    BY <2>3, <2>4, <2>5 DEF LateNow
<1>4. CASE SafeRestart
  BY <1>4 DEF SafeRestart, LateInv, LateFillsBounded, UnderStop
<1>5. CASE UNCHANGED vars
  BY <1>5 DEF vars, switches, LateInv, LateFillsBounded, UnderStop, Spent
<1>6. QED
  BY <1>1, <1>2, <1>3, <1>4, <1>5 DEF Next

(***************************************************************************)
(* While the STOP file exists or the kill switch is active, each thread    *)
(* fills at most the order that was on its way.                            *)
(***************************************************************************)
THEOREM LateFillsAreBounded == Spec => []LateFillsBounded
<1>1. Init => TypeInv /\ LateInv
  BY InitTypes, InitLate
<1>2. (TypeInv /\ LateInv) /\ [Next]_vars => (TypeInv /\ LateInv)'
  BY TypesKept, LateKept, PlansAssumption
<1>3. LateInv => LateFillsBounded
  BY DEF LateInv
<1>4. QED
  BY <1>1, <1>2, <1>3, PTL DEF Spec

\* Only a fill, or a thread that comes to its save, could disturb it.
LEMMA SavedKept ==
    ASSUME TypeInv, LastFillSaved, [Next]_vars
    PROVE  LastFillSaved'
<1>0. call \in [Threads -> Calls]
  BY DEF TypeInv, TypeOK
<1>1. ASSUME NEW t \in Threads, Save(t) PROVE LastFillSaved'
  BY <1>1 DEF Save, LastFillSaved
<1>2. ASSUME NEW t \in Threads, NEW status \in {"FILLED", "PARTIALLY_FILLED"},
             OrderFills(t, status)
      PROVE  LastFillSaved'
  BY <1>0, <1>2, FilledEffect DEF OrderFills, LastFillSaved
<1>3. ASSUME NEW t \in Threads, OrderRejected(t) PROVE LastFillSaved'
  BY <1>0, <1>3, FilledEffect DEF OrderRejected, LastFillSaved
<1>4. ASSUME NEW t \in Threads,
             \/ ExecuteStep(t) \/ Start(t) \/ \E p \in Plans : Begin(t, p),
             call[t].at # "save",
             last' = last, saved' = saved
      PROVE  LastFillSaved'
  BY <1>0, <1>4, OthersUnmoved DEF LastFillSaved
<1>5. ASSUME NEW t \in Threads,
             ExecuteStep(t) \/ Start(t) \/ \E p \in Plans : Begin(t, p)
      PROVE  LastFillSaved'
  <2>1. CASE Save(t) \/ OrderRejected(t)
    BY <2>1, <1>1, <1>3
  <2>2. CASE \E status \in {"FILLED", "PARTIALLY_FILLED"} : OrderFills(t, status)
    BY <2>2, <1>2
  <2>3. QED
    BY <1>4, <1>5, <2>1, <2>2
       DEF ExecuteStep, Start, Begin, CheckStopFile, HaltExchange, Gate,
           ResolveConflict, Comply, Risk, Count, books
<1>6. CASE ToggleStopFile \/ SafeRestart \/ \E o \in Operators : OperatorStep(o)
  BY <1>6
     DEF ToggleStopFile, SafeRestart, OperatorStep, ActivateKill, HaltAfterKill,
         ReplaceExchange, ClearTurnover, books, LastFillSaved
<1>7. CASE UNCHANGED vars
  BY <1>7 DEF vars, books, LastFillSaved
<1>8. QED
  BY <1>5, <1>6, <1>7 DEF Next

(***************************************************************************)
(* The last fill is saved once no thread has a save to make.               *)
(***************************************************************************)
THEOREM LastFillIsSaved == Spec => []LastFillSaved
<1>1. Init => TypeInv /\ LastFillSaved
  BY InitTypes DEF Init, LastFillSaved
<1>2. (TypeInv /\ LastFillSaved) /\ [Next]_vars => (TypeInv /\ LastFillSaved)'
  BY TypesKept, SavedKept, PlansAssumption
<1>3. QED
  BY <1>1, <1>2, PTL DEF Spec

-----------------------------------------------------------------------------
(* The turnover limit.  The plans past compliance are charged in advance:   *)
(* the last of them that passed found room for itself below the limit, and  *)
(* each of the others brings at most the largest notional.                  *)

Pending == {t \in Threads : call[t].at \in Complied}

\* The room that is left when k plans are pending.
Room(k) == MaxTurnover + MaxNotional * (N - k)

Notional(t) == call[t].plan.notional

\* P: the pending threads, n: what each may add, v: the turnover.
Charged(P, n, v) ==
    IF P = {} THEN v <= MaxTurnover + MaxNotional * (N - 1)
    ELSE \E t \in P : v + n[t] <= Room(Cardinality(P))

Notionals(P) == [t \in P |-> Notional(t)]

TurnoverInv == Charged(Pending, Notionals(Pending), turnover)

LEMMA ThreadsCounted == N \in Nat /\ N >= 1
BY ThreadsAssumption, FS_CardinalityType, FS_EmptySet DEF N

LEMMA SubsetCounted ==
    ASSUME NEW P \in SUBSET Threads
    PROVE  /\ IsFiniteSet(P)
           /\ Cardinality(P) \in Nat
           /\ Cardinality(P) <= N
           /\ Cardinality(P) = 0 <=> P = {}
BY ThreadsAssumption, FS_Subset, FS_CardinalityType, FS_EmptySet DEF N

LEMMA RoomWidens ==
    ASSUME NEW k \in Int
    PROVE  Room(k - 1) = Room(k) + MaxNotional
<1>0. N \in Nat /\ MaxNotional \in Nat /\ MaxTurnover \in Nat
  BY ThreadsCounted, TurnoverAssumption
<1>1. \A a, b \in Int : a * (b + 1) = a * b + a
  OBVIOUS
<1>2. N - (k - 1) = (N - k) + 1
  BY <1>0
<1>3. MaxNotional * ((N - k) + 1) = MaxNotional * (N - k) + MaxNotional
  BY <1>0, <1>1
<1>4. MaxNotional * (N - k) \in Int
  BY <1>0
<1>5. QED
  BY <1>0, <1>2, <1>3, <1>4 DEF Room

LEMMA RoomOfAll ==
    ASSUME NEW k \in Nat, k <= N
    PROVE  Room(k) \in Int /\ Room(k) >= MaxTurnover
<1>0. N \in Nat /\ MaxNotional \in Nat /\ MaxTurnover \in Nat
  BY ThreadsCounted, TurnoverAssumption
<1>1. \A a, b \in Nat : a * b \in Nat
  OBVIOUS
<1>2. N - k \in Nat
  BY <1>0
<1>3. MaxNotional * (N - k) \in Nat
  BY <1>0, <1>1, <1>2
<1>4. QED
  BY <1>0, <1>3 DEF Room

\* A plan passes compliance.
LEMMA ChargedByAdding ==
    ASSUME NEW P \in SUBSET Threads, NEW t \in Threads \ P,
           NEW n, n[t] \in Nat, NEW v \in Nat, v + n[t] <= MaxTurnover
    PROVE  Charged(P \cup {t}, n, v)
<1>1. Cardinality(P \cup {t}) \in Nat /\ Cardinality(P \cup {t}) <= N
  BY SubsetCounted
<1>2. Room(Cardinality(P \cup {t})) \in Int /\ Room(Cardinality(P \cup {t})) >= MaxTurnover
  BY <1>1, RoomOfAll
<1>3. v + n[t] <= Room(Cardinality(P \cup {t}))
  BY <1>2, TurnoverAssumption
<1>4. QED
  BY <1>3 DEF Charged

\* A plan is counted, or refused, and leaves.
LEMMA ChargedByRemoving ==
    ASSUME NEW P \in SUBSET Threads, NEW t \in P,
           NEW n, NEW m, \A u \in P : n[u] \in 0..MaxNotional,
           \A u \in P \ {t} : m[u] = n[u],
           NEW v \in Nat, NEW w \in Nat, w <= v + n[t],
           Charged(P, n, v)
    PROVE  Charged(P \ {t}, m, w)
<1>0. MaxNotional \in Nat /\ MaxTurnover \in Nat /\ N \in Nat
  BY TurnoverAssumption, ThreadsCounted
<1>1. /\ Cardinality(P) \in Nat /\ Cardinality(P) <= N
      /\ Cardinality(P \ {t}) = Cardinality(P) - 1
  BY SubsetCounted, FS_RemoveElement
<1>2. Room(Cardinality(P \ {t})) = Room(Cardinality(P)) + MaxNotional
  BY <1>1, RoomWidens
<1>3. Room(Cardinality(P)) \in Int
  BY <1>1, RoomOfAll
<1>4. PICK x \in P : v + n[x] <= Room(Cardinality(P))
  BY DEF Charged
<1>5. CASE P \ {t} = {}
  <2>1. x = t /\ Cardinality(P) = 1
    BY <1>1, <1>4, <1>5, SubsetCounted, FS_EmptySet
  <2>2. w <= Room(1)
    BY <1>3, <1>4, <2>1
  <2>3. QED
    BY <1>5, <2>2 DEF Charged, Room
<1>6. CASE P \ {t} # {}
  <2>1. PICK y \in P \ {t} : x # t => y = x
    BY <1>4, <1>6
  <2>2. w + n[y] <= Room(Cardinality(P)) + MaxNotional
    <3>1. CASE x = t
      BY <1>0, <1>3, <1>4, <3>1
    <3>2. CASE x # t
      BY <1>0, <1>3, <1>4, <2>1, <3>2
    <3>3. QED
      BY <3>1, <3>2
  <2>3. w + m[y] <= Room(Cardinality(P \ {t}))
    BY <1>2, <2>1, <2>2
  <2>4. QED
    BY <1>6, <2>1, <2>3 DEF Charged
<1>7. QED
  BY <1>5, <1>6

\* Nothing passes and nothing leaves.
LEMMA ChargedByStaying ==
    ASSUME NEW P \in SUBSET Threads, NEW n, NEW m,
           \A u \in P : n[u] \in 0..MaxNotional /\ m[u] = n[u],
           NEW v \in Nat, NEW w \in Nat, w <= v,
           Charged(P, n, v)
    PROVE  Charged(P, m, w)
<1>0. MaxNotional \in Nat /\ MaxTurnover \in Nat /\ N \in Nat
  BY TurnoverAssumption, ThreadsCounted
<1>1. CASE P = {}
  <2>1. Room(1) \in Int /\ Room(1) = MaxTurnover + MaxNotional * (N - 1)
    BY ThreadsCounted, RoomOfAll DEF Room
  <2>2. v <= Room(1)
    BY <1>1, <2>1 DEF Charged
  <2>3. w <= Room(1)
    BY <2>1, <2>2
  <2>4. QED
    BY <1>1, <2>1, <2>3 DEF Charged
<1>2. CASE P # {}
  <2>1. PICK x \in P : v + n[x] <= Room(Cardinality(P))
    BY <1>2 DEF Charged
  <2>2. Room(Cardinality(P)) \in Int
    BY SubsetCounted, RoomOfAll
  <2>3. n[x] \in Nat /\ m[x] = n[x]
    BY <1>0
  <2>4. w + m[x] <= Room(Cardinality(P))
    BY <2>1, <2>2, <2>3
  <2>5. QED
    BY <1>2, <2>4 DEF Charged
<1>3. QED
  BY <1>1, <1>2

LEMMA ChargedBounds ==
    ASSUME TypeInv, PlansAssumption, TurnoverInv
    PROVE  TurnoverBounded
<1>0. MaxNotional \in Nat /\ MaxTurnover \in Nat /\ N \in Nat /\ N >= 1
  BY TurnoverAssumption, ThreadsCounted
<1>1. CASE Pending = {}
  BY <1>1 DEF TurnoverInv, Charged, TurnoverBounded, N
<1>2. CASE Pending # {}
  <2>1. PICK t \in Pending :
            turnover + Notionals(Pending)[t] <= Room(Cardinality(Pending))
    BY <1>2 DEF TurnoverInv, Charged
  <2>2. Notionals(Pending)[t] \in Nat
    BY <1>0, <2>1
       DEF Notionals, Notional, Pending, TypeInv, CallsHavePlans, Planned,
           PlansAssumption
  <2>3. turnover \in Nat
    BY DEF TypeInv, TypeOK
  <2>4. Pending \subseteq Threads
    BY DEF Pending
  <2>5. Cardinality(Pending) \in 1..N
    BY <1>2, <2>4, SubsetCounted, <1>0
  <2>6. \A a, b, c \in Nat : b <= c => a * b <= a * c
    BY SMT
  <2>7. MaxNotional * (N - Cardinality(Pending)) <= MaxNotional * (N - 1)
    BY <1>0, <2>5, <2>6
  <2>8. QED
    BY <1>0, <2>1, <2>2, <2>3, <2>5, <2>7 DEF Room, TurnoverBounded, N
<1>3. QED
  BY <1>1, <1>2

LEMMA PendingNotionals ==
    ASSUME TypeInv, PlansAssumption
    PROVE  /\ Pending \in SUBSET Threads
           /\ \A u \in Pending : /\ Notionals(Pending)[u] \in 0..MaxNotional
                                /\ Notionals(Pending)[u] = Notional(u)
<1>1. \A u \in Pending : call[u].plan \in Plans
  BY DEF Pending, TypeInv, CallsHavePlans, Planned
<1>2. \A u \in Pending : Notional(u) \in 1..MaxNotional
  BY <1>1 DEF Notional, PlansAssumption
<1>3. QED
  BY <1>2, TurnoverAssumption DEF Pending, Notionals

\* A step that changes nothing that is pending, and adds nothing.
LEMMA TurnoverUntouched ==
    ASSUME TypeInv, TypeInv', PlansAssumption, TurnoverInv,
           Pending' = Pending,
           \A u \in Pending : call'[u].plan = call[u].plan,
           turnover' <= turnover
    PROVE  TurnoverInv'
<1>1. \A u \in Pending : Notionals(Pending)'[u] = Notionals(Pending)[u]
  BY DEF Notionals, Notional
<1>2. turnover \in Nat /\ turnover' \in Nat
  BY DEF TypeInv, TypeOK
<1>3. Charged(Pending, Notionals(Pending)', turnover')
  <2> HIDE DEF Charged, Notionals, Pending
  <2>1. QED
    BY <1>1, <1>2, PendingNotionals, ChargedByStaying DEF TurnoverInv
<1>4. QED
  BY <1>3 DEF TurnoverInv

\* A step with which a pending thread leaves and adds at most its plan.
LEMMA TurnoverLeft ==
    ASSUME TypeInv, TypeInv', PlansAssumption, TurnoverInv,
           NEW t \in Pending, call'[t] = Idle,
           \A u \in Threads : u # t => call'[u] = call[u],
           turnover' <= turnover + Notional(t)
    PROVE  TurnoverInv'
<1>1. Pending' = Pending \ {t}
  BY DEF Pending, Complied, Idle
<1>2. \A u \in Pending \ {t} : Notionals(Pending)'[u] = Notionals(Pending)[u]
  BY <1>1 DEF Notionals, Notional, Pending
<1>3. turnover \in Nat /\ turnover' \in Nat
  BY DEF TypeInv, TypeOK
<1>4. Charged(Pending \ {t}, Notionals(Pending)', turnover')
  <2>1. turnover' <= turnover + Notionals(Pending)[t]
    BY PendingNotionals
  <2> HIDE DEF Charged, Notionals, Pending
  <2>2. QED
    BY <1>2, <1>3, <2>1, PendingNotionals, ChargedByRemoving DEF TurnoverInv
<1>5. QED
  BY <1>1, <1>4 DEF TurnoverInv

LEMMA TurnoverKept ==
    ASSUME TypeInv, TypeInv', PlansAssumption, TurnoverInv, [Next]_vars
    PROVE  TurnoverInv'
<1>0. call \in [Threads -> Calls] /\ turnover \in Nat
  BY DEF TypeInv, TypeOK
<1>1. ASSUME NEW t \in Threads,
             ExecuteStep(t) \/ Start(t) \/ \E p \in Plans : Begin(t, p),
             t \in Pending <=> call'[t].at \in Complied,
             t \in Pending => call'[t].plan = call[t].plan,
             turnover' = turnover
      PROVE  TurnoverInv'
  <2>1. \A u \in Threads : u # t => call'[u] = call[u]
    BY <1>0, <1>1, OthersUnmoved
  <2>2. Pending' = Pending
    BY <1>1, <2>1 DEF Pending
  <2>3. \A u \in Pending : call'[u].plan = call[u].plan
    BY <1>1, <2>1 DEF Pending
  <2>4. QED
    BY <1>0, <1>1, <2>2, <2>3, TurnoverUntouched
<1>2. ASSUME NEW t \in Threads,
             ExecuteStep(t), call[t].at \in Complied, call'[t] = Idle,
             turnover' <= turnover + Notional(t)
      PROVE  TurnoverInv'
  <2>1. t \in Pending
    BY <1>2 DEF Pending
  <2>2. \A u \in Threads : u # t => call'[u] = call[u]
    BY <1>0, <1>2, OthersUnmoved
  <2>3. QED
    BY <1>2, <2>1, <2>2, TurnoverLeft
<1>3. ASSUME NEW t \in Threads, Start(t) \/ \E p \in Plans : Begin(t, p)
      PROVE  TurnoverInv'
  <2>1. call[t].at = "idle" /\ call'[t].at = "check" /\ turnover' = turnover
    BY <1>0, <1>3, GotoEffect, BeginEffect DEF Start, Begin, Steps, books
  <2>2. QED
    BY <1>1, <1>3, <2>1 DEF Pending, Complied
<1>4. ASSUME NEW t \in Threads,
             \/ CheckStopFile(t) \/ HaltExchange(t) \/ Gate(t) \/ ResolveConflict(t)
      PROVE  TurnoverInv'
  <2>1. /\ call[t].at \notin Complied
        /\ call'[t].at \notin Complied
        /\ turnover' = turnover
    <3>1. CASE CheckStopFile(t)
      BY <1>0, <3>1, CheckedEffect, GotoEffect DEF CheckStopFile, Complied, Steps, books
    <3>2. CASE HaltExchange(t)
      BY <1>0, <3>2, CheckedEffect DEF HaltExchange, Complied, books
    <3>3. CASE Gate(t) \/ ResolveConflict(t)
      <4>1. PICK x \in {"conflict", "comply"} : Goto(t, x) \/ Return(t)
        BY <3>3 DEF Gate, ResolveConflict
      <4>2. call'[t].at \in {x, "idle"}
        BY <1>0, <4>1, MoveEffect DEF Steps
      <4>3. QED
        BY <3>3, <4>1, <4>2 DEF Gate, ResolveConflict, Complied, books
    <3>4. QED
      BY <1>4, <3>1, <3>2, <3>3
  <2>2. QED
    BY <1>1, <1>4, <2>1 DEF ExecuteStep, Pending
<1>5. ASSUME NEW t \in Threads, Comply(t) PROVE TurnoverInv'
  <2>1. CASE Return(t)
    BY <1>0, <1>1, <1>5, <2>1, ReturnEffect
       DEF Comply, ExecuteStep, Pending, Complied, Idle, books
  <2>2. CASE WithinTurnover(call[t].plan) /\ Goto(t, "risk")
    <3>1. /\ call'[t].at = "risk" /\ call'[t].plan = call[t].plan
          /\ \A u \in Threads : u # t => call'[u] = call[u]
      BY <1>0, <2>2, GotoEffect DEF Steps
    <3>2. turnover' = turnover /\ t \notin Pending /\ call[t].plan \in Plans
      BY <1>5 DEF Comply, books, Pending, Complied, TypeInv, CallsHavePlans, Planned
    <3>3. Pending' = Pending \cup {t}
      BY <3>1 DEF Pending, Complied
    <3>4. Notionals(Pending)'[t] = call[t].plan.notional
      BY <3>1, <3>3 DEF Notionals, Notional
    <3>5. call[t].plan.notional \in Nat
      BY <3>2, TurnoverAssumption DEF PlansAssumption
    <3>6. turnover + call[t].plan.notional <= MaxTurnover
      BY <2>2 DEF WithinTurnover
    <3>7. Charged(Pending \cup {t}, Notionals(Pending)', turnover)
      <4>1. Pending \in SUBSET Threads
        BY DEF Pending
      <4> HIDE DEF Charged, Notionals, Pending
      <4>2. QED
        BY <1>0, <3>2, <3>4, <3>5, <3>6, <4>1, ChargedByAdding
    <3>8. QED
      BY <3>2, <3>3, <3>7 DEF TurnoverInv
  <2>3. QED
    BY <1>5, <2>1, <2>2 DEF Comply
<1>6. ASSUME NEW t \in Threads, Risk(t) PROVE TurnoverInv'
  <2>1. turnover' = turnover /\ call[t].at = "risk" /\ call[t].plan \in Plans
    BY <1>6 DEF Risk, books, TypeInv, CallsHavePlans, Planned, Complied
  <2>2. CASE Return(t)
    <3>1. Notional(t) \in Nat
      BY <2>1, TurnoverAssumption DEF Notional, PlansAssumption
    <3>2. QED
      BY <1>0, <1>2, <1>6, <2>1, <2>2, <3>1, ReturnEffect DEF ExecuteStep, Complied
  <2>3. CASE Goto(t, "order")
    BY <1>0, <1>1, <1>6, <2>1, <2>3, GotoEffect
       DEF ExecuteStep, Pending, Complied, Steps
  <2>4. QED
    BY <1>6, <2>2, <2>3 DEF Risk
<1>7. ASSUME NEW t \in Threads, NEW status \in {"FILLED", "PARTIALLY_FILLED"},
             OrderFills(t, status)
      PROVE  TurnoverInv'
  BY <1>0, <1>1, <1>7, FilledEffect DEF OrderFills, ExecuteStep, Pending, Complied
<1>8. ASSUME NEW t \in Threads, OrderRejected(t) PROVE TurnoverInv'
  BY <1>0, <1>1, <1>8, FilledEffect
     DEF OrderRejected, ExecuteStep, Pending, Complied, books
<1>9. ASSUME NEW t \in Threads, Save(t) PROVE TurnoverInv'
  BY <1>0, <1>1, <1>9, GotoEffect DEF Save, ExecuteStep, Pending, Complied, Steps
<1>10. ASSUME NEW t \in Threads, Count(t) PROVE TurnoverInv'
  <2>1. call'[t] = Idle /\ call[t].at = "count" /\ call[t].plan \in Plans
    BY <1>0, <1>10, ReturnEffect DEF Count, TypeInv, CallsHavePlans, Planned, Complied
  <2>2. Notional(t) \in Nat
    BY <2>1, TurnoverAssumption DEF Notional, PlansAssumption
  <2>3. turnover' <= turnover + Notional(t)
    BY <1>0, <1>10, <2>2 DEF Count, Notional
  <2>4. QED
    BY <1>2, <1>10, <2>1, <2>3 DEF ExecuteStep, Complied
<1>11. ASSUME ToggleStopFile \/ SafeRestart \/ \E o \in Operators : OperatorStep(o)
       PROVE  TurnoverInv'
  <2>1. call' = call /\ (turnover' = turnover \/ turnover' = 0)
    BY <1>11
       DEF ToggleStopFile, SafeRestart, OperatorStep, ActivateKill, HaltAfterKill,
           ReplaceExchange, ClearTurnover, books
  <2>2. turnover' <= turnover
    BY <1>0, <2>1
  <2>3. Pending' = Pending
    BY <2>1 DEF Pending
  <2>4. QED
    BY <2>1, <2>2, <2>3, TurnoverUntouched
<1>12. CASE UNCHANGED vars
  <2>1. call' = call /\ turnover' = turnover
    BY <1>12 DEF vars, books
  <2>2. Pending' = Pending
    BY <2>1 DEF Pending
  <2>3. QED
    BY <1>0, <2>1, <2>2, TurnoverUntouched
<1>13. QED
  BY <1>3, <1>4, <1>5, <1>6, <1>7, <1>8, <1>9, <1>10, <1>11, <1>12
     DEF Next, ExecuteStep

LEMMA InitTurnover == Init => TurnoverInv
<1>1. SUFFICES ASSUME Init PROVE TurnoverInv
  OBVIOUS
<1>2. Pending = {}
  <2>1. \A t \in Threads : call[t].at = "idle"
    BY <1>1 DEF Init, Idle
  <2>2. QED
    BY <2>1 DEF Pending, Complied
<1>3. Room(1) \in Int /\ Room(1) >= MaxTurnover
  BY ThreadsCounted, RoomOfAll
<1>4. turnover = 0
  BY <1>1 DEF Init
<1>5. turnover <= Room(1)
  BY <1>3, <1>4, TurnoverAssumption
<1>6. turnover <= Room(1) /\ Pending = {}
  BY <1>2, <1>5
<1>7. QED
  BY <1>2, <1>4, <1>5 DEF TurnoverInv, Charged, Room

(***************************************************************************)
(* Plans under way at the same time exceed the turnover limit by at most   *)
(* what all threads but one can bring.                                     *)
(***************************************************************************)
THEOREM TurnoverIsBounded == Spec => []TurnoverBounded
<1>1. Init => TypeInv /\ TurnoverInv
  BY InitTypes, InitTurnover
<1>2. (TypeInv /\ TurnoverInv) /\ [Next]_vars => (TypeInv /\ TurnoverInv)'
  BY TypesKept, TurnoverKept, PlansAssumption
<1>3. TypeInv /\ TurnoverInv => TurnoverBounded
  BY ChargedBounds, PlansAssumption
<1>4. QED
  BY <1>1, <1>2, <1>3, PTL DEF Spec

-----------------------------------------------------------------------------
(* Who shares a position.  Once a position is held, a plan of another       *)
(* strategy no longer passes the conflict check: whoever may still join is  *)
(* already past it, and those are at most as many as there are threads.     *)

Passed(s) == {t \in Threads : call[t].at \in Unconflicted /\ call[t].plan.symbol = s}
Joining(s) == {call[t].plan.strategy : t \in Passed(s)}

Few(U) == IsFiniteSet(U) /\ Cardinality(U) <= N

Owned(s)  == position[s] = Flat \/ position[s].owner \in position[s].traders
Shared(s) == position[s].traders = {} \/ Few(position[s].traders \cup Joining(s))

StrategyInv == NoTradeOnConflict => \A s \in Symbols : Owned(s) /\ Shared(s)

LEMMA FewerAreFew ==
    ASSUME NEW U, Few(U), NEW V \in SUBSET U
    PROVE  Few(V)
BY FS_Subset, FS_CardinalityType, ThreadsCounted DEF Few

LEMMA JoiningAreFew ==
    ASSUME NEW s
    PROVE  Few(Joining(s))
<1> DEFINE f == [t \in Passed(s) |-> call[t].plan.strategy]
<1>1. Passed(s) \in SUBSET Threads
  BY DEF Passed
<1>2. IsFiniteSet(Passed(s)) /\ Cardinality(Passed(s)) \in Nat
                             /\ Cardinality(Passed(s)) <= N
  BY <1>1, SubsetCounted
<1>3. f \in Surjection(Passed(s), Joining(s))
  BY DEF Joining, Surjection
<1>4. /\ IsFiniteSet(Joining(s))
      /\ Cardinality(Joining(s)) <= Cardinality(Passed(s))
  <2> HIDE DEF f
  <2>1. QED
    BY <1>2, <1>3, FS_Surjection
<1>5. QED
  BY <1>2, <1>4, FS_CardinalityType, ThreadsCounted DEF Few

\* The position stays, and nobody joins who is not of a strategy that trades it.
LEMMA PositionStays ==
    ASSUME NEW s, Owned(s), Shared(s), position'[s] = position[s],
           Joining(s)' \subseteq Joining(s) \cup position[s].traders
    PROVE  Owned(s)' /\ Shared(s)'
<1>1. Owned(s)'
  BY DEF Owned
<1>2. CASE position[s].traders = {}
  BY <1>1, <1>2 DEF Shared
<1>3. CASE Few(position[s].traders \cup Joining(s))
  <2>1. position[s].traders \cup Joining(s)' \in
            SUBSET (position[s].traders \cup Joining(s))
    OBVIOUS
  <2>2. Few(position[s].traders \cup Joining(s)')
    BY <1>3, <2>1, FewerAreFew
  <2>3. QED
    BY <1>1, <2>2 DEF Shared
<1>4. QED
  BY <1>2, <1>3 DEF Shared

\* A step with which no call passes the conflict check.
LEMMA NobodyJoins ==
    ASSUME NEW s,
           \A u \in Threads : call'[u].at \in Unconflicted =>
               call[u].at \in Unconflicted /\ call'[u].plan = call[u].plan
    PROVE  Joining(s)' \subseteq Joining(s)
BY DEF Joining, Passed

LEMMA StrategiesFilled ==
    ASSUME TypeInv, PlansAssumption, NEW t \in Threads, NEW status,
           status \in {"FILLED", "PARTIALLY_FILLED"}, OrderFills(t, status),
           NEW s \in Symbols, Owned(s), Shared(s)
    PROVE  Owned(s)' /\ Shared(s)'
<1> DEFINE p == call[t].plan
<1>0. call \in [Threads -> Calls] /\ position \in [Symbols -> Positions]
  BY DEF TypeInv, TypeOK
<1>1. p \in Plans /\ call[t].at = "order"
  BY DEF OrderFills, TypeInv, CallsHavePlans, Planned, Complied
<1>2. /\ call'[t].at = "save"
      /\ \A u \in Threads : u # t => call'[u] = call[u]
  BY <1>0, FilledEffect DEF OrderFills
<1>3. Joining(s)' \subseteq Joining(s)
  BY <1>2, NobodyJoins DEF Unconflicted
<1>4. CASE s # p.symbol
  <2>1. position'[s] = position[s]
    BY <1>0, <1>4 DEF OrderFills
  <2>2. QED
    BY <1>3, <2>1, PositionStays
<1>5. CASE s = p.symbol
  <2>1. PICK left \in Booked(p, position[s]) :
            position' = [position EXCEPT ![s] = left]
    BY <1>5 DEF OrderFills
  <2>2. position'[s] = left
    BY <1>0, <2>1
  <2>3. CASE left = Flat
    BY <2>2, <2>3 DEF Owned, Shared, Flat
  <2>4. CASE /\ left.owner = p.strategy
             /\ left.traders = position[s].traders \cup {p.strategy}
    <3>1. p.strategy \in Joining(s)
      BY <1>1, <1>5 DEF Joining, Passed, Unconflicted
    <3>2. Few(position[s].traders \cup Joining(s))
      <4>1. CASE position[s].traders = {}
        <5>1. position[s].traders \cup Joining(s) = Joining(s)
          BY <4>1
        <5>2. QED
          BY <5>1, JoiningAreFew
      <4>2. CASE position[s].traders # {}
        BY <4>2 DEF Shared
      <4>3. QED
        BY <4>1, <4>2
    <3>3. left.traders \cup Joining(s)' \in
              SUBSET (position[s].traders \cup Joining(s))
      BY <1>3, <2>4, <3>1
    <3>4. Few(left.traders \cup Joining(s)')
      BY <3>2, <3>3, FewerAreFew
    <3>5. QED
      BY <2>2, <2>4, <3>4 DEF Owned, Shared
  <2>5. QED
    BY <2>3, <2>4 DEF Booked
<1>6. QED
  BY <1>4, <1>5

\* Whoever passes finds the position flat or its own strategy's.
LEMMA StrategiesResolved ==
    ASSUME TypeInv, PlansAssumption, NEW t \in Threads, ResolveConflict(t),
           NoTradeOnConflict, NEW s \in Symbols, Owned(s), Shared(s)
    PROVE  Owned(s)' /\ Shared(s)'
<1> DEFINE p == call[t].plan
<1>0. call \in [Threads -> Calls]
  BY DEF TypeInv, TypeOK
<1>1. position' = position
  BY DEF ResolveConflict, books
<1>2. CASE Return(t)
  <2>1. Joining(s)' \subseteq Joining(s)
    BY <1>0, <1>2, ReturnEffect, NobodyJoins DEF Idle, Unconflicted
  <2>2. QED
    BY <1>1, <2>1, PositionStays
<1>3. CASE ~Conflict(p) /\ Goto(t, "comply")
  <2>1. /\ call'[t].plan = p
        /\ \A u \in Threads : u # t => call'[u] = call[u]
    BY <1>0, <1>3, GotoEffect DEF Steps
  <2>2. Joining(s)' \subseteq Joining(s) \cup {p.strategy}
    BY <2>1 DEF Joining, Passed
  <2>3. CASE s # p.symbol
    <3>1. Joining(s)' \subseteq Joining(s)
      BY <2>1, <2>3 DEF Joining, Passed
    <3>2. QED
      BY <1>1, <3>1, PositionStays
  <2>4. CASE s = p.symbol /\ position[s] = Flat
    BY <1>1, <2>4 DEF Owned, Shared, Flat
  <2>5. CASE s = p.symbol /\ position[s] # Flat
    <3>1. p.strategy \in position[s].traders
      BY <1>3, <2>5 DEF Conflict, Owned
    <3>2. QED
      BY <1>1, <2>2, <3>1, PositionStays
  <2>6. QED
    BY <2>3, <2>4, <2>5
<1>4. QED
  BY <1>2, <1>3 DEF ResolveConflict

LEMMA StrategiesKept ==
    ASSUME TypeInv, PlansAssumption, StrategyInv, [Next]_vars
    PROVE  StrategyInv'
<1> SUFFICES ASSUME NoTradeOnConflict, NEW s \in Symbols
             PROVE  Owned(s)' /\ Shared(s)'
  BY DEF StrategyInv
<1>0. call \in [Threads -> Calls] /\ Owned(s) /\ Shared(s)
  BY DEF TypeInv, TypeOK, StrategyInv
<1>1. ASSUME NEW t \in Threads,
             \/ \E p \in Plans : Begin(t, p)
             \/ Start(t) \/ CheckStopFile(t) \/ HaltExchange(t) \/ Gate(t)
             \/ Comply(t) \/ Risk(t) \/ OrderRejected(t) \/ Save(t) \/ Count(t)
      PROVE  Owned(s)' /\ Shared(s)'
  <2>1. position' = position
    BY <1>1
       DEF Begin, Start, CheckStopFile, HaltExchange, Gate, Comply, Risk,
           OrderRejected, Save, Count, books
  <2>2. call'[t].at \in Unconflicted =>
            call[t].at \in Unconflicted /\ call'[t].plan = call[t].plan
    <3>1. CASE \E p \in Plans : Begin(t, p)
      BY <1>0, <3>1, BeginEffect DEF Unconflicted
    <3>2. CASE Start(t) \/ Save(t)
      BY <1>0, <3>2, GotoEffect DEF Start, Save, Unconflicted, Steps
    <3>3. CASE CheckStopFile(t) \/ HaltExchange(t)
      BY <1>0, <3>3, CheckedEffect, GotoEffect
         DEF CheckStopFile, HaltExchange, Unconflicted, Steps
    <3>4. CASE Gate(t)
      BY <1>0, <3>4, MoveEffect DEF Gate, Unconflicted, Steps
    <3>5. CASE Comply(t) \/ Risk(t)
      <4>1. PICK x \in {"risk", "order"} : Goto(t, x) \/ Return(t)
        BY <3>5 DEF Comply, Risk
      <4>2. call[t].at \in Unconflicted
        BY <3>5 DEF Comply, Risk, Unconflicted
      <4>3. QED
        BY <1>0, <4>1, <4>2, MoveEffect DEF Unconflicted, Steps
    <3>6. CASE OrderRejected(t)
      BY <1>0, <3>6, FilledEffect DEF OrderRejected, Unconflicted
    <3>7. CASE Count(t)
      BY <1>0, <3>7, ReturnEffect DEF Count, Idle, Unconflicted
    <3>8. QED
      BY <1>1, <3>1, <3>2, <3>3, <3>4, <3>5, <3>6, <3>7
  <2>3. \A u \in Threads : u # t => call'[u] = call[u]
    BY <1>0, <1>1, OthersUnmoved DEF ExecuteStep
  <2>4. Joining(s)' \subseteq Joining(s)
    BY <2>2, <2>3, NobodyJoins
  <2>5. QED
    BY <1>0, <2>1, <2>4, PositionStays
<1>2. ASSUME NEW t \in Threads, ResolveConflict(t)
      PROVE  Owned(s)' /\ Shared(s)'
  BY <1>0, <1>2, StrategiesResolved
<1>3. ASSUME NEW t \in Threads, NEW status \in {"FILLED", "PARTIALLY_FILLED"},
             OrderFills(t, status)
      PROVE  Owned(s)' /\ Shared(s)'
  BY <1>0, <1>3, StrategiesFilled
<1>4. CASE \E o \in Operators : ReplaceExchange(o)
  BY <1>4 DEF ReplaceExchange, Owned, Shared, Flat
<1>5. CASE \/ ToggleStopFile \/ SafeRestart \/ UNCHANGED vars
           \/ \E o \in Operators :
                  ActivateKill(o) \/ HaltAfterKill(o) \/ ClearTurnover(o)
  <2>1. position' = position /\ call' = call
    BY <1>5
       DEF ToggleStopFile, SafeRestart, vars, ActivateKill, HaltAfterKill,
           ClearTurnover, books
  <2>2. Joining(s)' \subseteq Joining(s)
    BY <2>1, NobodyJoins
  <2>3. QED
    BY <1>0, <2>1, <2>2, PositionStays
<1>6. QED
  BY <1>1, <1>2, <1>3, <1>4, <1>5 DEF Next, ExecuteStep, OperatorStep

LEMMA StrategiesCounted ==
    ASSUME TypeInv, StrategyInv
    PROVE  StrategiesBounded
<1>1. SUFFICES ASSUME NoTradeOnConflict, NEW s \in Symbols
               PROVE  Cardinality(position[s].traders) <= N
  BY DEF StrategiesBounded, N
<1>2. Shared(s)
  BY <1>1 DEF StrategyInv
<1>3. CASE position[s].traders = {}
  BY <1>3, FS_EmptySet, ThreadsCounted
<1>4. CASE Few(position[s].traders \cup Joining(s))
  BY <1>4, FewerAreFew DEF Few
<1>5. QED
  BY <1>2, <1>3, <1>4 DEF Shared

LEMMA InitStrategies == Init => StrategyInv
BY DEF Init, StrategyInv, Owned, Shared, Flat

(***************************************************************************)
(* In the mode NO_TRADE the strategies that share a position are at most   *)
(* as many as the threads that execute plans.                              *)
(***************************************************************************)
THEOREM StrategiesAreBounded == Spec => []StrategiesBounded
<1>1. Init => TypeInv /\ StrategyInv
  BY InitTypes, InitStrategies
<1>2. (TypeInv /\ StrategyInv) /\ [Next]_vars => (TypeInv /\ StrategyInv)'
  BY TypesKept, StrategiesKept, PlansAssumption
<1>3. TypeInv /\ StrategyInv => StrategiesBounded
  BY StrategiesCounted
<1>4. QED
  BY <1>1, <1>2, <1>3, PTL DEF Spec

=============================================================================
