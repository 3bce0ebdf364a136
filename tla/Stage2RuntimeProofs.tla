------------------------- MODULE Stage2RuntimeProofs -------------------------
(***************************************************************************)
(* What a halt guarantees for every number of runtimes, operators, keys    *)
(* and intents on one store.  Unlike the theorems about the ledger alone,  *)
(* these let the runtimes work at the same time.                           *)
(***************************************************************************)
EXTENDS Stage2Runtime, TLAPS

AllSwitches == Services \cup Operators

-----------------------------------------------------------------------------
(* The invariant has four parts: the types of what is read, the switch, the *)
(* cycles with their calls of execute, and what became of each runtime      *)
(* since the halt.                                                          *)

SwitchTypes ==
    /\ memory \in [AllSwitches -> BOOLEAN]
    /\ doing \in [AllSwitches -> {"idle", "cancelling", "storing", "clearing"}]
    /\ held \in BOOLEAN

\* A halt that counts as held is in the row, and nobody is about to replace it.
HeldIsStored == held => row = "active" /\ \A s \in AllSwitches : doing[s] # "clearing"

\* execute has not reached submit_order yet.
Unsent(w) ==
    \/ call[w].pc \in {"write_intent", "write_key", "gate", "submit"}
    \/ call[w].pc \in {"mark_intent", "mark_key"} /\ call[w].mark = "SUBMITTING"

\* The calls have intents of their own, none of them sent before its time.
CallsAgree ==
    \A w \in Services :
        Exec!Active(w) =>
            /\ call[w].intent \in Intents
            /\ call[w].pc # "write_intent" => intents[call[w].intent].status # "absent"
            /\ Unsent(w) => ~Exec!Placed(call[w].intent)
            /\ call[w].blocked => call[w].pc \in {"write_intent", "write_key", "gate"}
            /\ \A v \in Services : Exec!Active(v) /\ call[v].intent = call[w].intent => v = w

OrdersHaveRows == \A i \in Intents : Exec!Placed(i) => intents[i].status # "absent"

CycleTypes ==
    /\ cycle \in [Services -> {"idle", "gated", "flagged"}]
    /\ flag \in [Services -> BOOLEAN]
    /\ late \in [Services -> Nat]
    /\ heard \in [Services -> BOOLEAN]

OneCallAtATime == \A w \in Services : Exec!Active(w) => cycle[w] = "idle"

\* The call that a runtime is in, or is about to make, cannot place an order.
CallSpent(w) ==
    \/ ~Exec!Active(w)
    \/ call[w].blocked
    \/ Exec!Placed(call[w].intent)

CycleSpent(w) == cycle[w] = "idle" \/ (cycle[w] = "flagged" /\ flag[w])

Spent(w) == CallSpent(w) /\ CycleSpent(w)

\* A runtime that placed its late order, or has heard of the halt, is spent.
Bounded(w) ==
    /\ late[w] = 0 \/ late[w] = 1
    /\ late[w] = 1 \/ heard[w] => Spent(w)

LateOrders == held => \A w \in Services : Bounded(w)

ExecTypes ==
    /\ intents \in [Intents -> Exec!Rows]
    /\ orders \in [Intents -> {"none", "open", "filled", "cancelled"}]
    /\ call \in [Services -> Exec!Calls]

Inv ==
    /\ ExecTypes
    /\ SwitchTypes
    /\ CycleTypes
    /\ HeldIsStored
    /\ CallsAgree
    /\ OneCallAtATime
    /\ OrdersHaveRows
    /\ LateOrders

\* The invariant holds before the first cycle.
LEMMA InitInv == Init => Inv
<1> SUFFICES ASSUME Init PROVE Inv
    OBVIOUS
<1>1. ExecTypes
    BY DEF Init, ExecTypes, Exec!Init, Exec!Rows, Exec!NoRow, Exec!Idle, Exec!Calls,
           Exec!Places, Exec!Statuses, Exec!LifecycleStates, Exec!Transitions
<1>2. SwitchTypes /\ HeldIsStored
    BY DEF Init, Switch!Init, SwitchTypes, HeldIsStored, AllSwitches
<1>3. CallsAgree
    BY DEF Init, Exec!Init, CallsAgree, Exec!Active, Exec!Idle
<1>4. OrdersHaveRows
    BY DEF Init, Exec!Init, OrdersHaveRows, Exec!Placed
<1>5. CycleTypes /\ LateOrders
    BY DEF Init, Switch!Init, CycleTypes, LateOrders
<1>6. OneCallAtATime
    BY DEF Init, OneCallAtATime
<1> QED
    BY <1>1, <1>2, <1>3, <1>4, <1>5, <1>6 DEF Inv

-----------------------------------------------------------------------------
(* What a step of execute may do to the calls, the rows and the orders.    *)

Early == {"write_intent", "write_key", "gate"}

\* A step of a service leaves the other calls, rows and orders alone; its call
\* keeps its intent, and only an unsent, unblocked call places its order.
ServiceEffect(w) ==
    /\ ExecTypes'
    /\ \A v \in Services \ {w} : call'[v] = call[v]
    /\ \A i \in Intents \ {call[w].intent} : intents'[i] = intents[i] /\ orders'[i] = orders[i]
    /\ intents'[call[w].intent].status # "absent"
    /\ \/ call'[w].pc = "idle"
       \/ /\ call'[w].intent = call[w].intent
          /\ call'[w].blocked = call[w].blocked
          /\ call'[w].pc \notin {"idle", "write_intent"}
          /\ Unsent(w)' => Unsent(w) /\ orders' = orders
          /\ call[w].blocked => call'[w].pc \in Early
    /\ orders' = orders \/ (call[w].pc = "submit" /\ Exec!Placed(call[w].intent)')

\* The types of a call survive a move to another point of execute.
LEMMA GotoFacts ==
    ASSUME ExecTypes, NEW w \in Services, NEW pc \in Exec!Places, NEW target,
           Exec!Goto(w, pc, target), target \in Exec!LifecycleStates
    PROVE  /\ call' \in [Services -> Exec!Calls]
           /\ call'[w].pc = pc
           /\ call'[w].intent = call[w].intent
           /\ call'[w].blocked = call[w].blocked
           /\ call'[w].mark = call[w].mark
           /\ \A v \in Services \ {w} : call'[v] = call[v]
BY DEF ExecTypes, Exec!Goto, Exec!Calls

\* And so does the status that a call is about to mark.
LEMMA GotoMarkFacts ==
    ASSUME ExecTypes, NEW w \in Services, NEW m \in Exec!Statuses, NEW target,
           Exec!GotoMark(w, m, target), target \in Exec!LifecycleStates
    PROVE  /\ call' \in [Services -> Exec!Calls]
           /\ call'[w].pc = "mark_intent"
           /\ call'[w].intent = call[w].intent
           /\ call'[w].blocked = call[w].blocked
           /\ call'[w].mark = m
           /\ \A v \in Services \ {w} : call'[v] = call[v]
<1> DEFINE c == [call[w] EXCEPT !.pc = "mark_intent", !.mark = m, !.life = target]
<1>1. call[w] \in Exec!Calls
    BY DEF ExecTypes
<1>2. /\ c \in Exec!Calls
      /\ c.pc = "mark_intent" /\ c.mark = m
      /\ c.intent = call[w].intent /\ c.blocked = call[w].blocked
    BY <1>1 DEF Exec!Calls, Exec!Places
<1>3. call' = [call EXCEPT ![w] = c]
    BY DEF Exec!GotoMark
<1> HIDE DEF c
<1> QED
    BY <1>2, <1>3 DEF ExecTypes

\* A call that returns is idle.
LEMMA ReturnFacts ==
    ASSUME ExecTypes, NEW w \in Services, Exec!Return(w)
    PROVE  /\ call' \in [Services -> Exec!Calls]
           /\ call'[w].pc = "idle"
           /\ \A v \in Services \ {w} : call'[v] = call[v]
BY DEF ExecTypes, Exec!Return, Exec!Idle, Exec!Calls, Exec!Places, Exec!Statuses,
       Exec!LifecycleStates, Exec!Transitions

\* A refused transition of the lifecycle machine is a state too.
LEMMA MovedType ==
    ASSUME NEW life \in Exec!LifecycleStates, NEW target \in Exec!LifecycleStates
    PROVE  Exec!Moved(life, target) \in Exec!LifecycleStates
BY DEF Exec!Moved, Exec!LifecycleStates, Exec!Transitions

\* persist and the gates before the first mark.
LEMMA EarlyEffect ==
    ASSUME Inv, NEW w \in Services,
           Exec!WriteIntentRow(w) \/ Exec!WriteKeyRow(w) \/ Exec!Block(w) \/ Exec!PassGate(w)
    PROVE  ServiceEffect(w)
<1> DEFINE life == call[w].life
<1>1. /\ ExecTypes /\ call[w] \in Exec!Calls /\ life \in Exec!LifecycleStates
      /\ Exec!Active(w) /\ call[w].intent \in Intents /\ call[w].key \in Keys \cup {NoKey}
      /\ call[w].pc # "write_intent" => intents[call[w].intent].status # "absent"
      /\ call[w].blocked => call[w].pc \in Early
      /\ intents[call[w].intent] \in Exec!Rows
    BY DEF Inv, ExecTypes, CallsAgree, Exec!Calls, Exec!Active, Exec!WriteIntentRow,
           Exec!WriteKeyRow, Exec!Block, Exec!PassGate, Early
<1>2. CASE Exec!WriteIntentRow(w)
  <2>1. Exec!Goto(w, "write_key", life) /\ "write_key" \in Exec!Places
    BY <1>2 DEF Exec!WriteIntentRow, Exec!Places
  <2>2. /\ call' \in [Services -> Exec!Calls]
        /\ call'[w].pc = "write_key" /\ call'[w].intent = call[w].intent
        /\ call'[w].blocked = call[w].blocked /\ call'[w].mark = call[w].mark
        /\ \A v \in Services \ {w} : call'[v] = call[v]
    BY <1>1, <2>1, GotoFacts
  <2>3. /\ intents' = [intents EXCEPT ![call[w].intent] =
                          [key |-> call[w].key, status |-> "PERSISTED"]]
        /\ orders' = orders /\ call[w].pc = "write_intent"
    BY <1>2 DEF Exec!WriteIntentRow
  <2>4. ExecTypes'
    BY <1>1, <2>2, <2>3 DEF ExecTypes, Exec!Rows, Exec!Statuses
  <2>5. intents'[call[w].intent].status = "PERSISTED"
    BY <1>1, <2>3 DEF ExecTypes
  <2>6. Unsent(w)
    BY <2>3 DEF Unsent
  <2>7. \A i \in Intents \ {call[w].intent} : intents'[i] = intents[i] /\ orders'[i] = orders[i]
    BY <1>1, <2>3 DEF ExecTypes
  <2> QED
    BY <2>2, <2>3, <2>4, <2>5, <2>6, <2>7 DEF ServiceEffect, Early
<1>3. CASE Exec!WriteKeyRow(w)
  <2>1. Exec!Goto(w, "gate", Exec!Moved(life, "RISK_CHECK")) /\ "gate" \in Exec!Places
        /\ "RISK_CHECK" \in Exec!LifecycleStates
    BY <1>3 DEF Exec!WriteKeyRow, Exec!Places, Exec!LifecycleStates, Exec!Transitions
  <2>2. Exec!Moved(life, "RISK_CHECK") \in Exec!LifecycleStates
    BY <1>1, <2>1, MovedType
  <2>3. /\ call' \in [Services -> Exec!Calls]
        /\ call'[w].pc = "gate" /\ call'[w].intent = call[w].intent
        /\ call'[w].blocked = call[w].blocked
        /\ \A v \in Services \ {w} : call'[v] = call[v]
    BY <1>1, <2>1, <2>2, GotoFacts
  <2>4. intents' = intents /\ orders' = orders /\ call[w].pc = "write_key"
    BY <1>3 DEF Exec!WriteKeyRow
  <2>5. Unsent(w)
    BY <2>4 DEF Unsent
  <2>6. ExecTypes'
    BY <1>1, <2>3, <2>4 DEF ExecTypes
  <2> QED
    BY <1>1, <2>3, <2>4, <2>5, <2>6 DEF ServiceEffect, Early
<1>4. CASE Exec!Block(w)
  <2>1. Exec!Return(w) /\ intents' = intents /\ orders' = orders /\ call[w].pc = "gate"
    BY <1>4 DEF Exec!Block
  <2>2. /\ call' \in [Services -> Exec!Calls] /\ call'[w].pc = "idle"
        /\ \A v \in Services \ {w} : call'[v] = call[v]
    BY <1>1, <2>1, ReturnFacts
  <2>3. ExecTypes'
    BY <1>1, <2>1, <2>2 DEF ExecTypes
  <2> QED
    BY <1>1, <2>1, <2>2, <2>3 DEF ServiceEffect
<1>5. CASE Exec!PassGate(w)
  <2> DEFINE target == Exec!Moved(Exec!Moved(life, "IDEMPOTENCY_CHECK"), "SUBMIT")
  <2>1. /\ Exec!GotoMark(w, "SUBMITTING", target) /\ "SUBMITTING" \in Exec!Statuses
        /\ {"IDEMPOTENCY_CHECK", "SUBMIT"} \subseteq Exec!LifecycleStates
    BY <1>5 DEF Exec!PassGate, Exec!Statuses, Exec!LifecycleStates, Exec!Transitions
  <2>2. target \in Exec!LifecycleStates
    BY <1>1, <2>1, MovedType
  <2> HIDE DEF target
  <2>3. /\ call' \in [Services -> Exec!Calls]
        /\ call'[w].pc = "mark_intent" /\ call'[w].intent = call[w].intent
        /\ call'[w].blocked = call[w].blocked /\ call'[w].mark = "SUBMITTING"
        /\ \A v \in Services \ {w} : call'[v] = call[v]
    BY <1>1, <2>1, <2>2, GotoMarkFacts
  <2>4. intents' = intents /\ orders' = orders /\ call[w].pc = "gate" /\ ~call[w].blocked
    BY <1>5 DEF Exec!PassGate
  <2>5. Unsent(w)
    BY <2>4 DEF Unsent
  <2>6. ExecTypes'
    BY <1>1, <2>3, <2>4 DEF ExecTypes
  <2> QED
    BY <1>1, <2>3, <2>4, <2>5, <2>6 DEF ServiceEffect
<1> QED
  BY <1>2, <1>3, <1>4, <1>5

\* What is known of a call before any of its steps.
LEMMA CallFacts ==
    ASSUME Inv, NEW w \in Services, Exec!Active(w)
    PROVE  /\ ExecTypes /\ call[w] \in Exec!Calls
           /\ call[w].life \in Exec!LifecycleStates /\ call[w].mark \in Exec!Statuses
           /\ call[w].intent \in Intents
           /\ call[w].pc # "write_intent" => intents[call[w].intent].status # "absent"
           /\ call[w].blocked => call[w].pc \in Early
           /\ intents[call[w].intent] \in Exec!Rows
BY DEF Inv, ExecTypes, CallsAgree, Exec!Calls, Early

\* ledger.mark writes a status that is not "absent" in a row that is there.
LEMMA MarkIntentRowEffect ==
    ASSUME Inv, NEW w \in Services, Exec!MarkIntentRow(w)
    PROVE  ServiceEffect(w)
<1> DEFINE life == call[w].life
<1>1. Exec!Active(w) /\ call[w].pc = "mark_intent"
    BY DEF Exec!MarkIntentRow, Exec!Active
<1>2. /\ ExecTypes /\ call[w] \in Exec!Calls /\ life \in Exec!LifecycleStates
      /\ call[w].mark \in Exec!Statuses /\ call[w].intent \in Intents
      /\ ~call[w].blocked /\ intents[call[w].intent] \in Exec!Rows
    BY <1>1, CallFacts DEF Early
<1>3. /\ Exec!Goto(w, "mark_key", life) /\ "mark_key" \in Exec!Places
      /\ intents' = [intents EXCEPT ![call[w].intent].status = call[w].mark]
      /\ orders' = orders
    BY DEF Exec!MarkIntentRow, Exec!Places
<1>4. /\ call' \in [Services -> Exec!Calls]
      /\ call'[w].pc = "mark_key" /\ call'[w].intent = call[w].intent
      /\ call'[w].blocked = call[w].blocked /\ call'[w].mark = call[w].mark
      /\ \A v \in Services \ {w} : call'[v] = call[v]
    BY <1>2, <1>3, GotoFacts
<1>5. /\ intents' \in [Intents -> Exec!Rows]
      /\ intents'[call[w].intent].status = call[w].mark
      /\ \A i \in Intents \ {call[w].intent} : intents'[i] = intents[i]
    BY <1>2, <1>3 DEF ExecTypes, Exec!Rows
<1>6. ExecTypes'
    BY <1>2, <1>3, <1>4, <1>5 DEF ExecTypes
<1>7. Unsent(w)' => Unsent(w)
    BY <1>1, <1>4 DEF Unsent
<1>8. call[w].mark # "absent"
    BY <1>2 DEF Exec!Statuses
<1> QED
    BY <1>2, <1>3, <1>4, <1>5, <1>6, <1>7, <1>8 DEF ServiceEffect

\* The row of the key follows; execute goes on to the point after the mark.
LEMMA MarkKeyRowEffect ==
    ASSUME Inv, NEW w \in Services, Exec!MarkKeyRow(w)
    PROVE  ServiceEffect(w)
<1> DEFINE life == call[w].life
<1>1. Exec!Active(w) /\ call[w].pc = "mark_key"
    BY DEF Exec!MarkKeyRow, Exec!Active
<1>2. /\ ExecTypes /\ life \in Exec!LifecycleStates
      /\ call[w].mark \in Exec!Statuses /\ call[w].intent \in Intents
      /\ ~call[w].blocked /\ intents[call[w].intent].status # "absent"
    BY <1>1, CallFacts DEF Early
<1>3. intents' = intents /\ orders' = orders /\ Exec!AfterMark(w)
    BY DEF Exec!MarkKeyRow
<1>4. /\ {"OPEN_NEW", "CLOSE", "RECONCILIATION"} \subseteq Exec!LifecycleStates
      /\ {"submit", "poll", "reconcile"} \subseteq Exec!Places
    BY DEF Exec!LifecycleStates, Exec!Transitions, Exec!Places
<1> DEFINE open == Exec!Moved(life, "OPEN_NEW")
           closed == Exec!Moved(Exec!Moved(life, "CLOSE"), "RECONCILIATION")
<1>5. open \in Exec!LifecycleStates /\ closed \in Exec!LifecycleStates
    BY <1>2, <1>4, MovedType
<1>6. \/ call[w].mark = "SUBMITTING" /\ Exec!Goto(w, "submit", life)
      \/ call[w].mark = "SUBMITTED" /\ Exec!Goto(w, "poll", open)
      \/ call[w].mark = "FILLED" /\ Exec!Goto(w, "reconcile", closed)
      \/ Exec!Return(w)
    BY <1>3, <1>2 DEF Exec!AfterMark, Exec!Statuses
<1> HIDE DEF open, closed
<1>7. ASSUME call[w].mark = "SUBMITTING" /\ Exec!Goto(w, "submit", life)
      PROVE  ServiceEffect(w)
  <2>1. /\ call' \in [Services -> Exec!Calls]
        /\ call'[w].pc = "submit" /\ call'[w].intent = call[w].intent
        /\ call'[w].blocked = call[w].blocked
        /\ \A v \in Services \ {w} : call'[v] = call[v]
    BY <1>2, <1>4, <1>7, GotoFacts
  <2>2. ExecTypes'
    BY <1>2, <1>3, <2>1 DEF ExecTypes
  <2>3. Unsent(w)
    BY <1>1, <1>7 DEF Unsent
  <2> QED
    BY <1>2, <1>3, <2>1, <2>2, <2>3 DEF ServiceEffect
<1>8. ASSUME NEW pc \in {"poll", "reconcile"}, NEW target \in Exec!LifecycleStates,
             Exec!Goto(w, pc, target)
      PROVE  ServiceEffect(w)
  <2>1. /\ call' \in [Services -> Exec!Calls]
        /\ call'[w].pc = pc /\ call'[w].intent = call[w].intent
        /\ call'[w].blocked = call[w].blocked
        /\ \A v \in Services \ {w} : call'[v] = call[v]
    BY <1>2, <1>4, <1>8, GotoFacts
  <2>2. ExecTypes'
    BY <1>2, <1>3, <2>1 DEF ExecTypes
  <2>3. ~Unsent(w)'
    BY <2>1 DEF Unsent
  <2> QED
    BY <1>2, <1>3, <2>1, <2>2, <2>3 DEF ServiceEffect
<1>9. ASSUME Exec!Return(w)
      PROVE  ServiceEffect(w)
  <2>1. /\ call' \in [Services -> Exec!Calls] /\ call'[w].pc = "idle"
        /\ \A v \in Services \ {w} : call'[v] = call[v]
    BY <1>2, <1>9, ReturnFacts
  <2>2. ExecTypes'
    BY <1>2, <1>3, <2>1 DEF ExecTypes
  <2> QED
    BY <1>2, <1>3, <2>1, <2>2 DEF ServiceEffect
<1> QED
    BY <1>5, <1>6, <1>7, <1>8, <1>9

\* submit_order places the order of its own call, or loses the request.
LEMMA SubmitEffect ==
    ASSUME Inv, NEW w \in Services, Exec!SubmitAccepted(w) \/ Exec!SubmitAmbiguous(w)
    PROVE  ServiceEffect(w)
<1> DEFINE life == call[w].life
<1>1. Exec!Active(w) /\ call[w].pc = "submit" /\ intents' = intents
    BY DEF Exec!SubmitAccepted, Exec!SubmitAmbiguous, Exec!Active
<1>2. /\ ExecTypes /\ life \in Exec!LifecycleStates
      /\ call[w].intent \in Intents
      /\ ~call[w].blocked /\ intents[call[w].intent].status # "absent"
    BY <1>1, CallFacts DEF Early
<1>3. /\ {"ACK", "RECONCILIATION"} \subseteq Exec!LifecycleStates
      /\ "ambiguous" \in Exec!Places /\ "SUBMITTED" \in Exec!Statuses
    BY DEF Exec!LifecycleStates, Exec!Transitions, Exec!Places, Exec!Statuses
<1> DEFINE acked == Exec!Moved(life, "ACK")
           unsure == Exec!Moved(life, "RECONCILIATION")
<1>4. acked \in Exec!LifecycleStates /\ unsure \in Exec!LifecycleStates
    BY <1>2, <1>3, MovedType
<1>5. \/ Exec!Place(call[w].intent) /\ Exec!GotoMark(w, "SUBMITTED", acked)
      \/ (Exec!Place(call[w].intent) \/ UNCHANGED orders) /\ Exec!Goto(w, "ambiguous", unsure)
    BY DEF Exec!SubmitAccepted, Exec!SubmitAmbiguous
<1> HIDE DEF acked, unsure
<1>6. /\ call' \in [Services -> Exec!Calls]
      /\ call'[w].intent = call[w].intent /\ call'[w].blocked = call[w].blocked
      /\ call'[w].pc \in {"mark_intent", "ambiguous"}
      /\ call'[w].pc = "mark_intent" => call'[w].mark = "SUBMITTED"
      /\ \A v \in Services \ {w} : call'[v] = call[v]
    BY <1>2, <1>3, <1>4, <1>5, GotoFacts, GotoMarkFacts
<1>7. /\ orders' \in [Intents -> {"none", "open", "filled", "cancelled"}]
      /\ orders' = orders \/ orders'[call[w].intent] # "none"
      /\ \A i \in Intents \ {call[w].intent} : orders'[i] = orders[i]
    BY <1>2, <1>5 DEF Exec!Place, ExecTypes
<1>8. ExecTypes'
    BY <1>1, <1>2, <1>6, <1>7 DEF ExecTypes
<1>9. ~Unsent(w)'
    BY <1>6 DEF Unsent
<1>10. orders' = orders \/ Exec!Placed(call[w].intent)'
    BY <1>6, <1>7 DEF Exec!Placed
<1> QED
    BY <1>1, <1>2, <1>6, <1>7, <1>8, <1>9, <1>10 DEF ServiceEffect

\* What execute does with an answer.
LEMMA AnswerEffect ==
    ASSUME Inv, NEW w \in Services,
           Exec!ReconcileAmbiguous(w) \/ Exec!PollFilled(w) \/ Exec!Reconcile(w)
    PROVE  ServiceEffect(w)
<1> DEFINE life == call[w].life
           filled == Exec!Moved(Exec!Moved(life, "FULL_FILL"), "POSITION_UPDATE")
<1>1. /\ Exec!Active(w) /\ call[w].pc \in {"ambiguous", "poll", "reconcile"}
      /\ intents' = intents /\ orders' = orders
    BY DEF Exec!ReconcileAmbiguous, Exec!PollFilled, Exec!Reconcile, Exec!Active
<1>2. /\ ExecTypes /\ life \in Exec!LifecycleStates
      /\ call[w].intent \in Intents
      /\ ~call[w].blocked /\ intents[call[w].intent].status # "absent"
    BY <1>1, CallFacts DEF Early
<1>3. /\ {"FULL_FILL", "POSITION_UPDATE"} \subseteq Exec!LifecycleStates
      /\ {"FAILED", "FILLED"} \subseteq Exec!Statuses
    BY DEF Exec!LifecycleStates, Exec!Transitions, Exec!Statuses
<1>4. filled \in Exec!LifecycleStates
    BY <1>2, <1>3, MovedType
<1>5. \/ \E m \in {"FAILED", "FILLED"}, target \in Exec!LifecycleStates :
             Exec!GotoMark(w, m, target)
      \/ Exec!Return(w)
    BY <1>2, <1>4 DEF Exec!ReconcileAmbiguous, Exec!PollFilled, Exec!Reconcile
<1> HIDE DEF filled
<1>6. ASSUME NEW m \in {"FAILED", "FILLED"}, NEW target \in Exec!LifecycleStates,
             Exec!GotoMark(w, m, target)
      PROVE  ServiceEffect(w)
  <2>1. /\ call' \in [Services -> Exec!Calls]
        /\ call'[w].intent = call[w].intent /\ call'[w].blocked = call[w].blocked
        /\ call'[w].pc = "mark_intent" /\ call'[w].mark = m
        /\ \A v \in Services \ {w} : call'[v] = call[v]
    BY <1>2, <1>3, <1>6, GotoMarkFacts
  <2>2. ExecTypes'
    BY <1>1, <1>2, <2>1 DEF ExecTypes
  <2>3. ~Unsent(w)'
    BY <2>1 DEF Unsent
  <2> QED
    BY <1>1, <1>2, <2>1, <2>2, <2>3 DEF ServiceEffect
<1>7. ASSUME Exec!Return(w)
      PROVE  ServiceEffect(w)
  <2>1. /\ call' \in [Services -> Exec!Calls] /\ call'[w].pc = "idle"
        /\ \A v \in Services \ {w} : call'[v] = call[v]
    BY <1>2, <1>7, ReturnFacts
  <2>2. ExecTypes'
    BY <1>1, <1>2, <2>1 DEF ExecTypes
  <2> QED
    BY <1>1, <1>2, <2>1, <2>2 DEF ServiceEffect
<1> QED
    BY <1>5, <1>6, <1>7

-----------------------------------------------------------------------------
(* The invariant, one action of the runtime at a time                      *)

\* A step of execute keeps the calls apart from each other.
LEMMA EffectKeepsCalls ==
    ASSUME Inv, NEW w \in Services, Exec!Active(w), ServiceEffect(w)
    PROVE  CallsAgree' /\ OrdersHaveRows'
<1>1. /\ call[w].intent \in Intents
      /\ \A v \in Services \ {w} : call'[v] = call[v]
      /\ \A v \in Services \ {w} : Exec!Active(v) => call[v].intent # call[w].intent
    BY DEF Inv, CallsAgree, ServiceEffect
<1>2. ASSUME NEW v \in Services \ {w}, Exec!Active(v)'
      PROVE  /\ call[v].intent \in Intents \ {call[w].intent}
             /\ intents'[call[v].intent] = intents[call[v].intent]
             /\ orders'[call[v].intent] = orders[call[v].intent]
  <2>1. Exec!Active(v)
    BY <1>1, <1>2 DEF Exec!Active
  <2> QED
    BY <1>1, <2>1 DEF Inv, CallsAgree, ServiceEffect
<1>3. ASSUME NEW v \in Services, Exec!Active(v)'
      PROVE  /\ call'[v].intent \in Intents
             /\ call'[v].pc # "write_intent" => intents'[call'[v].intent].status # "absent"
             /\ Unsent(v)' => ~Exec!Placed(call[v].intent)' /\ call'[v].intent = call[v].intent
             /\ call'[v].blocked => call'[v].pc \in {"write_intent", "write_key", "gate"}
  <2>1. CASE v = w
    <3>1. ~(call'[w].pc = "idle")
      BY <1>3, <2>1 DEF Exec!Active
    <3>2. /\ call'[w].intent = call[w].intent /\ call'[w].blocked = call[w].blocked
          /\ Unsent(w)' => Unsent(w) /\ orders' = orders
          /\ call[w].blocked => call'[w].pc \in Early
          /\ intents'[call[w].intent].status # "absent"
      BY <3>1 DEF ServiceEffect
    <3>3. Unsent(w) => ~Exec!Placed(call[w].intent)
      BY DEF Inv, CallsAgree
    <3> QED
      BY <1>1, <2>1, <3>2, <3>3 DEF Exec!Placed, Early
  <2>2. CASE v # w
    <3>1. Exec!Active(v) /\ call'[v] = call[v]
      BY <1>1, <1>3, <2>2 DEF Exec!Active
    <3>2. Unsent(v)' => Unsent(v)
      BY <3>1 DEF Unsent
    <3>3. /\ call[v].intent \in Intents
          /\ call[v].pc # "write_intent" => intents[call[v].intent].status # "absent"
          /\ Unsent(v) => ~Exec!Placed(call[v].intent)
          /\ call[v].blocked => call[v].pc \in {"write_intent", "write_key", "gate"}
      BY <3>1 DEF Inv, CallsAgree
    <3> QED
      BY <1>2, <1>3, <2>2, <3>1, <3>2, <3>3 DEF Exec!Placed
  <2> QED
    BY <2>1, <2>2
<1>4. ASSUME NEW u \in Services, NEW v \in Services, Exec!Active(u)', Exec!Active(v)',
             call'[u].intent = call'[v].intent
      PROVE  u = v
  <2>1. ASSUME NEW x \in Services, Exec!Active(x)'
        PROVE  Exec!Active(x) /\ call'[x].intent = call[x].intent
    BY <1>1, <2>1 DEF Exec!Active, ServiceEffect
  <2> QED
    BY <1>4, <2>1 DEF Inv, CallsAgree
<1>5. CallsAgree'
    BY <1>3, <1>4 DEF CallsAgree, Exec!Placed
<1>6. ASSUME NEW i \in Intents, Exec!Placed(i)'
      PROVE  intents'[i].status # "absent"
    BY <1>6 DEF ServiceEffect, Inv, OrdersHaveRows, Exec!Placed
<1>7. OrdersHaveRows'
    BY <1>6 DEF OrdersHaveRows
<1> QED
    BY <1>5, <1>7

\* A runtime that places an order under a halt is spent, and was not before.
LEMMA EffectKeepsLateOrders ==
    ASSUME Inv, NEW w \in Services, Exec!Active(w), ServiceEffect(w), held' = held,
           UNCHANGED <<cycleVars, heard>>,
           late' = [late EXCEPT ![w] = IF held /\ orders' # orders THEN @ + 1 ELSE @]
    PROVE  CycleTypes' /\ OneCallAtATime' /\ LateOrders'
<1>1. CycleTypes'
    BY DEF Inv, CycleTypes, cycleVars
<1>2. OneCallAtATime'
  <2>1. cycle[w] = "idle" /\ cycle' = cycle
    BY DEF Inv, OneCallAtATime, cycleVars
  <2>2. \A v \in Services \ {w} : call'[v] = call[v]
    BY DEF ServiceEffect
  <2> QED
    BY <2>1, <2>2 DEF Inv, OneCallAtATime, Exec!Active
<1>3. ASSUME held, NEW v \in Services \ {w}
      PROVE  Bounded(v)'
  <2>1. late'[v] = late[v] /\ call'[v] = call[v] /\ heard' = heard
    BY <1>3 DEF Inv, CycleTypes, ServiceEffect
  <2>2. Exec!Active(v) => call[v].intent \in Intents \ {call[w].intent}
    BY <1>3 DEF Inv, CallsAgree
  <2>3. Exec!Active(v) => orders'[call[v].intent] = orders[call[v].intent]
    BY <2>2 DEF ServiceEffect
  <2>4. CallSpent(v) => CallSpent(v)'
    BY <2>1, <2>3 DEF CallSpent, Exec!Active, Exec!Placed
  <2>5. CycleSpent(v)' = CycleSpent(v)
    BY DEF CycleSpent, cycleVars
  <2>6. Bounded(v)
    BY <1>3 DEF Inv, LateOrders
  <2> QED
    BY <2>1, <2>4, <2>5, <2>6 DEF Bounded, Spent
<1>4. ASSUME held
      PROVE  Bounded(w)'
  <2>1. Bounded(w) /\ heard' = heard
    BY <1>4 DEF Inv, LateOrders
  <2>2. CycleSpent(w)'
    BY DEF Inv, OneCallAtATime, CycleSpent, cycleVars
  <2>3. CASE orders' = orders
    <3>1. late'[w] = late[w]
      BY <2>3 DEF Inv, CycleTypes
    <3>2. CallSpent(w) => CallSpent(w)'
      BY <2>3 DEF CallSpent, ServiceEffect, Exec!Active, Exec!Placed
    <3> QED
      BY <2>1, <2>2, <3>1, <3>2 DEF Bounded, Spent
  <2>4. CASE orders' # orders
    <3>1. call[w].pc = "submit" /\ Exec!Placed(call[w].intent)'
      BY <2>4 DEF ServiceEffect
    <3>2. ~CallSpent(w)
      BY <3>1 DEF Inv, CallsAgree, Unsent, CallSpent
    <3>3. late'[w] = late[w] + 1
      BY <1>4, <2>4 DEF Inv, CycleTypes
    <3>4. late'[w] = 1
      BY <2>1, <3>2, <3>3 DEF Bounded, Spent
    <3>5. CallSpent(w)'
      BY <3>1 DEF CallSpent, ServiceEffect, Exec!Active, Exec!Placed
    <3> QED
      BY <2>2, <3>4, <3>5 DEF Bounded, Spent
  <2> QED
    BY <2>3, <2>4
<1>5. ASSUME held, NEW v \in Services
      PROVE  Bounded(v)'
    BY <1>3, <1>4, <1>5
<1>6. LateOrders'
    BY <1>5 DEF LateOrders
<1> QED
    BY <1>1, <1>2, <1>6

\* execute takes a step.
LEMMA ServiceStepInv ==
    ASSUME Inv, NEW w \in Services, ServiceStep(w)
    PROVE  Inv'
<1>1. /\ Exec!ExecuteProgress(w) /\ UNCHANGED switchVars
      /\ UNCHANGED <<cycleVars, heard>>
      /\ late' = [late EXCEPT ![w] = IF held /\ orders' # orders THEN @ + 1 ELSE @]
    BY DEF ServiceStep
<1>2. Exec!Active(w)
    BY <1>1 DEF Exec!ExecuteProgress, Exec!Active, Exec!WriteIntentRow, Exec!WriteKeyRow,
        Exec!Block, Exec!PassGate, Exec!MarkIntentRow, Exec!MarkKeyRow, Exec!SubmitAccepted,
        Exec!SubmitAmbiguous, Exec!ReconcileAmbiguous, Exec!PollFilled, Exec!Reconcile
<1>3. ServiceEffect(w)
    BY <1>1, EarlyEffect, MarkIntentRowEffect, MarkKeyRowEffect, SubmitEffect, AnswerEffect
       DEF Exec!ExecuteProgress
<1>4. CallsAgree' /\ OrdersHaveRows'
    BY <1>2, <1>3, EffectKeepsCalls
<1>5. CycleTypes' /\ OneCallAtATime' /\ LateOrders'
    BY <1>1, <1>2, <1>3, EffectKeepsLateOrders DEF switchVars
<1>6. SwitchTypes' /\ HeldIsStored'
    BY <1>1 DEF Inv, switchVars, SwitchTypes, HeldIsStored
<1>7. ExecTypes'
    BY <1>3 DEF ServiceEffect
<1> QED
    BY <1>4, <1>5, <1>6, <1>7 DEF Inv

\* A call decides on the flag that its cycle has read.
LEMMA CallExecuteInv ==
    ASSUME Inv, NEW w \in Services, NEW k \in Keys, NEW i \in Intents, CallExecute(w, k, i)
    PROVE  Inv'
<1> DEFINE blocked == flag[w]
<1>1. /\ Exec!Begin(w, k, i, blocked) /\ UNCHANGED <<switchVars, flag, haltVars>>
      /\ cycle[w] = "flagged" /\ cycle' = [cycle EXCEPT ![w] = "idle"]
    BY DEF CallExecute
<1>2. blocked \in BOOLEAN /\ (CycleSpent(w) => blocked)
    BY <1>1 DEF Inv, CycleTypes, CycleSpent
<1> HIDE DEF blocked
<1>3. /\ Exec!Fresh(i) /\ ~Exec!Active(w)
      /\ intents' = intents /\ orders' = orders
      /\ call' = [call EXCEPT ![w] = [Exec!Idle EXCEPT !.pc      = "write_intent",
                                                       !.key     = k,
                                                       !.intent  = i,
                                                       !.blocked = blocked]]
    BY <1>1 DEF Exec!Begin
<1>4. /\ call' \in [Services -> Exec!Calls]
      /\ call'[w].pc = "write_intent" /\ call'[w].intent = i /\ call'[w].blocked = blocked
      /\ \A v \in Services \ {w} : call'[v] = call[v]
    BY <1>2, <1>3 DEF Inv, ExecTypes, Exec!Idle, Exec!Calls, Exec!Places, Exec!Statuses,
        Exec!LifecycleStates, Exec!Transitions
<1>5. intents[i].status = "absent" /\ \A v \in Services : call[v].intent # i
    BY <1>3 DEF Exec!Fresh, Exec!NoRow
<1>6. ~Exec!Placed(i)
    BY <1>5 DEF Inv, OrdersHaveRows
<1>7. ExecTypes'
    BY <1>3, <1>4 DEF Inv, ExecTypes
<1>8. CallsAgree'
  <2>1. ASSUME NEW v \in Services, Exec!Active(v)'
        PROVE  /\ call'[v].intent \in Intents
               /\ call'[v].pc # "write_intent" => intents'[call'[v].intent].status # "absent"
               /\ Unsent(v)' => ~Exec!Placed(call[v].intent)'
               /\ call'[v].blocked => call'[v].pc \in {"write_intent", "write_key", "gate"}
    <3>1. CASE v = w
      BY <1>3, <1>4, <1>6, <3>1 DEF Exec!Placed
    <3>2. CASE v # w
      <4>1. Exec!Active(v) /\ call'[v] = call[v] /\ (Unsent(v)' => Unsent(v))
        BY <1>4, <2>1, <3>2 DEF Exec!Active, Unsent
      <4> QED
        BY <1>3, <4>1 DEF Inv, CallsAgree, Exec!Placed
    <3> QED
      BY <3>1, <3>2
  <2>2. ASSUME NEW u \in Services, NEW v \in Services, Exec!Active(u)', Exec!Active(v)',
               call'[u].intent = call'[v].intent
        PROVE  u = v
    BY <1>4, <1>5, <2>2 DEF Inv, CallsAgree, Exec!Active
  <2> QED
    BY <2>1, <2>2 DEF CallsAgree, Exec!Placed
<1>9. OrdersHaveRows'
    BY <1>3 DEF Inv, OrdersHaveRows, Exec!Placed
<1>10. LateOrders'
  <2>1. ASSUME held', NEW v \in Services
        PROVE  Bounded(v)'
    <3>1. held /\ late' = late /\ heard' = heard
      BY <1>1, <2>1 DEF switchVars, haltVars
    <3>2. Bounded(v)
      BY <3>1 DEF Inv, LateOrders
    <3>3. Spent(v) => Spent(v)'
      <4>1. CASE v = w
        BY <1>1, <1>2, <1>4, <4>1 DEF Spent, CallSpent, CycleSpent, Inv, CycleTypes
      <4>2. CASE v # w
        <5>1. CallSpent(v) => CallSpent(v)'
          BY <1>3, <1>4, <4>2 DEF CallSpent, Exec!Active, Exec!Placed
        <5>2. CycleSpent(v)' = CycleSpent(v)
          BY <1>1, <4>2 DEF CycleSpent, Inv, CycleTypes
        <5> QED
          BY <5>1, <5>2 DEF Spent
      <4> QED
        BY <4>1, <4>2
    <3> QED
      BY <3>1, <3>2, <3>3 DEF Bounded
  <2> QED
    BY <2>1 DEF LateOrders
<1>11. SwitchTypes' /\ HeldIsStored'
    BY <1>1 DEF Inv, switchVars, SwitchTypes, HeldIsStored
<1>12. CycleTypes'
    BY <1>1 DEF Inv, CycleTypes, haltVars
<1>13. OneCallAtATime'
    BY <1>1, <1>4 DEF Inv, CycleTypes, OneCallAtATime, Exec!Active
<1> QED
    BY <1>7, <1>8, <1>9, <1>10, <1>11, <1>12, <1>13 DEF Inv

\* A process that ends leaves its order and its rows where they are, and the
\* next one finds the row of the switch.
LEMMA EndOfProcessInv ==
    ASSUME Inv, NEW w \in Services, EndOfProcess(w)
    PROVE  Inv'
<1>1. /\ intents' = intents /\ orders' = orders /\ late' = late
      /\ row' = row /\ held' = held
      /\ memory' = [memory EXCEPT ![w] = row' = "active"]
      /\ doing' = [doing EXCEPT ![w] = "idle"]
      /\ cycle' = [cycle EXCEPT ![w] = "idle"]
      /\ flag' = [flag EXCEPT ![w] = FALSE]
      /\ heard' = [heard EXCEPT ![w] = held]
    BY DEF EndOfProcess, Hears, Exec!Stop, Switch!Restart, execVars
<1>2. /\ call' \in [Services -> Exec!Calls] /\ call'[w].pc = "idle"
      /\ \A v \in Services \ {w} : call'[v] = call[v]
  <2>1. CASE Exec!Stop(w)
    BY <2>1, ReturnFacts DEF Inv, Exec!Stop
  <2>2. CASE ~Exec!Active(w) /\ UNCHANGED execVars
    BY <2>2 DEF Inv, ExecTypes, execVars, Exec!Active
  <2> QED
    BY <2>1, <2>2 DEF EndOfProcess
<1>3. ExecTypes' /\ OrdersHaveRows'
    BY <1>1, <1>2 DEF Inv, ExecTypes, OrdersHaveRows, Exec!Placed
<1>4. ASSUME NEW v \in Services, Exec!Active(v)'
      PROVE  Exec!Active(v) /\ call'[v] = call[v]
    BY <1>2, <1>4 DEF Exec!Active
<1>5. CallsAgree'
    BY <1>1, <1>4 DEF Inv, CallsAgree, Unsent, Exec!Placed
<1>6. ASSUME held', NEW v \in Services
      PROVE  Bounded(v)'
  <2>1. Bounded(v)
    BY <1>1, <1>6 DEF Inv, LateOrders
  <2>2. CASE v = w
    <3>1. Spent(w)'
      BY <1>1, <1>2 DEF Spent, CallSpent, CycleSpent, Exec!Active, Inv, CycleTypes
    <3> QED
      BY <1>1, <2>1, <2>2, <3>1 DEF Bounded
  <2>3. CASE v # w
    <3>1. CallSpent(v) => CallSpent(v)'
      BY <1>1, <1>4 DEF CallSpent, Exec!Placed
    <3>2. /\ CycleSpent(v)' = CycleSpent(v)
          /\ heard'[v] = heard[v]
      BY <1>1, <2>3 DEF CycleSpent, Inv, CycleTypes
    <3> QED
      BY <1>1, <2>1, <3>1, <3>2 DEF Bounded, Spent
  <2> QED
    BY <2>2, <2>3
<1>7. LateOrders'
    BY <1>6 DEF LateOrders
<1>8. SwitchTypes'
    BY <1>1 DEF Inv, SwitchTypes
<1>9. HeldIsStored'
    BY <1>1 DEF Inv, SwitchTypes, HeldIsStored, AllSwitches
<1>10. CycleTypes'
    BY <1>1 DEF Inv, CycleTypes, SwitchTypes, Switch!Restart, EndOfProcess, Hears
<1>11. OneCallAtATime'
    BY <1>1, <1>2, <1>4 DEF Inv, CycleTypes, OneCallAtATime, Exec!Active
<1> QED
    BY <1>3, <1>5, <1>7, <1>8, <1>9, <1>10, <1>11 DEF Inv

\* Working a switch changes no call; a halt that begins finds no late order.
LEMMA WorkSwitchInv ==
    ASSUME Inv, NEW s \in AllSwitches, WorkSwitch(s)
    PROVE  Inv'
<1>1. /\ intents' = intents /\ orders' = orders /\ call' = call
      /\ Switch!SwitchStep(s)
      /\ cycle' = cycle /\ flag' = flag
      /\ \/ held' = held /\ late' = late /\ heard' = heard
         \/ late' = [w \in Services |-> 0] /\ heard' = [w \in Services |-> FALSE]
    BY DEF WorkSwitch, execVars, cycleVars, haltVars
<1>2. SwitchTypes'
    BY <1>1 DEF Inv, SwitchTypes, Switch!SwitchStep, Switch!Activate, Switch!CancelDone,
        Switch!StoreActive, Switch!Deactivate, Switch!StoreInactive, Switch!StoreRaises,
        Switch!Load
<1>3. HeldIsStored'
    BY <1>1 DEF Inv, SwitchTypes, HeldIsStored, AllSwitches, Switch!SwitchStep, Switch!Activate,
        Switch!CancelDone, Switch!StoreActive, Switch!Deactivate, Switch!StoreInactive,
        Switch!StoreRaises, Switch!Load
<1>4. ExecTypes' /\ OrdersHaveRows' /\ CallsAgree'
    BY <1>1 DEF Inv, ExecTypes, OrdersHaveRows, CallsAgree, Unsent, Exec!Active, Exec!Placed
<1>5. CycleTypes'
  <2>1. /\ [w \in Services |-> 0] \in [Services -> Nat]
        /\ [w \in Services |-> FALSE] \in [Services -> BOOLEAN]
    OBVIOUS
  <2> QED
    BY <1>1, <2>1 DEF Inv, CycleTypes
<1>6. ASSUME held', NEW w \in Services
      PROVE  Bounded(w)'
  <2>1. Spent(w)' = Spent(w)
    BY <1>1 DEF Spent, CallSpent, CycleSpent, Exec!Active, Exec!Placed
  <2>2. CASE held' = held /\ late' = late /\ heard' = heard
    BY <1>6, <2>1, <2>2 DEF Inv, LateOrders, Bounded
  <2>3. CASE late' = [v \in Services |-> 0] /\ heard' = [v \in Services |-> FALSE]
    <3>1. late'[w] = 0 /\ ~heard'[w]
      BY <2>3
    <3> QED
      BY <3>1 DEF Bounded
  <2> QED
    BY <1>1, <2>2, <2>3
<1>7. LateOrders'
    BY <1>6 DEF LateOrders
<1>8. OneCallAtATime'
    BY <1>1 DEF Inv, OneCallAtATime, Exec!Active
<1> QED
    BY <1>2, <1>3, <1>4, <1>5, <1>7, <1>8 DEF Inv

\* The exchange fills or cancels an order that is there.
LEMMA ExchangeStepInv ==
    ASSUME Inv, ExchangeStep
    PROVE  Inv'
<1>1. PICK i \in Intents : Exec!Cancel(i) \/ Exec!ExchangeFills(i)
    BY DEF ExchangeStep, Exec!OrderSteps
<1>2. /\ UNCHANGED <<intents, call>> /\ UNCHANGED switchVars
      /\ UNCHANGED cycleVars /\ UNCHANGED haltVars
      /\ orders' \in [Intents -> {"none", "open", "filled", "cancelled"}]
      /\ \A j \in Intents : (orders'[j] = "none") = (orders[j] = "none")
    BY <1>1 DEF Inv, ExecTypes, Exec!Cancel, Exec!ExchangeFills, ExchangeStep
<1>3. ExecTypes' /\ SwitchTypes' /\ HeldIsStored'
    BY <1>2 DEF Inv, ExecTypes, SwitchTypes, HeldIsStored, switchVars
<1>4. CycleTypes' /\ OneCallAtATime'
    BY <1>2 DEF Inv, CycleTypes, OneCallAtATime, Exec!Active, cycleVars, haltVars
<1>5. CallsAgree'
    BY <1>2 DEF Inv, CallsAgree, Unsent, Exec!Active, Exec!Placed
<1>6. OrdersHaveRows'
    BY <1>2 DEF Inv, OrdersHaveRows, Exec!Placed
<1>7. ASSUME held', NEW w \in Services
      PROVE  Bounded(w)'
  <2>1. Bounded(w)
    BY <1>2, <1>7 DEF Inv, LateOrders, switchVars
  <2>2. Exec!Active(w) => call[w].intent \in Intents
    BY DEF Inv, CallsAgree
  <2>3. CallSpent(w) => CallSpent(w)'
    BY <1>2, <2>2 DEF CallSpent, Exec!Active, Exec!Placed
  <2> QED
    BY <1>2, <2>1, <2>3 DEF Bounded, Spent, CycleSpent, cycleVars, haltVars
<1>8. LateOrders'
    BY <1>7 DEF LateOrders
<1> QED
    BY <1>3, <1>4, <1>5, <1>6, <1>8 DEF Inv

\* What run_cycle does outside execute, and recover, change no call and no
\* order.  Under a halt no gate is passed, and a flag that is read is set.
LEMMA CycleInv ==
    ASSUME Inv, NEW w \in Services,
           PassCycleGate(w) \/ BlockCycle(w) \/ ReadFlag(w) \/ Recover(w)
    PROVE  Inv'
<1>1. /\ UNCHANGED <<intents, orders, call, row, doing, held, late>>
      /\ heard' = [heard EXCEPT ![w] = held]
      /\ memory' \in [AllSwitches -> BOOLEAN]
    BY DEF PassCycleGate, BlockCycle, ReadFlag, Recover, Hears, execVars, switchVars, Inv,
           SwitchTypes
<1>2. ExecTypes' /\ SwitchTypes' /\ HeldIsStored'
    BY <1>1 DEF Inv, ExecTypes, SwitchTypes, HeldIsStored
<1>3. CallsAgree' /\ OrdersHaveRows'
    BY <1>1 DEF Inv, CallsAgree, OrdersHaveRows, Unsent, Exec!Active, Exec!Placed
<1>4. \A v \in Services \ {w} : cycle'[v] = cycle[v] /\ flag'[v] = flag[v]
    BY DEF PassCycleGate, BlockCycle, ReadFlag, Recover, cycleVars, Inv, CycleTypes
<1>5. ~Exec!Active(w)
    BY DEF PassCycleGate, BlockCycle, ReadFlag, Recover, AtRest, Inv, OneCallAtATime
<1>6. /\ cycle' \in [Services -> {"idle", "gated", "flagged"}]
      /\ flag' \in [Services -> BOOLEAN]
  <2>1. Switch!AllowsNewTrades(w) \in BOOLEAN
    BY DEF Switch!AllowsNewTrades, Inv, SwitchTypes, AllSwitches
  <2> QED
    BY <2>1 DEF PassCycleGate, BlockCycle, ReadFlag, Recover, cycleVars, Inv, CycleTypes
<1>7. CycleTypes'
    BY <1>1, <1>6 DEF Inv, CycleTypes, SwitchTypes
<1>8. OneCallAtATime'
    BY <1>1, <1>4, <1>5 DEF Inv, OneCallAtATime, Exec!Active
<1>9. held => CycleSpent(w)'
  <2>1. held => ~Switch!AllowsNewTrades(w)
    BY DEF Switch!AllowsNewTrades, Inv, HeldIsStored
  <2> QED
    BY <1>1, <2>1 DEF PassCycleGate, BlockCycle, ReadFlag, Recover, AtRest, CycleSpent, cycleVars,
        Inv, CycleTypes
<1>10. ASSUME held', NEW v \in Services
       PROVE  Bounded(v)'
  <2>1. Bounded(v)
    BY <1>1, <1>10 DEF Inv, LateOrders
  <2>2. CASE v = w
    BY <1>1, <1>5, <1>9, <1>10, <2>1, <2>2 DEF Bounded, Spent, CallSpent, Exec!Active
  <2>3. CASE v # w
    <3>1. heard'[v] = heard[v]
      BY <1>1, <2>3 DEF Inv, CycleTypes
    <3>2. Spent(v)' = Spent(v)
      BY <1>1, <1>4, <2>3 DEF Spent, CallSpent, CycleSpent, Exec!Active, Exec!Placed
    <3> QED
      BY <1>1, <2>1, <3>1, <3>2 DEF Bounded
  <2> QED
    BY <2>2, <2>3
<1>11. LateOrders'
    BY <1>10 DEF LateOrders
<1> QED
    BY <1>2, <1>3, <1>7, <1>8, <1>11 DEF Inv

\* Every step keeps the invariant.
LEMMA StepInv == ASSUME Inv, [Next]_vars PROVE Inv'
<1>1. ASSUME NEW w \in Services, ServiceStep(w) PROVE Inv'
  BY <1>1, ServiceStepInv
<1>2. ASSUME NEW w \in Services, NEW k \in Keys, NEW i \in Intents, CallExecute(w, k, i)
      PROVE  Inv'
  BY <1>2, CallExecuteInv
<1>3. ASSUME NEW w \in Services, EndOfProcess(w) PROVE Inv'
  BY <1>3, EndOfProcessInv
<1>4. ASSUME NEW s \in Services \cup Operators, WorkSwitch(s) PROVE Inv'
  BY <1>4, WorkSwitchInv DEF AllSwitches
<1>5. CASE ExchangeStep
  BY <1>5, ExchangeStepInv
<1>6. ASSUME NEW w \in Services,
             PassCycleGate(w) \/ BlockCycle(w) \/ ReadFlag(w) \/ Recover(w)
      PROVE  Inv'
  BY <1>6, CycleInv
<1>7. CASE UNCHANGED vars
  BY <1>7 DEF vars, execVars, switchVars, cycleVars, haltVars, Inv, ExecTypes, SwitchTypes,
      CycleTypes, HeldIsStored, CallsAgree, OneCallAtATime, OrdersHaveRows, LateOrders, Bounded,
      Spent, CallSpent, CycleSpent, Unsent, Exec!Active, Exec!Placed
<1> QED
  BY <1>1, <1>2, <1>3, <1>4, <1>5, <1>6, <1>7 DEF Next

\* The inductive invariant holds in every behaviour of the runtimes.
THEOREM Invariant == Spec => []Inv
BY InitInv, StepInv, PTL DEF Spec

-----------------------------------------------------------------------------

\* sandbox/stage2_runtime.py: however long a halt lasts and however often the
\* runtimes are restarted, each places at most the order it was sending.
THEOREM LateOrdersAreBounded == Spec => []LateOrdersBounded
<1>1. ASSUME Inv, held, NEW w \in Services
      PROVE  late[w] <= 1
  <2>1. late[w] = 0 \/ late[w] = 1
    BY <1>1 DEF Inv, LateOrders, Bounded
  <2> QED
    BY <2>1
<1>2. Inv => LateOrdersBounded
  BY <1>1 DEF LateOrdersBounded
<1> QED
  BY <1>2, Invariant, PTL

\* Only a step of execute counts a late order, and only one that is not spent.
LEMMA HeardPlacesNothing ==
    ASSUME Inv, [Next]_vars, NEW w \in Services, held, heard[w]
    PROVE  late'[w] <= late[w]
<1> USE DEF Inv, CycleTypes
<1>1. ASSUME NEW v \in Services, ServiceStep(v)
      PROVE  late'[w] <= late[w]
  <2>1. /\ Exec!Active(v)
        /\ ServiceEffect(v)
    <3>1. Exec!Active(v)
      BY <1>1 DEF ServiceStep, Exec!ExecuteProgress, Exec!Active, Exec!WriteIntentRow,
          Exec!WriteKeyRow, Exec!Block, Exec!PassGate, Exec!MarkIntentRow, Exec!MarkKeyRow,
          Exec!SubmitAccepted, Exec!SubmitAmbiguous, Exec!ReconcileAmbiguous, Exec!PollFilled,
          Exec!Reconcile
    <3> QED
      BY <1>1, <3>1, EarlyEffect, MarkIntentRowEffect, MarkKeyRowEffect, SubmitEffect, AnswerEffect
         DEF ServiceStep, Exec!ExecuteProgress
  <2>2. late' = [late EXCEPT ![v] = IF held /\ orders' # orders THEN @ + 1 ELSE @]
    BY <1>1 DEF ServiceStep
  <2>3. CASE v # w \/ orders' = orders
    <3>1. late'[w] = late[w]
      BY <2>2, <2>3
    <3> QED
      BY <3>1
  <2>4. CASE v = w /\ orders' # orders
    <3>1. call[w].pc = "submit"
      BY <2>1, <2>4 DEF ServiceEffect
    <3>2. ~CallSpent(w)
      BY <2>1, <2>4, <3>1 DEF CallsAgree, Unsent, CallSpent
    <3> QED
      BY <3>2 DEF LateOrders, Bounded, Spent
  <2> QED
    BY <2>3, <2>4
<1>2. ASSUME NEW s \in AllSwitches, WorkSwitch(s)
      PROVE  late'[w] <= late[w]
  <2>1. late' = late \/ late' = [v \in Services |-> 0]
    BY <1>2 DEF WorkSwitch, haltVars
  <2> QED
    BY <2>1
<1>3. ASSUME late' = late
      PROVE  late'[w] <= late[w]
  <2>1. late[w] \in Nat
    OBVIOUS
  <2> QED
    BY <1>3, <2>1
<1>4. ASSUME NEW v \in Services,
             \/ PassCycleGate(v) \/ BlockCycle(v) \/ ReadFlag(v)
             \/ EndOfProcess(v) \/ Recover(v)
      PROVE  late' = late
  BY <1>4 DEF PassCycleGate, BlockCycle, ReadFlag, EndOfProcess, Recover
<1>5. ASSUME NEW v \in Services, NEW k \in Keys, NEW i \in Intents, CallExecute(v, k, i)
      PROVE  late' = late
  BY <1>5 DEF CallExecute, haltVars
<1>6. ExchangeStep \/ (UNCHANGED vars) => late' = late
  BY DEF ExchangeStep, vars, haltVars
<1> HIDE DEF Inv, CycleTypes
<1> QED
  BY <1>1, <1>2, <1>3, <1>4, <1>5, <1>6 DEF Next, AllSwitches

\* sandbox/stage2_runtime.py: from the moment a runtime has read the switch
\* under a halt, it places no order until an operator clears the halt.
THEOREM HaltIsFinalOnceHeard == Spec => HeardHaltStops
<1>1. Inv /\ [Next]_vars => [\A w \in Services : held /\ heard[w] => late'[w] <= late[w]]_vars
  BY HeardPlacesNothing
<1> QED
  BY <1>1, Invariant, PTL DEF Spec, HeardHaltStops

\* live/durable_kill_switch.py: a stored halt stops every runtime, whichever
\* process stored it and whichever starts later, until an operator clears it.
THEOREM HaltIsKept == Spec => []HaltHolds
<1>1. Inv => HaltHolds
  BY DEF Inv, HeldIsStored, HaltHolds, Switch!HaltHolds, Switch!AllowsNewTrades, AllSwitches
<1> QED
  BY <1>1, Invariant, PTL
==============================================================================
