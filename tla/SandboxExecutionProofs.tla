---------------------- MODULE SandboxExecutionProofs ----------------------
(***************************************************************************)
(* What the ledger and execute guarantee for every set of keys and fresh   *)
(* intents, wherever a service stops and whatever the exchange loses, as   *)
(* long as one service at a time uses the store.                           *)
(***************************************************************************)
EXTENDS SandboxExecution, TLAPS

\* The assumption of every theorem: no two services run at the same time.
Alone == \A v, w \in Services : v = w

-----------------------------------------------------------------------------
(* The inductive invariant ties the point that execute has reached to the  *)
(* two rows of its intent and to the exchange.                             *)

Row(w) == intents[call[w].intent]
Ref(w) == keys[call[w].key]

\* The status that both rows have at the points between two marks.
Settled == [gate |-> "PERSISTED", submit |-> "SUBMITTING", ambiguous |-> "SUBMITTING",
            poll |-> "SUBMITTED", reconcile |-> "FILLED"]

Between(w) ==
    call[w].pc \in {"gate", "submit", "ambiguous", "poll", "reconcile"} =>
        /\ Row(w) = [key |-> call[w].key, status |-> Settled[call[w].pc]]
        /\ Ref(w) = [intent |-> call[w].intent, status |-> Settled[call[w].pc]]

Persisting(w) ==
    /\ call[w].pc = "write_intent" => Row(w) = NoRow /\ Ref(w) = NoRef
    /\ call[w].pc = "write_key" =>
           /\ Row(w) = [key |-> call[w].key, status |-> "PERSISTED"]
           /\ Ref(w) = NoRef

Marking(w) ==
    /\ call[w].pc = "mark_intent" =>
           /\ Row(w).key = call[w].key
           /\ Ref(w) = [intent |-> call[w].intent, status |-> Row(w).status]
           /\ <<Row(w).status, call[w].mark>> \in Successors
    /\ call[w].pc = "mark_key" =>
           /\ Row(w) = [key |-> call[w].key, status |-> call[w].mark]
           /\ Ref(w).intent = call[w].intent
           /\ <<Ref(w).status, call[w].mark>> \in Successors

\* execute has not reached submit_order yet.
Unsent(w) ==
    \/ call[w].pc \in {"write_intent", "write_key", "gate", "submit"}
    \/ call[w].pc \in {"mark_intent", "mark_key"} /\ call[w].mark = "SUBMITTING"

Held(w) ==
    /\ Active(w) => call[w].key \in Keys /\ call[w].intent \in Intents
    /\ Unsent(w) => ~Placed(call[w].intent)

CallsAgree == \A w \in Services : Held(w) /\ Persisting(w) /\ Between(w) /\ Marking(w)

RefsAgree ==
    \A k \in Keys :
        keys[k] # NoRef =>
            /\ keys[k].intent \in Intents
            /\ intents[keys[k].intent].key = k
            /\ \/ intents[keys[k].intent].status = keys[k].status
               \/ <<keys[k].status, intents[keys[k].intent].status>> \in Successors

OrdersAgree ==
    \A i \in Intents :
        Placed(i) => /\ intents[i].key \in Keys
                     /\ keys[intents[i].key].intent = i
                     /\ intents[i].status \notin {"absent", "PERSISTED"}

Inv == TypeOK /\ CallsAgree /\ RefsAgree /\ OrdersAgree

\* The invariant holds before the first call.
LEMMA InitInv == Init => Inv
<1> SUFFICES ASSUME Init PROVE Inv
    OBVIOUS
<1>1. TypeOK
    BY DEF Init, TypeOK, Rows, Refs, NoRow, NoRef, Idle, Calls, Places, Statuses,
           LifecycleStates, Transitions
<1>2. CallsAgree
    BY DEF Init, CallsAgree, Held, Persisting, Between, Marking, Unsent, Active, Idle
<1>3. RefsAgree
    BY DEF Init, RefsAgree
<1>4. OrdersAgree
    BY DEF Init, OrdersAgree, Placed
<1> QED
    BY <1>1, <1>2, <1>3, <1>4 DEF Inv

\* A refused transition of the lifecycle machine is a state too.
LEMMA MovedType ==
    ASSUME NEW life \in LifecycleStates, NEW target \in LifecycleStates
    PROVE  Moved(life, target) \in LifecycleStates
BY DEF Moved, LifecycleStates, Transitions

\* Moving a call to a point of execute keeps its other fields.
LEMMA GotoType ==
    ASSUME TypeOK, NEW w \in Services, NEW pc \in Places, NEW life \in LifecycleStates,
           Goto(w, pc, life)
    PROVE  /\ call' \in [Services -> Calls]
           /\ call'[w].pc = pc
           /\ call'[w].key = call[w].key
           /\ call'[w].intent = call[w].intent
           /\ call'[w].mark = call[w].mark
BY DEF TypeOK, Goto, Calls

\* And so does the status that a call is about to mark.
LEMMA GotoMarkType ==
    ASSUME TypeOK, NEW w \in Services, NEW m \in Statuses, NEW life \in LifecycleStates,
           GotoMark(w, m, life)
    PROVE  /\ call' \in [Services -> Calls]
           /\ call'[w].pc = "mark_intent"
           /\ call'[w].key = call[w].key
           /\ call'[w].intent = call[w].intent
           /\ call'[w].mark = m
<1> DEFINE c == [call[w] EXCEPT !.pc = "mark_intent", !.mark = m, !.life = life]
<1>1. call[w] \in Calls
    BY DEF TypeOK
<1>2. /\ c \in Calls
      /\ c.pc = "mark_intent" /\ c.mark = m
      /\ c.key = call[w].key /\ c.intent = call[w].intent
    BY <1>1 DEF Calls, Places
<1>3. call' = [call EXCEPT ![w] = c]
    BY DEF GotoMark
<1> HIDE DEF c
<1> QED
    BY <1>2, <1>3 DEF TypeOK

\* A call that is over is like one that never began.
LEMMA ReturnType ==
    ASSUME TypeOK, NEW w \in Services, Return(w)
    PROVE  /\ call' \in [Services -> Calls]
           /\ call'[w] = Idle
BY DEF TypeOK, Return, Calls, Places, Idle, Statuses, LifecycleStates, Transitions

\* What the machine knows of the states that execute asks for.
LEMMA LifecycleNames ==
    {"CREATE_INTENT", "RISK_CHECK", "IDEMPOTENCY_CHECK", "SUBMIT", "ACK", "OPEN_NEW",
     "FULL_FILL", "POSITION_UPDATE", "CLOSE", "RECONCILIATION"} \subseteq LifecycleStates
BY DEF LifecycleStates, Transitions

\* A call that ends leaves the rows and the orders as they are.
LEMMA ReturnInv ==
    ASSUME Alone, Inv, NEW w \in Services, Return(w),
           UNCHANGED <<intents, keys, orders>>, report' \in {"none", "RECONCILED"}
    PROVE  Inv'
<1>1. TypeOK'
    BY ReturnType DEF TypeOK, Inv
<1>2. CallsAgree'
    BY ReturnType DEF Inv, Alone, CallsAgree, Held, Persisting, Between, Marking, Unsent,
       Active, Idle
<1>3. RefsAgree'
    BY DEF Inv, RefsAgree
<1>4. OrdersAgree'
    BY DEF Inv, OrdersAgree, Placed
<1> QED
    BY <1>1, <1>2, <1>3, <1>4 DEF Inv

\* Starting a call touches no row: its key is free and its intent is fresh.
LEMMA BeginInv ==
    ASSUME Alone, Inv, NEW w \in Services, NEW k \in Keys, NEW i \in Intents,
           NEW b \in BOOLEAN, Begin(w, k, i, b)
    PROVE  Inv'
<1> DEFINE c == [Idle EXCEPT !.pc = "write_intent", !.key = k, !.intent = i, !.blocked = b]
<1>0. c \in Calls /\ c.pc = "write_intent" /\ c.key = k /\ c.intent = i
    BY DEF Idle, Calls, Places, Statuses, LifecycleStates, Transitions
<1>a. call' \in [Services -> Calls] /\ call'[w] = c
    BY <1>0 DEF Begin, Inv, TypeOK
<1> HIDE DEF c
<1>1. TypeOK'
    BY <1>a DEF Begin, TypeOK, Inv
<1>p. ~Placed(i)
    BY SandboxAssumption DEF Inv, OrdersAgree, Begin, Fresh, NoRow
<1>2. CallsAgree'
    BY <1>0, <1>a, <1>p DEF Begin, Fresh, Inv, Alone, CallsAgree, Held, Persisting, Between,
       Marking, Unsent, Active, Placed, Row, Ref
<1>3. RefsAgree'
    BY DEF Begin, Inv, RefsAgree
<1>4. OrdersAgree'
    BY DEF Begin, Inv, OrdersAgree, Placed
<1> QED
    BY <1>1, <1>2, <1>3, <1>4 DEF Inv

\* The row of the intent is new: no row of a key and no order names it.
LEMMA WriteIntentRowInv ==
    ASSUME Alone, Inv, NEW w \in Services, WriteIntentRow(w)
    PROVE  Inv'
<1> DEFINE i == call[w].intent
           k == call[w].key
<1>0. i \in Intents /\ k \in Keys /\ intents[i] = NoRow /\ keys[k] = NoRef /\ ~Placed(i)
    BY DEF WriteIntentRow, Inv, CallsAgree, Held, Persisting, Active, Unsent, Row, Ref
<1>t. call[w].life \in LifecycleStates
    BY DEF Inv, TypeOK, Calls
<1>c. /\ call' \in [Services -> Calls]
      /\ call'[w].pc = "write_key" /\ call'[w].key = k /\ call'[w].intent = i
    BY <1>t, GotoType DEF WriteIntentRow, Inv, Places
<1>r. /\ intents'[i] = [key |-> k, status |-> "PERSISTED"]
      /\ \A j \in Intents : j # i => intents'[j] = intents[j]
      /\ intents' \in [Intents -> Rows]
    BY <1>0 DEF WriteIntentRow, Inv, TypeOK, Rows, Statuses
<1>1. TypeOK'
    BY <1>c, <1>r DEF WriteIntentRow, TypeOK, Inv
<1>2. CallsAgree'
  <2>1. Held(w)'
    BY <1>0, <1>c DEF WriteIntentRow, Held, Unsent, Active, Placed
  <2>2. Persisting(w)' /\ Marking(w)'
    BY <1>0, <1>c, <1>r DEF WriteIntentRow, Persisting, Marking, Row, Ref
  <2>3. Between(w)'
    BY <1>0, <1>c, <1>r DEF WriteIntentRow, Between, Row, Ref, Settled
  <2> QED
    BY <2>1, <2>2, <2>3 DEF Alone, CallsAgree
<1>3. RefsAgree'
  <2> SUFFICES ASSUME NEW l \in Keys, keys[l] # NoRef
               PROVE  /\ keys[l].intent \in Intents
                      /\ intents'[keys[l].intent] = intents[keys[l].intent]
    BY DEF WriteIntentRow, Inv, RefsAgree
  <2>1. keys[l].intent \in Intents /\ intents[keys[l].intent].key = l
    BY DEF Inv, RefsAgree
  <2>2. keys[l].intent # i
    BY <2>1, <1>0, SandboxAssumption DEF NoRow
  <2> QED
    BY <2>1, <2>2, <1>r
<1>4. OrdersAgree'
    BY <1>0, <1>r DEF WriteIntentRow, Inv, OrdersAgree, Placed
<1> QED
    BY <1>1, <1>2, <1>3, <1>4 DEF Inv

\* The key was free, so no order could be found through it yet.
LEMMA WriteKeyRowInv ==
    ASSUME Alone, Inv, NEW w \in Services, WriteKeyRow(w)
    PROVE  Inv'
<1> DEFINE i == call[w].intent
           k == call[w].key
           life == Moved(call[w].life, "RISK_CHECK")
<1>0. /\ i \in Intents /\ k \in Keys /\ ~Placed(i) /\ keys[k] = NoRef
      /\ intents[i] = [key |-> k, status |-> "PERSISTED"]
    BY DEF WriteKeyRow, Inv, CallsAgree, Held, Persisting, Active, Unsent, Row, Ref
<1>l. life \in LifecycleStates
    BY MovedType, LifecycleNames DEF Inv, TypeOK, Calls
<1> HIDE DEF life
<1>c. /\ call' \in [Services -> Calls]
      /\ call'[w].pc = "gate" /\ call'[w].key = k /\ call'[w].intent = i
    BY <1>l, GotoType DEF WriteKeyRow, Inv, Places, life
<1>r. /\ keys'[k] = [intent |-> i, status |-> "PERSISTED"]
      /\ \A l \in Keys : l # k => keys'[l] = keys[l]
      /\ keys' \in [Keys -> Refs]
    BY <1>0 DEF WriteKeyRow, Inv, TypeOK, Refs, Statuses
<1>1. TypeOK'
    BY <1>c, <1>r DEF WriteKeyRow, TypeOK, Inv
<1>2. CallsAgree'
  <2>1. Held(w)'
    BY <1>0, <1>c DEF WriteKeyRow, Held, Unsent, Active, Placed
  <2>2. Persisting(w)' /\ Marking(w)'
    BY <1>0, <1>c, <1>r DEF WriteKeyRow, Persisting, Marking, Row, Ref
  <2>3. Between(w)'
    BY <1>0, <1>c, <1>r DEF WriteKeyRow, Between, Row, Ref, Settled
  <2> QED
    BY <2>1, <2>2, <2>3 DEF Alone, CallsAgree
<1>3. RefsAgree'
    BY <1>0, <1>r DEF WriteKeyRow, Inv, RefsAgree
<1>4. OrdersAgree'
    BY <1>0, <1>r, SandboxAssumption DEF WriteKeyRow, Inv, TypeOK, OrdersAgree, Placed, NoRef
<1> QED
    BY <1>1, <1>2, <1>3, <1>4 DEF Inv

\* Between two marks both rows of the intent name each other.
LEMMA BetweenRows ==
    ASSUME Inv, NEW w \in Services,
           call[w].pc \in {"gate", "submit", "ambiguous", "poll", "reconcile"}
    PROVE  /\ call[w].intent \in Intents /\ call[w].key \in Keys
           /\ Row(w).key = call[w].key /\ Row(w).status = Settled[call[w].pc]
           /\ Ref(w) = [intent |-> call[w].intent, status |-> Row(w).status]
           /\ call[w].life \in LifecycleStates
<1>1. Held(w) /\ Between(w)
    BY DEF Inv, CallsAgree
<1>2. call[w] \in Calls
    BY DEF Inv, TypeOK
<1> QED
    BY <1>1, <1>2 DEF Held, Between, Active, Calls

\* An order is only placed while its rows lead to it and say SUBMITTING.
LEMMA PlaceAgrees ==
    ASSUME Inv, NEW w \in Services, call[w].pc = "submit", Place(call[w].intent),
           UNCHANGED <<intents, keys>>
    PROVE  /\ orders' \in [Intents -> {"none", "open", "filled", "cancelled"}]
           /\ OrdersAgree'
<1>1. /\ call[w].intent \in Intents /\ call[w].key \in Keys
      /\ Row(w).key = call[w].key /\ Row(w).status = "SUBMITTING"
      /\ Ref(w).intent = call[w].intent
    BY BetweenRows DEF Settled
<1>2. orders' \in [Intents -> {"none", "open", "filled", "cancelled"}]
    BY <1>1 DEF Place, Inv, TypeOK
<1>3. \A j \in Intents : j # call[w].intent => orders'[j] = orders[j]
    BY <1>1 DEF Place, Inv, TypeOK
<1>4. OrdersAgree'
    BY <1>1, <1>3 DEF Inv, OrdersAgree, Placed, Row, Ref
<1> QED
    BY <1>2, <1>4

\* Going on to write the next status, with the rows as they are.
LEMMA GotoMarkInv ==
    ASSUME Alone, Inv, NEW w \in Services, NEW m \in Statuses, NEW life \in LifecycleStates,
           call[w].pc \in {"gate", "submit", "ambiguous", "poll", "reconcile"},
           <<Settled[call[w].pc], m>> \in Successors,
           GotoMark(w, m, life),
           UNCHANGED <<intents, keys>>,
           orders' \in [Intents -> {"none", "open", "filled", "cancelled"}],
           OrdersAgree',
           report' \in {"none", "RECONCILED"},
           m = "SUBMITTING" => orders'[call[w].intent] = "none"
    PROVE  Inv'
<1>0. /\ call[w].intent \in Intents /\ call[w].key \in Keys
      /\ Row(w).key = call[w].key /\ Row(w).status = Settled[call[w].pc]
      /\ Ref(w) = [intent |-> call[w].intent, status |-> Row(w).status]
    BY BetweenRows
<1>c. /\ call' \in [Services -> Calls]
      /\ call'[w].pc = "mark_intent" /\ call'[w].mark = m
      /\ call'[w].key = call[w].key /\ call'[w].intent = call[w].intent
    BY GotoMarkType DEF Inv
<1>1. TypeOK'
    BY <1>c DEF TypeOK, Inv
<1>2. CallsAgree'
  <2>1. Held(w)'
    BY <1>0, <1>c DEF Held, Unsent, Active, Placed
  <2>2. Persisting(w)' /\ Between(w)'
    BY <1>c DEF Persisting, Between
  <2>3. Marking(w)'
    BY <1>0, <1>c DEF Marking, Row, Ref
  <2> QED
    BY <2>1, <2>2, <2>3 DEF Alone, CallsAgree
<1>3. RefsAgree'
    BY DEF Inv, RefsAgree
<1> QED
    BY <1>1, <1>2, <1>3 DEF Inv

\* Passing the gate leads to the mark before the submit.
LEMMA PassGateInv ==
    ASSUME Alone, Inv, NEW w \in Services, PassGate(w)
    PROVE  Inv'
<1> DEFINE life == Moved(Moved(call[w].life, "IDEMPOTENCY_CHECK"), "SUBMIT")
<1>1. call[w].pc = "gate"
    BY DEF PassGate
<1>2. life \in LifecycleStates
    BY <1>1, BetweenRows, MovedType, LifecycleNames
<1>3. ~Placed(call[w].intent)
    BY <1>1 DEF Inv, CallsAgree, Held, Unsent
<1>4. <<Settled[call[w].pc], "SUBMITTING">> \in Successors /\ "SUBMITTING" \in Statuses
    BY <1>1 DEF Settled, Successors, Statuses
<1>5. GotoMark(w, "SUBMITTING", life) /\ UNCHANGED <<intents, keys, orders, report>>
    BY DEF PassGate
<1>6. OrdersAgree' /\ orders'[call[w].intent] = "none"
    BY <1>3, <1>5 DEF Inv, OrdersAgree, Placed
<1> HIDE DEF life
<1> QED
    BY <1>1, <1>2, <1>4, <1>5, <1>6, GotoMarkInv DEF Inv, TypeOK

\* The acknowledged order is the one that the rows lead to.
LEMMA SubmitAcceptedInv ==
    ASSUME Alone, Inv, NEW w \in Services, SubmitAccepted(w)
    PROVE  Inv'
<1> DEFINE life == Moved(call[w].life, "ACK")
<1>1. call[w].pc = "submit"
    BY DEF SubmitAccepted
<1>2. life \in LifecycleStates
    BY <1>1, BetweenRows, MovedType, LifecycleNames
<1>3. <<Settled[call[w].pc], "SUBMITTED">> \in Successors /\ "SUBMITTED" \in Statuses
    BY <1>1 DEF Settled, Successors, Statuses
<1>4. /\ GotoMark(w, "SUBMITTED", life) /\ UNCHANGED <<intents, keys, report>>
      /\ Place(call[w].intent)
    BY DEF SubmitAccepted
<1>5. /\ orders' \in [Intents -> {"none", "open", "filled", "cancelled"}]
      /\ OrdersAgree'
    BY <1>1, <1>4, PlaceAgrees
<1> HIDE DEF life
<1> QED
    BY <1>1, <1>2, <1>3, <1>4, <1>5, GotoMarkInv DEF Inv, TypeOK

\* Whether or not the order arrived, both rows say SUBMITTING.
LEMMA SubmitAmbiguousInv ==
    ASSUME Alone, Inv, NEW w \in Services, SubmitAmbiguous(w)
    PROVE  Inv'
<1> DEFINE life == Moved(call[w].life, "RECONCILIATION")
<1>0. call[w].pc = "submit"
    BY DEF SubmitAmbiguous
<1>l. life \in LifecycleStates
    BY <1>0, BetweenRows, MovedType, LifecycleNames
<1>r. /\ call[w].intent \in Intents /\ call[w].key \in Keys
      /\ Row(w) = [key |-> call[w].key, status |-> "SUBMITTING"]
      /\ Ref(w) = [intent |-> call[w].intent, status |-> "SUBMITTING"]
    BY <1>0, BetweenRows DEF Inv, CallsAgree, Between, Settled
<1>g. Goto(w, "ambiguous", life) /\ UNCHANGED <<intents, keys, report>>
    BY DEF SubmitAmbiguous
<1>o. /\ orders' \in [Intents -> {"none", "open", "filled", "cancelled"}]
      /\ OrdersAgree'
  <2>1. CASE Place(call[w].intent)
    BY <1>0, <1>g, <2>1, PlaceAgrees
  <2>2. CASE UNCHANGED orders
    BY <1>g, <2>2 DEF Inv, TypeOK, OrdersAgree, Placed
  <2> QED
    BY <2>1, <2>2 DEF SubmitAmbiguous
<1> HIDE DEF life
<1>c. /\ call' \in [Services -> Calls]
      /\ call'[w].pc = "ambiguous"
      /\ call'[w].key = call[w].key /\ call'[w].intent = call[w].intent
    BY <1>l, <1>g, GotoType DEF Inv, Places
<1>1. TypeOK'
    BY <1>c, <1>g, <1>o DEF TypeOK, Inv
<1>2. CallsAgree'
  <2>1. Held(w)' /\ Persisting(w)' /\ Marking(w)'
    BY <1>r, <1>c DEF Held, Unsent, Active, Persisting, Marking
  <2>2. Between(w)'
    BY <1>r, <1>g, <1>c DEF Between, Row, Ref, Settled
  <2> QED
    BY <2>1, <2>2 DEF Alone, CallsAgree
<1>3. RefsAgree'
    BY <1>g DEF Inv, RefsAgree
<1> QED
    BY <1>1, <1>2, <1>3, <1>o DEF Inv

\* The report changes and nothing that the invariant speaks of.
LEMMA ReconcileAmbiguousInv ==
    ASSUME Alone, Inv, NEW w \in Services, ReconcileAmbiguous(w)
    PROVE  Inv'
<1>1. call[w].pc = "ambiguous"
    BY DEF ReconcileAmbiguous, Compare
<1>2. call[w].life \in LifecycleStates
    BY <1>1, BetweenRows
<1>3. <<Settled[call[w].pc], "FAILED">> \in Successors /\ "FAILED" \in Statuses
    BY <1>1 DEF Settled, Successors, Statuses
<1>4. /\ GotoMark(w, "FAILED", call[w].life) /\ UNCHANGED <<intents, keys, orders>>
      /\ report' = "RECONCILED"
    BY DEF ReconcileAmbiguous, Compare
<1>5. OrdersAgree'
    BY <1>4 DEF Inv, OrdersAgree, Placed
<1> QED
    BY <1>1, <1>2, <1>3, <1>4, <1>5, GotoMarkInv DEF Inv, TypeOK

\* A poll that reports a fill starts the last mark.
LEMMA PollFilledInv ==
    ASSUME Alone, Inv, NEW w \in Services, PollFilled(w)
    PROVE  Inv'
<1> DEFINE life == Moved(Moved(call[w].life, "FULL_FILL"), "POSITION_UPDATE")
<1>1. call[w].pc = "poll"
    BY DEF PollFilled
<1>2. life \in LifecycleStates
    BY <1>1, BetweenRows, MovedType, LifecycleNames
<1>3. <<Settled[call[w].pc], "FILLED">> \in Successors /\ "FILLED" \in Statuses
    BY <1>1 DEF Settled, Successors, Statuses
<1>4. GotoMark(w, "FILLED", life) /\ UNCHANGED <<intents, keys, orders, report>>
    BY DEF PollFilled
<1>5. OrdersAgree'
    BY <1>4 DEF Inv, OrdersAgree, Placed
<1> HIDE DEF life
<1> QED
    BY <1>1, <1>2, <1>3, <1>4, <1>5, GotoMarkInv DEF Inv, TypeOK

\* mark, first write: the row of the intent runs one status ahead of its key's.
LEMMA MarkIntentRowInv ==
    ASSUME Alone, Inv, NEW w \in Services, MarkIntentRow(w)
    PROVE  Inv'
<1> DEFINE i == call[w].intent
           k == call[w].key
           m == call[w].mark
<1>0. /\ i \in Intents /\ k \in Keys
      /\ intents[i].key = k
      /\ keys[k] = [intent |-> i, status |-> intents[i].status]
      /\ <<intents[i].status, m>> \in Successors
      /\ m = "SUBMITTING" => ~Placed(i)
    BY DEF MarkIntentRow, Inv, CallsAgree, Held, Active, Marking, Unsent, Row, Ref
<1>t. call[w].life \in LifecycleStates /\ m \in Statuses
    BY DEF Inv, TypeOK, Calls
<1>c. /\ call' \in [Services -> Calls]
      /\ call'[w].pc = "mark_key" /\ call'[w].mark = m
      /\ call'[w].key = k /\ call'[w].intent = i
    BY <1>t, GotoType DEF MarkIntentRow, Inv, Places
<1>r. /\ intents'[i] = [key |-> k, status |-> m]
      /\ \A j \in Intents : j # i => intents'[j] = intents[j]
      /\ intents' \in [Intents -> Rows]
  <2>1. intents[i] \in Rows
    BY <1>0 DEF Inv, TypeOK
  <2>2. [intents[i] EXCEPT !.status = m] = [key |-> k, status |-> m]
    BY <1>0, <2>1 DEF Rows
  <2>3. [key |-> k, status |-> m] \in Rows
    BY <1>0, <1>t DEF Rows
  <2>4. intents' = [intents EXCEPT ![i] = [key |-> k, status |-> m]]
    BY <2>2 DEF MarkIntentRow
  <2> QED
    BY <1>0, <2>3, <2>4 DEF Inv, TypeOK
<1>1. TypeOK'
    BY <1>c, <1>r DEF MarkIntentRow, TypeOK, Inv
<1>2. CallsAgree'
  <2>1. Held(w)'
    BY <1>0, <1>c DEF MarkIntentRow, Held, Unsent, Active, Placed
  <2>2. Persisting(w)' /\ Between(w)'
    BY <1>c DEF Persisting, Between
  <2>3. Marking(w)'
    BY <1>0, <1>c, <1>r DEF MarkIntentRow, Marking, Row, Ref
  <2> QED
    BY <2>1, <2>2, <2>3 DEF Alone, CallsAgree
<1>3. RefsAgree'
  <2> SUFFICES ASSUME NEW l \in Keys, keys[l] # NoRef
               PROVE  /\ keys[l].intent \in Intents
                      /\ intents'[keys[l].intent].key = l
                      /\ \/ intents'[keys[l].intent].status = keys[l].status
                         \/ <<keys[l].status, intents'[keys[l].intent].status>> \in Successors
    BY DEF MarkIntentRow, RefsAgree
  <2>1. keys[l].intent \in Intents /\ intents[keys[l].intent].key = l
    BY DEF Inv, RefsAgree
  <2>2. CASE keys[l].intent = i
    BY <1>0, <1>r, <2>1, <2>2
  <2>3. CASE keys[l].intent # i
    BY <1>r, <2>1, <2>3 DEF Inv, RefsAgree
  <2> QED
    BY <2>2, <2>3
<1>4. OrdersAgree'
  <2> SUFFICES ASSUME NEW j \in Intents, Placed(j)
               PROVE  /\ intents'[j].key \in Keys
                      /\ keys[intents'[j].key].intent = j
                      /\ intents'[j].status \notin {"absent", "PERSISTED"}
    BY DEF MarkIntentRow, OrdersAgree, Placed
  <2>1. /\ intents[j].key \in Keys
        /\ keys[intents[j].key].intent = j
        /\ intents[j].status \notin {"absent", "PERSISTED"}
    BY DEF Inv, OrdersAgree
  <2>2. m \notin {"absent", "PERSISTED"}
    BY <1>0 DEF Successors
  <2> QED
    BY <1>0, <1>r, <2>1, <2>2
<1> QED
    BY <1>1, <1>2, <1>3, <1>4 DEF Inv

\* Where execute goes once both rows have the status.
LEMMA AfterMarkType ==
    ASSUME Inv, NEW w \in Services, call[w].pc = "mark_key", AfterMark(w)
    PROVE  /\ call' \in [Services -> Calls]
           /\ \/ call'[w] = Idle
              \/ /\ call'[w].key = call[w].key /\ call'[w].intent = call[w].intent
                 /\ call'[w].pc \in {"submit", "poll", "reconcile"}
                 /\ Settled[call'[w].pc] = call[w].mark
<1> DEFINE life == call[w].life
<1>0. life \in LifecycleStates
    BY DEF Inv, TypeOK, Calls
<1>1. CASE call[w].mark = "SUBMITTING"
  <2>1. Goto(w, "submit", life)
    BY <1>1 DEF AfterMark
  <2> HIDE DEF life
  <2> QED
    BY <1>0, <1>1, <2>1, GotoType DEF Inv, Places, Settled
<1>2. CASE call[w].mark = "SUBMITTED"
  <2>1. Goto(w, "poll", Moved(life, "OPEN_NEW"))
    BY <1>2 DEF AfterMark
  <2>2. Moved(life, "OPEN_NEW") \in LifecycleStates
    BY <1>0, MovedType, LifecycleNames
  <2> HIDE DEF life
  <2> QED
    BY <1>2, <2>1, <2>2, GotoType DEF Inv, Places, Settled
<1>3. CASE call[w].mark = "FILLED"
  <2>1. Goto(w, "reconcile", Moved(Moved(life, "CLOSE"), "RECONCILIATION"))
    BY <1>3 DEF AfterMark
  <2>2. Moved(Moved(life, "CLOSE"), "RECONCILIATION") \in LifecycleStates
    BY <1>0, MovedType, LifecycleNames
  <2> HIDE DEF life
  <2> QED
    BY <1>3, <2>1, <2>2, GotoType DEF Inv, Places, Settled
<1>4. CASE call[w].mark \notin {"SUBMITTING", "SUBMITTED", "FILLED"}
  <2>1. Return(w)
    BY <1>4 DEF AfterMark
  <2> QED
    BY <2>1, ReturnType DEF Inv
<1> QED
    BY <1>1, <1>2, <1>3, <1>4

\* mark, second write: the row of the key catches up.
LEMMA MarkKeyRowInv ==
    ASSUME Alone, Inv, NEW w \in Services, MarkKeyRow(w)
    PROVE  Inv'
<1> DEFINE i == call[w].intent
           k == call[w].key
           m == call[w].mark
<1>0. /\ i \in Intents /\ k \in Keys /\ m \in Statuses
      /\ intents[i] = [key |-> k, status |-> m]
      /\ keys[k].intent = i
      /\ m = "SUBMITTING" => ~Placed(i)
    BY DEF MarkKeyRow, Inv, CallsAgree, Held, Active, Marking, Unsent, Row, Ref, TypeOK, Calls
<1>c. /\ call' \in [Services -> Calls]
      /\ \/ call'[w] = Idle
         \/ /\ call'[w].key = k /\ call'[w].intent = i
            /\ call'[w].pc \in {"submit", "poll", "reconcile"}
            /\ Settled[call'[w].pc] = m
    BY AfterMarkType DEF MarkKeyRow
<1>r. /\ keys'[k] = [intent |-> i, status |-> m]
      /\ \A l \in Keys : l # k => keys'[l] = keys[l]
      /\ keys' \in [Keys -> Refs]
    BY <1>0 DEF MarkKeyRow, Inv, TypeOK, Refs
<1>1. TypeOK'
    BY <1>c, <1>r DEF MarkKeyRow, TypeOK, Inv
<1>2. CallsAgree'
  <2>1. CASE call'[w] = Idle
    BY <2>1 DEF Alone, CallsAgree, Held, Persisting, Between, Marking, Unsent, Active, Idle
  <2>2. CASE call'[w].pc \in {"submit", "poll", "reconcile"} /\ call'[w] # Idle
    <3>1. Held(w)'
      BY <1>0, <1>c, <2>2 DEF MarkKeyRow, Held, Unsent, Active, Placed, Settled
    <3>2. Persisting(w)' /\ Marking(w)'
      BY <2>2 DEF Persisting, Marking
    <3>3. Between(w)'
      BY <1>0, <1>c, <1>r, <2>2 DEF MarkKeyRow, Between, Row, Ref
    <3> QED
      BY <3>1, <3>2, <3>3 DEF Alone, CallsAgree
  <2> QED
    BY <1>c, <2>1, <2>2
<1>3. RefsAgree'
    BY <1>0, <1>r DEF MarkKeyRow, Inv, RefsAgree
<1>4. OrdersAgree'
    BY <1>0, <1>r DEF MarkKeyRow, Inv, OrdersAgree, Placed
<1> QED
    BY <1>1, <1>2, <1>3, <1>4 DEF Inv

\* Cancelling or filling an order that is open leaves it placed.
LEMMA OrderStepsInv ==
    ASSUME Alone, Inv, OrderSteps
    PROVE  Inv'
<1>1. PICK i \in Intents : Cancel(i) \/ ExchangeFills(i)
    BY DEF OrderSteps
<1>2. /\ orders' \in [Intents -> {"none", "open", "filled", "cancelled"}]
      /\ \A j \in Intents : (orders'[j] # "none") = (orders[j] # "none")
      /\ UNCHANGED <<intents, keys, report, call>>
    BY <1>1 DEF Cancel, ExchangeFills, Inv, TypeOK
<1>3. TypeOK'
    BY <1>2 DEF Inv, TypeOK
<1>4. CallsAgree'
  <2> SUFFICES ASSUME NEW w \in Services
               PROVE  Held(w)' /\ Persisting(w)' /\ Between(w)' /\ Marking(w)'
    BY DEF CallsAgree
  <2>1. Held(w) /\ Persisting(w) /\ Between(w) /\ Marking(w)
    BY DEF Inv, CallsAgree
  <2>2. Held(w)'
    BY <1>2, <2>1 DEF Held, Unsent, Active, Placed
  <2>3. Persisting(w)' /\ Between(w)' /\ Marking(w)'
    BY <1>2, <2>1 DEF Persisting, Between, Marking, Row, Ref
  <2> QED
    BY <2>2, <2>3
<1>5. RefsAgree'
    BY <1>2 DEF Inv, RefsAgree
<1>6. OrdersAgree'
    BY <1>2 DEF Inv, OrdersAgree, Placed
<1> QED
    BY <1>3, <1>4, <1>5, <1>6 DEF Inv

\* Every step keeps the invariant when one service uses the store.
LEMMA NextInv ==
    ASSUME Alone, Inv, [Next]_vars
    PROVE  Inv'
<1>1. ASSUME NEW w \in Services, NEW k \in Keys, NEW i \in Intents, NEW b \in BOOLEAN,
             Begin(w, k, i, b)
      PROVE  Inv'
    BY <1>1, BeginInv
<1>2. ASSUME NEW w \in Services, ExecuteStep(w)
      PROVE  Inv'
  <2>1. CASE WriteIntentRow(w) \/ WriteKeyRow(w)
    BY <2>1, WriteIntentRowInv, WriteKeyRowInv
  <2>2. CASE MarkIntentRow(w) \/ MarkKeyRow(w)
    BY <2>2, MarkIntentRowInv, MarkKeyRowInv
  <2>3. CASE PassGate(w) \/ PollFilled(w) \/ ReconcileAmbiguous(w)
    BY <2>3, PassGateInv, PollFilledInv, ReconcileAmbiguousInv
  <2>4. CASE SubmitAccepted(w) \/ SubmitAmbiguous(w)
    BY <2>4, SubmitAcceptedInv, SubmitAmbiguousInv
  <2>5. CASE Block(w) \/ Reconcile(w) \/ Stop(w)
    <3>1. /\ Return(w) /\ UNCHANGED <<intents, keys, orders>>
          /\ report' \in {"none", "RECONCILED"}
      BY <2>5 DEF Block, Reconcile, Compare, Stop, Inv, TypeOK
    <3> QED
      BY <3>1, ReturnInv
  <2> QED
    BY <1>2, <2>1, <2>2, <2>3, <2>4, <2>5 DEF ExecuteStep, ExecuteProgress
<1>3. CASE OrderSteps
    BY <1>3, OrderStepsInv
<1>4. CASE UNCHANGED vars
  <2>1. UNCHANGED <<intents, keys, orders, report, call>>
    BY <1>4 DEF vars
  <2> QED
    BY <2>1, ZenonT(60) DEF Inv, TypeOK, CallsAgree, Held, Persisting, Between, Marking, Unsent,
       Active, Placed, Row, Ref, RefsAgree, OrdersAgree
<1> QED
    BY <1>1, <1>2, <1>3, <1>4 DEF Next

-----------------------------------------------------------------------------
(* The theorems *)

\* The invariant holds of every behaviour of one service and its restarts.
THEOREM Invariant ==
    ASSUME Alone
    PROVE  Spec => []Inv
<1>1. Init => Inv
    BY InitInv
<1>2. Inv /\ [Next]_vars => Inv'
    BY NextInv
<1> QED
    BY <1>1, <1>2, PTL DEF Spec

\* Every variable keeps its type.
THEOREM TypeCorrect ==
    ASSUME Alone
    PROVE  Spec => []TypeOK
<1>1. Inv => TypeOK
    BY DEF Inv
<1> QED
    BY <1>1, Invariant, PTL

\* At most one order of an idempotency key is ever placed, across restarts of
\* execute at any point and ambiguous answers of the exchange.
THEOREM PlacedOnce ==
    ASSUME Alone
    PROVE  Spec => []OneOrderPerKey
<1>1. Inv => OneOrderPerKey
    BY DEF Inv, OrdersAgree, OneOrderPerKey
<1> QED
    BY <1>1, Invariant, PTL

\* An order at the exchange was persisted and marked before it was submitted.
THEOREM SubmittedAfterPersist ==
    ASSUME Alone
    PROVE  Spec => []PersistedFirst
<1>1. Inv => PersistedFirst
    BY DEF Inv, OrdersAgree, PersistedFirst
<1> QED
    BY <1>1, Invariant, PTL

\* The row of its key leads to the intent of every order at the exchange.
THEOREM OrdersAreFound ==
    ASSUME Alone
    PROVE  Spec => []FoundByKey
<1>1. Inv => FoundByKey
    BY DEF Inv, OrdersAgree, FoundByKey
<1> QED
    BY <1>1, Invariant, PTL

\* A stop between two writes leaves the rows at most one status apart.
THEOREM RowsStayClose ==
    ASSUME Alone
    PROVE  Spec => []KeyRowTrails
<1>1. Inv => KeyRowTrails
    BY DEF Inv, RefsAgree, KeyRowTrails
<1> QED
    BY <1>1, Invariant, PTL

\* What a step may do to the row of one intent.
LEMMA RowStep ==
    ASSUME Alone, Inv, [Next]_vars, NEW i \in Intents
    PROVE  \/ intents'[i] = intents[i]
           \/ intents[i] = NoRow /\ intents'[i].status = "PERSISTED"
           \/ <<intents[i].status, intents'[i].status>> \in Successors
<1>1. ASSUME NEW w \in Services, WriteIntentRow(w)
      PROVE  intents'[i] = intents[i] \/ (intents[i] = NoRow /\ intents'[i].status = "PERSISTED")
  <2>1. intents[call[w].intent] = NoRow
    BY <1>1 DEF WriteIntentRow, Inv, CallsAgree, Persisting, Row
  <2> QED
    BY <1>1, <2>1 DEF WriteIntentRow, Inv, TypeOK
<1>2. ASSUME NEW w \in Services, MarkIntentRow(w)
      PROVE  \/ intents'[i] = intents[i]
             \/ <<intents[i].status, intents'[i].status>> \in Successors
  <2>1. <<intents[call[w].intent].status, call[w].mark>> \in Successors
    BY <1>2 DEF MarkIntentRow, Inv, CallsAgree, Marking, Row
  <2>2. CASE i = call[w].intent
    <3>1. intents[i] \in Rows
      BY DEF Inv, TypeOK
    <3>2. intents'[i] = [intents[i] EXCEPT !.status = call[w].mark]
      BY <1>2, <2>2 DEF MarkIntentRow, Inv, TypeOK
    <3>3. intents'[i].status = call[w].mark
      BY <3>1, <3>2 DEF Rows
    <3> QED
      BY <2>1, <2>2, <3>3
  <2>3. CASE i # call[w].intent
    BY <1>2, <2>3 DEF MarkIntentRow, Inv, TypeOK
  <2> QED
    BY <2>2, <2>3
<1>3. ASSUME NEW w \in Services, ExecuteStep(w), ~WriteIntentRow(w), ~MarkIntentRow(w)
      PROVE  intents' = intents
    BY <1>3 DEF ExecuteStep, ExecuteProgress, WriteKeyRow, Block, PassGate, MarkKeyRow, SubmitAccepted,
       SubmitAmbiguous, ReconcileAmbiguous, PollFilled, Reconcile, Stop
<1>4. CASE OrderSteps \/ UNCHANGED vars
    BY <1>4 DEF OrderSteps, Cancel, ExchangeFills, vars
<1>5. ASSUME NEW w \in Services, NEW k \in Keys, NEW j \in Intents, NEW b \in BOOLEAN,
             Begin(w, k, j, b)
      PROVE  intents' = intents
    BY <1>5 DEF Begin
<1> QED
    BY <1>1, <1>2, <1>3, <1>4, <1>5 DEF Next

\* The status of an intent only moves forward.
THEOREM StatusesMoveForward ==
    ASSUME Alone
    PROVE  Spec => StatusMovesForward
<1>1. Inv /\ [Next]_vars =>
        [\A i \in Intents :
           \/ intents'[i] = intents[i]
           \/ intents[i] = NoRow /\ intents'[i].status = "PERSISTED"
           \/ <<intents[i].status, intents'[i].status>> \in Successors]_vars
    BY RowStep
<1> QED
    BY <1>1, Invariant, PTL DEF Spec, StatusMovesForward

\* A call that is blocked never gets beyond the gate.
StopsAtGate ==
    \A w \in Services :
        Active(w) /\ call[w].blocked => call[w].pc \in {"write_intent", "write_key", "gate"}

\* A step of a call that is not blocked leaves it so, and a blocked one ends.
LEMMA StopsAtGateStep ==
    ASSUME Inv, StopsAtGate, [Next]_vars
    PROVE  StopsAtGate'
<1> SUFFICES ASSUME NEW v \in Services, Active(v)', call'[v].blocked
             PROVE  call'[v].pc \in {"write_intent", "write_key", "gate"}
    BY DEF StopsAtGate
<1>t. call \in [Services -> Calls]
    BY DEF Inv, TypeOK
<1>1. ASSUME NEW w \in Services, NEW k \in Keys, NEW i \in Intents, NEW b \in BOOLEAN,
             Begin(w, k, i, b)
      PROVE  call'[v].pc \in {"write_intent", "write_key", "gate"}
  <2>1. CASE v = w
    <3> DEFINE c == [Idle EXCEPT !.pc = "write_intent", !.key = k, !.intent = i, !.blocked = b]
    <3>1. c.pc = "write_intent"
      BY DEF Idle
    <3>2. call'[w] = c
      BY <1>1, <1>t DEF Begin
    <3> QED
      BY <2>1, <3>1, <3>2
  <2>2. CASE v # w
    <3>1. call'[v] = call[v]
      BY <1>1, <1>t, <2>2 DEF Begin
    <3> QED
      BY <3>1 DEF StopsAtGate, Active
  <2> QED
    BY <2>1, <2>2
<1>2. ASSUME NEW w \in Services, ExecuteStep(w)
      PROVE  call'[v].pc \in {"write_intent", "write_key", "gate"}
  <2>1. CASE v # w
    <3>1. call'[v] = call[v]
      BY <1>2, <1>t, <2>1 DEF ExecuteStep, ExecuteProgress, WriteIntentRow, WriteKeyRow, Block, PassGate,
         MarkIntentRow, MarkKeyRow, AfterMark, SubmitAccepted, SubmitAmbiguous,
         ReconcileAmbiguous, PollFilled, Reconcile, Stop, Goto, GotoMark, Return
    <3> QED
      BY <3>1 DEF StopsAtGate, Active
  <2>2. CASE v = w /\ (WriteIntentRow(w) \/ WriteKeyRow(w))
    <3>0. PICK pc \in {"write_key", "gate"} : \E life : Goto(w, pc, life)
      BY <2>2 DEF WriteIntentRow, WriteKeyRow
    <3>1. PICK life : Goto(w, pc, life)
      BY <3>0
    <3>2. call[w] \in Calls /\ call'[w] = [call[w] EXCEPT !.pc = pc, !.life = life]
      BY <1>t, <3>1 DEF Goto
    <3>3. call'[w].pc = pc
      BY <3>2 DEF Calls
    <3> QED
      BY <2>2, <3>3
  <2>3. CASE v = w /\ (Block(w) \/ Reconcile(w) \/ Stop(w))
    BY <1>t, <2>3 DEF Block, Reconcile, Stop, Return, Idle
  <2>4. CASE v = w /\ PassGate(w)
    <3>1. ~call[w].blocked /\ call[w] \in Calls
      BY <1>t, <2>4 DEF PassGate
    <3>2. call'[w] = [call[w] EXCEPT !.pc = "mark_intent", !.mark = "SUBMITTING",
                        !.life = Moved(Moved(call[w].life, "IDEMPOTENCY_CHECK"), "SUBMIT")]
      BY <1>t, <2>4 DEF PassGate, GotoMark
    <3>3. call'[w].blocked = call[w].blocked
      BY <3>1, <3>2 DEF Calls
    <3> QED
      BY <2>4, <3>1, <3>3
  <2>5. CASE /\ v = w
             /\ call[w].pc \notin {"write_intent", "write_key", "gate"}
    <3>1. ~call[w].blocked \/ ~Active(w)
      BY <2>5 DEF StopsAtGate
    <3>2. Active(w)
      BY <1>2 DEF ExecuteStep, ExecuteProgress, WriteIntentRow, WriteKeyRow, Block, PassGate,
         MarkIntentRow, MarkKeyRow, SubmitAccepted, SubmitAmbiguous,
         ReconcileAmbiguous, PollFilled, Reconcile, Stop, Active
    <3>3. call[w] \in Calls /\ ~call[w].blocked
      BY <1>t, <3>1, <3>2
    <3>4. ~call'[w].blocked
      BY <1>2, <1>t, <2>5, <3>3 DEF ExecuteStep, ExecuteProgress, WriteIntentRow, WriteKeyRow, Block,
         PassGate, MarkIntentRow, MarkKeyRow, AfterMark, SubmitAccepted, SubmitAmbiguous,
         ReconcileAmbiguous, PollFilled, Reconcile, Stop, Goto, GotoMark, Return, Idle, Calls
    <3> QED
      BY <2>5, <3>4
  <2>6. \/ WriteIntentRow(w) \/ WriteKeyRow(w) \/ Block(w) \/ PassGate(w) \/ Stop(w)
        \/ call[w].pc \notin {"write_intent", "write_key", "gate"}
    BY <1>2 DEF ExecuteStep, ExecuteProgress, MarkIntentRow, MarkKeyRow, SubmitAccepted, SubmitAmbiguous,
       ReconcileAmbiguous, PollFilled, Reconcile
  <2> QED
    BY <2>1, <2>2, <2>3, <2>4, <2>5, <2>6
<1>3. CASE OrderSteps \/ UNCHANGED vars
  <2>1. call' = call
    BY <1>3 DEF OrderSteps, Cancel, ExchangeFills, vars
  <2> QED
    BY <2>1 DEF StopsAtGate, Active
<1> QED
    BY <1>1, <1>2, <1>3 DEF Next

\* A blocked call places no order at the exchange.
THEOREM BlockedPlacesNothing ==
    ASSUME Alone
    PROVE  Spec => []BlockedNeverPlaced
<1>1. Init => StopsAtGate
    BY DEF Init, StopsAtGate, Active, Idle
<1>2. Inv /\ StopsAtGate /\ [Next]_vars => StopsAtGate'
    BY StopsAtGateStep
<1>3. Inv /\ StopsAtGate => BlockedNeverPlaced
    BY DEF Inv, CallsAgree, Held, Unsent, StopsAtGate, BlockedNeverPlaced
<1> QED
    BY <1>1, <1>2, <1>3, Invariant, PTL DEF Spec

-----------------------------------------------------------------------------
(* The ledger implements OrderPlacement. *)

PlacedSet == {i \in Intents : Placed(i)}
Claims == [k \in Keys |-> keys[k].intent]

\* Claiming a key is the write of its row; no other key names a fresh intent.
LEMMA ClaimStep ==
    ASSUME Inv, NEW w \in Services, WriteKeyRow(w)
    PROVE  Placement!Next
<1> DEFINE i == call[w].intent
           k == call[w].key
<1>p. /\ i \in Intents /\ k \in Keys /\ keys[k] = NoRef
      /\ intents[i] = [key |-> k, status |-> "PERSISTED"]
    BY DEF WriteKeyRow, Inv, CallsAgree, Held, Persisting, Active, Unsent, Row, Ref
<1>0. i \in Intents /\ k \in Keys /\ keys[k] = NoRef /\ intents[i].key = k
    BY <1>p
<1>1. keys[k].intent = NoIntent
    BY <1>0 DEF NoRef
<1>2. ASSUME NEW l \in Keys
      PROVE  keys[l].intent # i
  <2>1. CASE keys[l] = NoRef
    BY <1>0, <2>1, SandboxAssumption DEF NoRef
  <2>2. CASE keys[l] # NoRef
    BY <1>0, <2>2 DEF Inv, RefsAgree
  <2> QED
    BY <2>1, <2>2
<1>3. Claims' = [Claims EXCEPT ![k] = i]
    BY <1>0 DEF Claims, WriteKeyRow, Inv, TypeOK
<1>4. PlacedSet' = PlacedSet
    BY DEF PlacedSet, Placed, WriteKeyRow
<1>5. Placement!Claim(k, i)
    BY <1>0, <1>1, <1>2, <1>3, <1>4 DEF Placement!Claim, Claims, PlacedSet
<1>6. i \in Intents /\ k \in Keys
    BY <1>0
<1> QED
    BY <1>5, <1>6 DEF Placement!Next, Placement!Claim

\* Writing a later status of the same intent leaves the claim as it is.
LEMMA ReclaimStep ==
    ASSUME Inv, NEW w \in Services, MarkKeyRow(w)
    PROVE  UNCHANGED Placement!vars
<1>1. /\ call[w].intent \in Intents /\ call[w].key \in Keys
      /\ keys[call[w].key].intent = call[w].intent
    BY DEF MarkKeyRow, Inv, CallsAgree, Held, Marking, Active, Ref
<1>2. Claims' = Claims
    BY <1>1 DEF Claims, MarkKeyRow, Inv, TypeOK
<1>3. PlacedSet' = PlacedSet
    BY DEF PlacedSet, Placed, MarkKeyRow
<1> QED
    BY <1>2, <1>3 DEF Placement!vars, Claims, PlacedSet

\* A submit that reaches the exchange places the order of the key's owner.
LEMMA PlaceStep ==
    ASSUME Inv, NEW w \in Services, call[w].pc = "submit", Place(call[w].intent),
           UNCHANGED keys
    PROVE  Placement!Next
<1> DEFINE i == call[w].intent
           k == call[w].key
<1>1. i \in Intents /\ k \in Keys /\ keys[k].intent = i
  <2>1. call[w].pc \in {"gate", "submit", "ambiguous", "poll", "reconcile"}
    OBVIOUS
  <2>2. i \in Intents /\ k \in Keys /\ Ref(w) = [intent |-> i, status |-> Row(w).status]
    BY <2>1, BetweenRows
  <2>3. Ref(w).intent = i
    BY <2>2
  <2> QED
    BY <2>2, <2>3 DEF Ref
<1>2. ~Placed(i)
    BY DEF Inv, CallsAgree, Held, Unsent
<1>3. PlacedSet' = PlacedSet \cup {i}
    BY <1>1 DEF PlacedSet, Placed, Place, Inv, TypeOK
<1>4. Claims' = Claims
    BY DEF Claims
<1>5. Placement!Place(k, i)
    BY <1>1, <1>2, <1>3, <1>4 DEF Placement!Place, Claims, PlacedSet
<1> QED
    BY <1>1, <1>5 DEF Placement!Next

\* Every other step leaves the claims and the set of placed orders alone.
LEMMA SilentStep ==
    ASSUME Inv, UNCHANGED keys,
           \A i \in Intents : (orders'[i] # "none") = (orders[i] # "none")
    PROVE  UNCHANGED Placement!vars
<1>1. Claims' = Claims
    BY DEF Claims
<1>2. PlacedSet' = PlacedSet
    BY DEF PlacedSet, Placed
<1> QED
    BY <1>1, <1>2 DEF Placement!vars, Claims, PlacedSet

\* A step of the ledger is a step or a stutter of what it promises.
LEMMA StepRefines ==
    ASSUME Inv, [Next]_vars
    PROVE  [Placement!Next]_(Placement!vars)
<1>1. ASSUME NEW w \in Services, ExecuteStep(w)
      PROVE  Placement!Next \/ UNCHANGED Placement!vars
  <2>1. CASE WriteKeyRow(w) \/ MarkKeyRow(w)
    BY <2>1, ClaimStep, ReclaimStep
  <2>2. CASE SubmitAccepted(w)
    BY <2>2, PlaceStep DEF SubmitAccepted
  <2>3. CASE SubmitAmbiguous(w)
    BY <2>3, PlaceStep, SilentStep DEF SubmitAmbiguous
  <2>4. CASE \/ WriteIntentRow(w) \/ Block(w) \/ PassGate(w) \/ MarkIntentRow(w)
             \/ ReconcileAmbiguous(w) \/ PollFilled(w) \/ Reconcile(w) \/ Stop(w)
    <3>1. UNCHANGED <<keys, orders>>
      BY <2>4 DEF WriteIntentRow, Block, PassGate, MarkIntentRow, ReconcileAmbiguous,
         PollFilled, Reconcile, Stop
    <3> QED
      BY <3>1, SilentStep
  <2> QED
    BY <1>1, <2>1, <2>2, <2>3, <2>4 DEF ExecuteStep, ExecuteProgress
<1>2. CASE OrderSteps
  <2>1. PICK i \in Intents : Cancel(i) \/ ExchangeFills(i)
    BY <1>2 DEF OrderSteps
  <2>2. /\ UNCHANGED keys
        /\ \A j \in Intents : (orders'[j] # "none") = (orders[j] # "none")
    BY <2>1 DEF Cancel, ExchangeFills, Inv, TypeOK
  <2> QED
    BY <2>2, SilentStep
<1>3. ASSUME NEW w \in Services, NEW k \in Keys, NEW i \in Intents, NEW b \in BOOLEAN,
             Begin(w, k, i, b)
      PROVE  UNCHANGED Placement!vars
  <2>1. UNCHANGED <<keys, orders>>
    BY <1>3 DEF Begin
  <2> QED
    BY <2>1, SilentStep
<1>4. CASE UNCHANGED vars
  <2>1. UNCHANGED <<keys, orders>>
    BY <1>4 DEF vars
  <2> QED
    BY <2>1, SilentStep
<1> QED
    BY <1>1, <1>2, <1>3, <1>4 DEF Next

\* orders/ledger.py implements the abstract ledger: keys are claimed once, and
\* only the claimant's order is placed, once.
THEOREM LedgerImplementsPlacement ==
    ASSUME Alone
    PROVE  Spec => ImplementsPlacement
<1>1. Init => Placement!Init
  <2> SUFFICES ASSUME Init PROVE Placement!Init
    OBVIOUS
  <2>1. Claims = [k \in Keys |-> NoIntent]
    BY DEF Init, Claims, NoRef
  <2>2. PlacedSet = {}
    BY DEF Init, PlacedSet, Placed
  <2> QED
    BY <2>1, <2>2 DEF Placement!Init, Claims, PlacedSet
<1>2. Inv /\ [Next]_vars => [Placement!Next]_(Placement!vars)
    BY StepRefines
<1> QED
    BY <1>1, <1>2, Invariant, PTL DEF Spec, ImplementsPlacement, Placement!Spec
=============================================================================
