------------------------- MODULE SandboxExecution -------------------------
(***************************************************************************)
(* SandboxExecutionService (sandbox/execution.py) with the order intent    *)
(* ledger (orders/ledger.py) and the lifecycle machine of one call         *)
(* (sandbox/lifecycle.py).                                                 *)
(*                                                                         *)
(* The ledger is two collections of a store that commits every write, so   *)
(* a service takes a step for each write of the store and each request to  *)
(* the exchange, and may stop between any two of them: a crash of its      *)
(* process, or an exception that leaves execute.  The exchange is external *)
(* and may lose a request or an answer.                                    *)
(***************************************************************************)
CONSTANTS
    Services,   \* the execution services that share the store
    Keys,       \* idempotency keys
    Intents,    \* fresh intent ids, which are also the client order ids
    NoIntent,
    NoKey,
    FillsAtOnce \* does the exchange fill a market order before it answers?

ASSUME SandboxAssumption ==
    /\ NoIntent \notin Intents
    /\ NoKey \notin Keys
    /\ FillsAtOnce \in BOOLEAN

VARIABLES
    intents,    \* collection order_intents
    keys,       \* collection order_idempotency
    orders,     \* the exchange: what became of the order of each intent
    report,     \* the latest reconciliation report
    call        \* where execute is, for each service

vars == <<intents, keys, orders, report, call>>

Statuses == {"PERSISTED", "SUBMITTING", "SUBMITTED", "FILLED", "FAILED"}

NoRow == [key |-> NoKey, status |-> "absent"]
NoRef == [intent |-> NoIntent, status |-> "absent"]

Rows == [key : Keys \cup {NoKey}, status : Statuses \cup {"absent"}]
Refs == [intent : Intents \cup {NoIntent}, status : Statuses \cup {"absent"}]

-----------------------------------------------------------------------------
(* The lifecycle machine.  A transition that is not listed raises.         *)

Transitions ==
    [CREATE_INTENT     |-> {"RISK_CHECK", "BLOCKED", "FAILED"},
     RISK_CHECK        |-> {"IDEMPOTENCY_CHECK", "BLOCKED", "FAILED"},
     IDEMPOTENCY_CHECK |-> {"SUBMIT", "BLOCKED", "FAILED"},
     SUBMIT            |-> {"ACK", "RECONCILIATION", "FAILED"},
     ACK               |-> {"OPEN_NEW", "PARTIAL_FILL", "FULL_FILL", "CANCEL", "FAILED"},
     OPEN_NEW          |-> {"PARTIAL_FILL", "FULL_FILL", "CANCEL", "FAILED"},
     PARTIAL_FILL      |-> {"FULL_FILL", "CANCEL", "POSITION_UPDATE", "FAILED"},
     FULL_FILL         |-> {"POSITION_UPDATE", "CLOSE", "RECONCILIATION"},
     POSITION_UPDATE   |-> {"CLOSE", "RECONCILIATION", "CANCEL"},
     CANCEL            |-> {"CLOSE", "RECONCILIATION"},
     CLOSE             |-> {"RECONCILIATION"},
     RECONCILIATION    |-> {},
     FAILED            |-> {"RECONCILIATION"},
     BLOCKED           |-> {},
     ILLEGAL           |-> {}]

LifecycleStates == DOMAIN Transitions

Moved(life, target) == IF target \in Transitions[life] THEN target ELSE "ILLEGAL"

-----------------------------------------------------------------------------
(* One call of execute *)

Places == {"idle", "write_intent", "write_key", "gate", "mark_intent", "mark_key",
           "submit", "ambiguous", "poll", "reconcile"}

Calls == [pc      : Places,
          key     : Keys \cup {NoKey},
          intent  : Intents \cup {NoIntent},
          blocked : BOOLEAN,                    \* kill switch, stale market or risk
          mark    : Statuses,                   \* the status being written by mark
          life    : LifecycleStates]

Idle == [pc |-> "idle", key |-> NoKey, intent |-> NoIntent, blocked |-> FALSE,
         mark |-> "PERSISTED", life |-> "CREATE_INTENT"]

Active(w) == call[w].pc # "idle"

Fresh(i) == intents[i] = NoRow /\ \A w \in Services : call[w].intent # i

Return(w) == call' = [call EXCEPT ![w] = Idle]

Goto(w, pc, life) == call' = [call EXCEPT ![w].pc = pc, ![w].life = life]

\* ledger.mark: first the row of the intent, then the row of its key.
GotoMark(w, status, life) ==
    call' = [call EXCEPT ![w].pc = "mark_intent", ![w].mark = status, ![w].life = life]

\* Mutant: persist does not look for another holder of the key.
Begin_NoKeyCheck(w, k, i, blocked) ==
    /\ ~Active(w)
    /\ Fresh(i)
    /\ call' = [call EXCEPT ![w] = [Idle EXCEPT !.pc      = "write_intent",
                                                !.key     = k,
                                                !.intent  = i,
                                                !.blocked = blocked]]
    /\ UNCHANGED <<intents, keys, orders, report>>

\* persist, first half: a key that another intent holds raises DuplicateOrderError.
Begin(w, k, i, blocked) ==
    /\ ~Active(w)
    /\ Fresh(i)
    /\ keys[k] = NoRef
    /\ call' = [call EXCEPT ![w] = [Idle EXCEPT !.pc      = "write_intent",
                                                !.key     = k,
                                                !.intent  = i,
                                                !.blocked = blocked]]
    /\ UNCHANGED <<intents, keys, orders, report>>

WriteIntentRow(w) ==
    /\ call[w].pc = "write_intent"
    /\ intents' = [intents EXCEPT ![call[w].intent] =
                      [key |-> call[w].key, status |-> "PERSISTED"]]
    /\ Goto(w, "write_key", call[w].life)
    /\ UNCHANGED <<keys, orders, report>>

WriteKeyRow(w) ==
    /\ call[w].pc = "write_key"
    /\ keys' = [keys EXCEPT ![call[w].key] =
                   [intent |-> call[w].intent, status |-> "PERSISTED"]]
    /\ Goto(w, "gate", Moved(call[w].life, "RISK_CHECK"))
    /\ UNCHANGED <<intents, orders, report>>

\* Another service took the key between persist's check and its write.
LostKey(w) == LET ref == keys[call[w].key] IN ref # NoRef /\ ref.intent # call[w].intent

\* The intent stays PERSISTED and keeps its key.
Block(w) ==
    /\ call[w].pc = "gate"
    /\ call[w].blocked \/ LostKey(w)
    /\ Return(w)
    /\ UNCHANGED <<intents, keys, orders, report>>

\* Mutant: a blocked call is sent all the same.
PassGate_IgnoresBlock(w) ==
    /\ call[w].pc = "gate"
    /\ ~LostKey(w)
    /\ GotoMark(w, "SUBMITTING", Moved(Moved(call[w].life, "IDEMPOTENCY_CHECK"), "SUBMIT"))
    /\ UNCHANGED <<intents, keys, orders, report>>

PassGate(w) ==
    /\ call[w].pc = "gate"
    /\ ~call[w].blocked
    /\ ~LostKey(w)
    /\ GotoMark(w, "SUBMITTING", Moved(Moved(call[w].life, "IDEMPOTENCY_CHECK"), "SUBMIT"))
    /\ UNCHANGED <<intents, keys, orders, report>>

MarkIntentRow(w) ==
    /\ call[w].pc = "mark_intent"
    /\ intents' = [intents EXCEPT ![call[w].intent].status = call[w].mark]
    /\ Goto(w, "mark_key", call[w].life)
    /\ UNCHANGED <<keys, orders, report>>

\* What execute does once a status is marked.
AfterMark(w) ==
    LET life == call[w].life IN
    CASE call[w].mark = "SUBMITTING" -> Goto(w, "submit", life)
      [] call[w].mark = "SUBMITTED"  -> Goto(w, "poll", Moved(life, "OPEN_NEW"))
      [] call[w].mark = "FILLED"     ->
           Goto(w, "reconcile", Moved(Moved(life, "CLOSE"), "RECONCILIATION"))
      [] OTHER                       -> Return(w)

MarkKeyRow(w) ==
    /\ call[w].pc = "mark_key"
    /\ keys' = [keys EXCEPT ![call[w].key] =
                   [intent |-> call[w].intent, status |-> call[w].mark]]
    /\ AfterMark(w)
    /\ UNCHANGED <<intents, orders, report>>

\* The order reaches the exchange, which may fill it before it answers.
Place(i) ==
    orders' = [orders EXCEPT ![i] = IF FillsAtOnce THEN "filled" ELSE "open"]

SubmitAccepted(w) ==
    /\ call[w].pc = "submit"
    /\ Place(call[w].intent)
    /\ GotoMark(w, "SUBMITTED", Moved(call[w].life, "ACK"))
    /\ UNCHANGED <<intents, keys, report>>

\* submit_order turns every exception into the ambiguous answer: the order may
\* or may not have reached the exchange.
SubmitAmbiguous(w) ==
    /\ call[w].pc = "submit"
    /\ Place(call[w].intent) \/ UNCHANGED orders
    /\ Goto(w, "ambiguous", Moved(call[w].life, "RECONCILIATION"))
    /\ UNCHANGED <<intents, keys, report>>

(* ReconciliationService.compare, of two snapshots that are there; an       *)
(* exchange that gives none raises before it.                               *)
Compare(local, exchange) == IF local = exchange THEN "RECONCILED" ELSE "DRIFT_DETECTED"

\* _reconcile compares the exchange's snapshot with itself.
ReconcileAmbiguous(w) ==
    /\ call[w].pc = "ambiguous"
    /\ report' = Compare(orders, orders)
    /\ GotoMark(w, "FAILED", call[w].life)
    /\ UNCHANGED <<intents, keys, orders>>

\* get_order drops the status that the exchange reports, so every order that
\* was acknowledged counts as filled.
PollFilled(w) ==
    /\ call[w].pc = "poll"
    /\ GotoMark(w, "FILLED", Moved(Moved(call[w].life, "FULL_FILL"), "POSITION_UPDATE"))
    /\ UNCHANGED <<intents, keys, orders, report>>

Reconcile(w) ==
    /\ call[w].pc = "reconcile"
    /\ report' = Compare(orders, orders)
    /\ Return(w)
    /\ UNCHANGED <<intents, keys, orders>>

\* An exception out of execute, or the end of its process, at any point.
Stop(w) ==
    /\ Active(w)
    /\ Return(w)
    /\ UNCHANGED <<intents, keys, orders, report>>

ExecuteProgress(w) ==
    \/ WriteIntentRow(w)
    \/ WriteKeyRow(w)
    \/ Block(w)
    \/ PassGate(w)
    \/ MarkIntentRow(w)
    \/ MarkKeyRow(w)
    \/ SubmitAccepted(w)
    \/ SubmitAmbiguous(w)
    \/ ReconcileAmbiguous(w)
    \/ PollFilled(w)
    \/ Reconcile(w)

ExecuteStep(w) == ExecuteProgress(w) \/ Stop(w)

-----------------------------------------------------------------------------
(* cancel and cancel_all, which cancels the open orders one by one, and the *)
(* exchange on its own.                                                     *)

Cancel(i) ==
    /\ orders[i] = "open"
    /\ orders' = [orders EXCEPT ![i] = "cancelled"]
    /\ UNCHANGED <<intents, keys, report, call>>

ExchangeFills(i) ==
    /\ orders[i] = "open"
    /\ orders' = [orders EXCEPT ![i] = "filled"]
    /\ UNCHANGED <<intents, keys, report, call>>

OrderSteps == \E i \in Intents : Cancel(i) \/ ExchangeFills(i)

Init ==
    /\ intents = [i \in Intents |-> NoRow]
    /\ keys = [k \in Keys |-> NoRef]
    /\ orders = [i \in Intents |-> "none"]
    /\ report = "none"
    /\ call = [w \in Services |-> Idle]

Next ==
    \/ \E w \in Services, k \in Keys, i \in Intents, b \in BOOLEAN : Begin(w, k, i, b)
    \/ \E w \in Services : ExecuteStep(w)
    \/ OrderSteps

Spec == Init /\ [][Next]_vars

-----------------------------------------------------------------------------
(* Properties *)

TypeOK ==
    /\ intents \in [Intents -> Rows]
    /\ keys \in [Keys -> Refs]
    /\ orders \in [Intents -> {"none", "open", "filled", "cancelled"}]
    /\ report \in {"none", "RECONCILED"}
    /\ call \in [Services -> Calls]

Placed(i) == orders[i] # "none"

(***************************************************************************)
(* orders/ledger.py, "durable idempotency across restarts": however often  *)
(* a service stops and its caller tries again with the same key, and       *)
(* whatever the exchange loses, at most one order of a key is ever placed. *)
(***************************************************************************)
OneOrderPerKey ==
    \A i, j \in Intents :
        Placed(i) /\ Placed(j) /\ intents[i].key = intents[j].key => i = j

(***************************************************************************)
(* docs/ORDER_INTENT_LEDGER.md, persisted before submission: an order at   *)
(* the exchange always has a row that says it was being submitted, and the *)
(* row of its key leads to it, so that a restarted service can find it.    *)
(***************************************************************************)
PersistedFirst == \A i \in Intents : Placed(i) => intents[i].status \notin {"absent", "PERSISTED"}

FoundByKey == \A i \in Intents : Placed(i) => keys[intents[i].key].intent = i

(***************************************************************************)
(* A stop between the two writes of the ledger leaves the row of the key   *)
(* at most one status behind the row of the intent it names.               *)
(***************************************************************************)
Successors ==
    {<<"PERSISTED", "SUBMITTING">>, <<"SUBMITTING", "SUBMITTED">>,
     <<"SUBMITTING", "FAILED">>, <<"SUBMITTED", "FILLED">>}

KeyRowTrails ==
    \A k \in Keys :
        keys[k] # NoRef =>
            LET row == intents[keys[k].intent] IN
            /\ row.key = k
            /\ \/ row.status = keys[k].status
               \/ <<keys[k].status, row.status>> \in Successors

(***************************************************************************)
(* A status only moves forward, whichever service writes it: an intent     *)
(* that failed or filled keeps that status.                                *)
(***************************************************************************)
StatusMovesForward ==
    [][\A i \in Intents :
          \/ intents'[i] = intents[i]
          \/ intents[i] = NoRow /\ intents'[i].status = "PERSISTED"
          \/ <<intents[i].status, intents'[i].status>> \in Successors]_vars

(***************************************************************************)
(* A call that the kill switch, stale data or the risk engine blocks       *)
(* places nothing at the exchange, on any path through execute.            *)
(***************************************************************************)
BlockedNeverPlaced ==
    \A w \in Services : Active(w) /\ call[w].blocked => ~Placed(call[w].intent)

(***************************************************************************)
(* The ledger keeps what OrderPlacement promises.                          *)
(***************************************************************************)
Placement == INSTANCE OrderPlacement WITH
    claim  <- [k \in Keys |-> keys[k].intent],
    placed <- {i \in Intents : Placed(i)}

ImplementsPlacement == Placement!Spec

-----------------------------------------------------------------------------
(* What the documentation says of sandbox execution, and the code does not *)
(* do.                                                                     *)

(***************************************************************************)
(* docs/STAGE2_CLOUD_PAPER.md, reconcile before retry: once the ambiguous  *)
(* submit was reconciled, an intent that is marked FAILED has no order at  *)
(* the exchange, so that the next cycle may trade again.                   *)
(***************************************************************************)
FailedHasNoOrder == \A i \in Intents : intents[i].status = "FAILED" => ~Placed(i)
=============================================================================
