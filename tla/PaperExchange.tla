--------------------------- MODULE PaperExchange ---------------------------
(***************************************************************************)
(* PaperExchange (exchange/paper.py): the simulated venue every paper path *)
(* trades on.  It keeps the orders, fills them against a price per symbol, *)
(* books the fills in a portfolio and manages the protective stop, target, *)
(* breakeven, partial take profit, trailing stop and mean-reversion exit   *)
(* of each position.                                                       *)
(*                                                                         *)
(* Each public method is one action, but for the two that loop: a price    *)
(* update walks the orders that were open when it began and then manages   *)
(* the position, and the end of day flattens position after position.      *)
(* call records how far such a loop got; no other method runs meanwhile.   *)
(***************************************************************************)
EXTENDS Portfolio, Sequences

CONSTANTS
    ClientIds,          \* client order ids a caller may use
    NoClient,           \* an order without client_order_id
    Requests,           \* the orders callers create
    Prices,             \* prices the market may take
    RuleSets,           \* arguments of configure_position_rules
    FeeBps, SlipBps,    \* FeeEngine and SlippageEngine, fixed rates
    PartialPct,         \* exit_quantity_percent of a partial take profit
    MaxApiFailures,     \* paper.max_consecutive_api_failures
    FlattenAtEod,       \* paper.flatten_at_eod
    SimulatedModes,     \* the failure modes an instance simulates
    MaxOrders,          \* bound: orders created in a behaviour
    ApiFailureBound     \* bound: the api failure counter

OrderTypes == {"MARKET", "LIMIT", "STOP", "STOP_LIMIT", "TAKE_PROFIT"}

RequestType == [client : ClientIds \cup {NoClient},
                symbol : Symbols,
                side   : {"BUY", "SELL"},
                type   : OrderTypes,
                qty    : Int,
                limit  : Price,
                stop   : Price,
                sl     : Price,
                tp     : Price]

RuleType == [be : BOOLEAN, partial : BOOLEAN, trail : Price, widen : BOOLEAN, sma : Price]

ASSUME ExchangeAssumption ==
    /\ NoClient \notin ClientIds
    /\ Requests \subseteq RequestType
    /\ Prices \subseteq Nat \ {0}
    /\ RuleSets \subseteq RuleType
    /\ FeeBps \in Nat
    /\ SlipBps \in Nat
    /\ PartialPct \in 1..100
    /\ MaxApiFailures \in Nat \ {0}
    /\ FlattenAtEod \in BOOLEAN
    /\ SimulatedModes \subseteq {"partial_fill", "rejected_order", "stale_market_data",
                                 "outage"}
    /\ MaxOrders \in Nat
    /\ ApiFailureBound \in Nat

VARIABLES
    orders,         \* self.orders, in order of creation
    seenClientIds,  \* self._seen_client_ids
    portfolio,      \* self.portfolio
    prices,         \* self.prices, NoPrice while unknown
    stale,          \* self.stale_symbols
    apiFailures,    \* self.api_failures
    halted,         \* self.halted
    failureMode,    \* self.failure_mode
    rules,          \* _be_flags, _partial_tp, trailing, _mean_reversion_exit
    tradesPnl,      \* the sum of net_pnl over self.trades
    exited,         \* history: quantity taken off each symbol by exits
    call,           \* the looping method in progress
    raised          \* an exception has escaped from on_price_update

vars == <<orders, seenClientIds, portfolio, prices, stale, apiFailures, halted,
          failureMode, rules, tradesPnl, exited, call, raised>>

OutageModes == {"outage"}   \* timeout, rate_limit, connection_error, exchange_unavailable
FailureModes == {"none", "partial_fill", "rejected_order", "stale_market_data"}
                \cup OutageModes

Terminal   == {"FILLED", "CANCELLED", "REJECTED", "EXPIRED"}
OpenStates == {"SUBMITTED", "PARTIALLY_FILLED"}

OrderType == [req : RequestType, status : Terminal \cup OpenStates, filled : Int]

NoRules == [be |-> FALSE, partial |-> "off", trail |-> NoPrice, widen |-> FALSE, sma |-> NoPrice]
RuleState == [be : BOOLEAN, partial : {"off", "armed", "done"},
              trail : Price, widen : BOOLEAN, sma : Price]

OrderIds == 1..Len(orders)
Idle == [op |-> "idle", symbol |-> 1, price |-> NoPrice, todo |-> {}]

Init ==
    /\ orders = <<>>
    /\ seenClientIds = {}
    /\ portfolio = EmptyPortfolio
    /\ prices = [s \in Symbols |-> NoPrice]
    /\ stale = {}
    /\ apiFailures = 0
    /\ halted = FALSE
    /\ failureMode = "none"
    /\ rules = [s \in Symbols |-> NoRules]
    /\ tradesPnl = 0
    /\ exited = [s \in Symbols |-> 0]
    /\ call = Idle
    /\ raised = FALSE

marketVars == <<prices, stale>>
guardVars  == <<apiFailures, halted, failureMode>>

-----------------------------------------------------------------------------
(* Fees, slippage and the booking of one fill *)

Fee(notional) == (notional * FeeBps) \div 10000

Slipped(side, px) ==
    LET slip == (px * SlipBps) \div 10000
    IN  IF side = "BUY" THEN px + slip ELSE px - slip

\* In partial_fill mode half of what remains, a single unit whole.
FillQty(o) ==
    LET remaining == o.req.qty - o.filled
    IN  IF failureMode = "partial_fill" /\ remaining > 0
        THEN (remaining + 1) \div 2
        ELSE remaining

\* Does filling o reduce an opposite position instead of opening one?
Reduces(p, o) ==
    p.positions[o.req.symbol].side = IF o.req.side = "BUY" THEN "SHORT" ELSE "LONG"

PositionSide(o) == IF o.req.side = "BUY" THEN "LONG" ELSE "SHORT"

\* Will the portfolio accept the fill, or raise?
CanBook(p, o, q, px) ==
    IF Reduces(p, o)
    THEN CanClose(p, o.req.symbol, q)
    ELSE CanOpen(p, o.req.symbol, PositionSide(o), q, px, Fee(q * px))

Booked(p, o, q, px) ==
    IF Reduces(p, o)
    THEN ClosePosition(p, o.req.symbol, q, px, Fee(q * px))
    ELSE OpenPosition(p, o.req.symbol, PositionSide(o), q, px, Fee(q * px),
                      o.req.sl, o.req.tp)

\* After a fill the order's own stop and target override those of whatever
\* position the symbol then has.
Protected(p, o) ==
    LET pos == p.positions[o.req.symbol] IN
    IF pos.side = "FLAT"
    THEN p
    ELSE [p EXCEPT !.positions[o.req.symbol] =
              [pos EXCEPT !.stop   = IF o.req.sl # NoPrice THEN o.req.sl ELSE @,
                          !.target = IF o.req.tp # NoPrice THEN o.req.tp ELSE @]]

\* Mutant: a fill replaces what was filled before.
AfterFill_Overwrites(o, q) ==
    [o EXCEPT !.filled = q,
              !.status = IF o.filled + q >= o.req.qty THEN "FILLED"
                                                      ELSE "PARTIALLY_FILLED"]

\* Mutant: every fill completes the order.
AfterFill_AlwaysFilled(o, q) == [o EXCEPT !.filled = @ + q, !.status = "FILLED"]

AfterFill(o, q) ==
    [o EXCEPT !.filled = @ + q,
              !.status = IF o.filled + q >= o.req.qty THEN "FILLED"
                                                      ELSE "PARTIALLY_FILLED"]

\* Mutant: the trade log forgets the fee.
RecordedPnl_Gross(p, o, q, px) ==
    IF Reduces(p, o) /\ o.req.side = "SELL"
    THEN ClosePnl(p.positions[o.req.symbol], q, px, 0)
    ELSE 0

\* Only a SELL that closes a LONG is recorded as a trade.
RecordedPnl(p, o, q, px) ==
    IF Reduces(p, o) /\ o.req.side = "SELL"
    THEN ClosePnl(p.positions[o.req.symbol], q, px, Fee(q * px))
    ELSE 0

\* _fill_market of order o at price px: what it leaves behind.
BookFill(o, px) ==
    LET q == FillQty(o) IN
    /\ CanBook(portfolio, o, q, px)
    /\ portfolio' = Protected(Booked(portfolio, o, q, px), o)
    /\ tradesPnl' = tradesPnl + RecordedPnl(portfolio, o, q, px)

CannotFill(o, px) == ~CanBook(portfolio, o, FillQty(o), px)

-----------------------------------------------------------------------------
(* When a resting order triggers, and the price it then fills at *)

TakeProfitPrice(o) == IF o.req.stop # NoPrice THEN o.req.stop ELSE o.req.limit

Triggered(o, px) ==
    CASE o.req.type = "LIMIT" ->
           o.req.limit # NoPrice /\ IF o.req.side = "BUY" THEN px <= o.req.limit
                                                       ELSE px >= o.req.limit
      [] o.req.type \in {"STOP", "STOP_LIMIT"} ->
           o.req.stop # NoPrice /\ IF o.req.side = "SELL" THEN px <= o.req.stop
                                                       ELSE px >= o.req.stop
      [] o.req.type = "TAKE_PROFIT" ->
           /\ TakeProfitPrice(o) # NoPrice
           /\ IF o.req.side = "SELL" THEN px >= TakeProfitPrice(o)
                                     ELSE px <= TakeProfitPrice(o)
      [] OTHER -> FALSE

FillPrice(o, px) ==
    CASE o.req.type = "LIMIT"      -> o.req.limit
      [] o.req.type = "STOP_LIMIT" ->
           Slipped(o.req.side, IF o.req.limit # NoPrice THEN o.req.limit ELSE px)
      [] OTHER                     -> Slipped(o.req.side, px)

-----------------------------------------------------------------------------
(* create_order *)

NewOrder(r, status) == [req |-> r, status |-> status, filled |-> 0]

\* Mutant: only orders that are still open count as duplicates.
IsDuplicate_OpenOnly(r) ==
    \E i \in OrderIds : /\ orders[i].status \in OpenStates
                        /\ orders[i].req.client = r.client
                        /\ r.client # NoClient

IsDuplicate(r) == r.client \in seenClientIds

\* The checks that refuse an order before it is submitted.
Refused(r) ==
    \/ IsDuplicate(r)
    \/ halted
    \/ failureMode \in OutageModes \cup {"rejected_order", "stale_market_data"}
    \/ r.qty <= 0
    \/ prices[r.symbol] = NoPrice
    \/ r.symbol \in stale

\* An outage is met after the duplicate and halt checks, before all others.
MeetsOutage(r) == ~IsDuplicate(r) /\ ~halted /\ failureMode \in OutageModes

\* The client id is consumed before any other check, whatever comes of it.
Submitting(r) ==
    /\ call = Idle
    /\ Len(orders) < MaxOrders
    /\ seenClientIds' = seenClientIds \cup ({r.client} \ {NoClient})

\* Mutant: the breaker trips one failure late.
RecordApiFailure_Late ==
    /\ apiFailures' = apiFailures + 1
    /\ halted' = (halted \/ apiFailures + 1 > MaxApiFailures)

RecordApiFailure ==
    /\ apiFailures' = apiFailures + 1
    /\ halted' = (halted \/ apiFailures + 1 >= MaxApiFailures)

RefuseOrder(r) ==
    /\ Submitting(r)
    /\ Refused(r)
    /\ orders' = Append(orders, NewOrder(r, "REJECTED"))
    /\ IF MeetsOutage(r)
       THEN RecordApiFailure
       ELSE UNCHANGED <<apiFailures, halted>>
    /\ UNCHANGED <<portfolio, prices, stale, failureMode, rules, tradesPnl, exited,
                   call, raised>>

FillsAtOnce(r) ==
    r.type = "MARKET" \/ (r.type = "LIMIT" /\ Triggered(NewOrder(r, "SUBMITTED"),
                                                        prices[r.symbol]))

RestOrder(r) ==
    /\ Submitting(r)
    /\ ~Refused(r)
    /\ ~FillsAtOnce(r)
    /\ orders' = Append(orders, NewOrder(r, "SUBMITTED"))
    /\ UNCHANGED <<portfolio, prices, stale, apiFailures, halted, failureMode, rules,
                   tradesPnl, exited, call, raised>>

FillNewOrder(r) ==
    LET o == NewOrder(r, "SUBMITTED") IN
    /\ Submitting(r)
    /\ ~Refused(r)
    /\ FillsAtOnce(r)
    /\ BookFill(o, FillPrice(o, prices[r.symbol]))
    /\ orders' = Append(orders, AfterFill(o, FillQty(o)))
    /\ UNCHANGED <<prices, stale, apiFailures, halted, failureMode, rules, exited,
                   call, raised>>

\* The portfolio raises: no cash, or less of the opposite position than asked.
RejectUnbookable(r) ==
    LET o == NewOrder(r, "SUBMITTED") IN
    /\ Submitting(r)
    /\ ~Refused(r)
    /\ FillsAtOnce(r)
    /\ CannotFill(o, FillPrice(o, prices[r.symbol]))
    /\ orders' = Append(orders, NewOrder(r, "REJECTED"))
    /\ UNCHANGED <<portfolio, prices, stale, apiFailures, halted, failureMode, rules,
                   tradesPnl, exited, call, raised>>

CreateOrder(r) ==
    RefuseOrder(r) \/ RestOrder(r) \/ FillNewOrder(r) \/ RejectUnbookable(r)

-----------------------------------------------------------------------------
(* cancel_order, expire_order *)

SetStatus(i, status) == orders' = [orders EXCEPT ![i].status = status]

EndOrder(i, status) ==
    /\ call = Idle
    /\ orders[i].status \in OpenStates
    /\ SetStatus(i, status)
    /\ UNCHANGED <<seenClientIds, portfolio, prices, stale, apiFailures, halted,
                   failureMode, rules, tradesPnl, exited, call, raised>>

CancelOrder(i) == EndOrder(i, "CANCELLED")
ExpireOrder(i) == EndOrder(i, "EXPIRED")

-----------------------------------------------------------------------------
(* Market data, failure simulation, halts and position rules *)

SetPrice(s, px) ==
    /\ call = Idle
    /\ prices' = [prices EXCEPT ![s] = px]
    /\ stale' = stale \ {s}
    /\ UNCHANGED <<orders, seenClientIds, portfolio, apiFailures, halted, failureMode,
                   rules, tradesPnl, exited, call, raised>>

MarkStale(s) ==
    /\ call = Idle
    /\ stale' = stale \cup {s}
    /\ UNCHANGED <<orders, seenClientIds, portfolio, prices, apiFailures, halted,
                   failureMode, rules, tradesPnl, exited, call, raised>>

SimulateFailure(mode) ==
    /\ call = Idle
    /\ apiFailures < ApiFailureBound
    /\ failureMode' = mode
    /\ IF mode \in OutageModes \cup {"stale_market_data"}
       THEN RecordApiFailure
       ELSE UNCHANGED <<apiFailures, halted>>
    /\ UNCHANGED <<orders, seenClientIds, portfolio, prices, stale, rules, tradesPnl,
                   exited, call, raised>>

\* Forgets the failures counted so far; a halt they caused stays.
ClearFailure ==
    /\ call = Idle
    /\ failureMode' = "none"
    /\ apiFailures' = 0
    /\ UNCHANGED <<orders, seenClientIds, portfolio, prices, stale, halted, rules,
                   tradesPnl, exited, call, raised>>

Halt ==
    /\ call = Idle
    /\ halted' = TRUE
    /\ UNCHANGED <<orders, seenClientIds, portfolio, prices, stale, apiFailures,
                   failureMode, rules, tradesPnl, exited, call, raised>>

ResetHalt ==
    /\ call = Idle
    /\ halted' = FALSE
    /\ apiFailures' = 0
    /\ failureMode' = "none"
    /\ UNCHANGED <<orders, seenClientIds, portfolio, prices, stale, rules, tradesPnl,
                   exited, call, raised>>

\* The breakeven flag is always set; the other rules only when they are given,
\* and they stay with the symbol when its position closes.
ConfigureRules(s, r) ==
    /\ call = Idle
    /\ rules' = [rules EXCEPT ![s] =
           [be      |-> r.be,
            partial |-> IF r.partial THEN "armed" ELSE @.partial,
            trail   |-> IF r.trail # NoPrice THEN r.trail ELSE @.trail,
            widen   |-> IF r.trail # NoPrice THEN r.widen ELSE @.widen,
            sma     |-> IF r.sma # NoPrice THEN r.sma ELSE @.sma]]
    /\ UNCHANGED <<orders, seenClientIds, portfolio, prices, stale, apiFailures, halted,
                   failureMode, tradesPnl, exited, call, raised>>

-----------------------------------------------------------------------------
(* on_price_update: set the price, walk the orders that are open, then      *)
(* manage the position.                                                     *)

\* Mutant: a cancelled order still triggers.
OpenOrders_WithCancelled(s) ==
    {i \in OrderIds : /\ orders[i].status \in OpenStates \cup {"CANCELLED"}
                     /\ orders[i].req.symbol = s}

OpenOrders(s) == {i \in OrderIds : orders[i].status \in OpenStates /\ orders[i].req.symbol = s}

PriceUpdate(s, px) ==
    /\ call = Idle
    /\ prices' = [prices EXCEPT ![s] = px]
    /\ stale' = stale \ {s}
    /\ call' = [op |-> "tick", symbol |-> s, price |-> px, todo |-> OpenOrders(s)]
    /\ UNCHANGED <<orders, seenClientIds, portfolio, apiFailures, halted, failureMode,
                   rules, tradesPnl, exited, raised>>

NextInTick(i) ==
    /\ call.op = "tick"
    /\ i \in call.todo
    /\ \A j \in call.todo : i <= j

DoneWith(i) == call' = [call EXCEPT !.todo = @ \ {i}]

TickSkip(i) ==
    /\ NextInTick(i)
    /\ ~Triggered(orders[i], call.price)
    /\ DoneWith(i)
    /\ UNCHANGED <<orders, seenClientIds, portfolio, prices, stale, apiFailures, halted,
                   failureMode, rules, tradesPnl, exited, raised>>

TickFill(i) ==
    /\ NextInTick(i)
    /\ Triggered(orders[i], call.price)
    /\ BookFill(orders[i], FillPrice(orders[i], call.price))
    /\ orders' = [orders EXCEPT ![i] = AfterFill(orders[i], FillQty(orders[i]))]
    /\ DoneWith(i)
    /\ UNCHANGED <<seenClientIds, prices, stale, apiFailures, halted, failureMode, rules,
                   exited, raised>>

TickReject(i) ==
    /\ NextInTick(i)
    /\ Triggered(orders[i], call.price)
    /\ CannotFill(orders[i], FillPrice(orders[i], call.price))
    /\ orders[i].status = "SUBMITTED"
    /\ SetStatus(i, "REJECTED")
    /\ DoneWith(i)
    /\ UNCHANGED <<seenClientIds, portfolio, prices, stale, apiFailures, halted,
                   failureMode, rules, tradesPnl, exited, raised>>

\* PARTIALLY_FILLED -> REJECTED is not in ORDER_TRANSITIONS: transition raises
\* inside the exception handler and the update ends there.
TickRaise(i) ==
    /\ NextInTick(i)
    /\ Triggered(orders[i], call.price)
    /\ CannotFill(orders[i], FillPrice(orders[i], call.price))
    /\ orders[i].status = "PARTIALLY_FILLED"
    /\ raised' = TRUE
    /\ call' = Idle
    /\ UNCHANGED <<orders, seenClientIds, portfolio, prices, stale, apiFailures, halted,
                   failureMode, rules, tradesPnl, exited>>

-----------------------------------------------------------------------------
(* _manage_open_position *)

Gain(pos, px) == IF pos.side = "LONG" THEN px - Entry(pos) ELSE Entry(pos) - px

Distance(a, b) == IF a > b THEN a - b ELSE b - a

Risk(pos) == IF pos.stop = NoPrice THEN 0 ELSE Distance(Entry(pos), pos.stop)

\* The price has moved in favour by the distance between entry and stop.
AtOneR(pos, px) == Risk(pos) > 0 /\ Gain(pos, px) >= Risk(pos)

\* Is stop a looser than stop b for this position?
Looser(pos, a, b) == IF pos.side = "LONG" THEN a < b ELSE a > b

AfterBreakeven(pos, px, r) ==
    IF r.be /\ AtOneR(pos, px) /\ Looser(pos, pos.stop, Entry(pos))
    THEN [pos EXCEPT !.stop = Entry(pos)]
    ELSE pos

TakesPartial(pos, px, r) == r.partial = "armed" /\ AtOneR(pos, px)

PartialQty(pos) == (pos.qty * PartialPct + 99) \div 100

StopHit(pos, px) ==
    pos.stop # NoPrice /\ IF pos.side = "LONG" THEN px <= pos.stop ELSE px >= pos.stop

TargetHit(pos, px) ==
    pos.target # NoPrice /\ IF pos.side = "LONG" THEN px >= pos.target ELSE px <= pos.target

TrailCandidate(pos, px, r) == IF pos.side = "LONG" THEN px - r.trail ELSE px + r.trail

\* Mutant: the stop follows the price both ways.
KeepsStop_NoRatchet(pos, px, r) == r.trail = NoPrice

\* TrailingStopEngine.update: ratchet towards the candidate.
KeepsStop(pos, px, r) ==
    \/ r.trail = NoPrice
    \/ /\ pos.stop # NoPrice
       /\ ~r.widen
       /\ ~Looser(pos, pos.stop, TrailCandidate(pos, px, r))

Trailed(pos, px, r) ==
    IF KeepsStop(pos, px, r) THEN pos.stop ELSE TrailCandidate(pos, px, r)

MeanReverted(pos, px, r) ==
    r.sma # NoPrice /\ IF pos.side = "LONG" THEN px <= r.sma ELSE px >= r.sma

\* Breakeven first, then the partial take profit, both judged on the stop that
\* the position had when the price arrived.
AfterPartial(p, s, px, r) ==
    LET pos == p.positions[s]
        be  == [p EXCEPT !.positions[s] = AfterBreakeven(pos, px, r)]
        q   == PartialQty(pos)
    IN  IF TakesPartial(pos, px, r) THEN ClosePosition(be, s, q, px, Fee(q * px)) ELSE be

\* Mutant: a price exactly at the stop does not exit.
MustExit_PastStop(pos, px, r) ==
    /\ pos.side # "FLAT"
    /\ \/ StopHit(pos, px) /\ px # pos.stop
       \/ TargetHit(pos, px)
       \/ MeanReverted(pos, px, r)

MustExit(pos, px, r) ==
    pos.side # "FLAT" /\ (StopHit(pos, px) \/ TargetHit(pos, px) \/ MeanReverted(pos, px, r))

ExitFee(pos, px) == Fee(pos.qty * px)

ManageNothing ==
    LET s == call.symbol IN
    /\ call.op = "tick" /\ call.todo = {}
    /\ portfolio.positions[s].side = "FLAT"
    /\ call' = Idle
    /\ UNCHANGED <<orders, seenClientIds, portfolio, prices, stale, apiFailures, halted,
                   failureMode, rules, tradesPnl, exited, raised>>

ManagePosition ==
    LET s    == call.symbol
        px   == call.price
        r    == rules[s]
        pos0 == portfolio.positions[s]
        p1   == AfterPartial(portfolio, s, px, r)
        pos1 == p1.positions[s]
    IN
    /\ call.op = "tick" /\ call.todo = {}
    /\ pos0.side # "FLAT"
    /\ rules' = [rules EXCEPT ![s].partial = IF TakesPartial(pos0, px, r) THEN "done" ELSE @]
    /\ \/ /\ MustExit(pos1, px, r)
          /\ portfolio' = ClosePosition(p1, s, pos1.qty, px, ExitFee(pos1, px))
          /\ tradesPnl' = tradesPnl + ClosePnl(pos1, pos1.qty, px, ExitFee(pos1, px))
       \/ /\ ~MustExit(pos1, px, r)
          /\ portfolio' = IF pos1.side = "FLAT"
                          THEN p1
                          ELSE [p1 EXCEPT !.positions[s].stop = Trailed(pos1, px, r)]
          /\ UNCHANGED tradesPnl
    /\ exited' = [exited EXCEPT ![s] =
                     @ + SignedQty(pos0) - SignedQty(portfolio'.positions[s])]
    /\ call' = Idle
    /\ UNCHANGED <<orders, seenClientIds, prices, stale, apiFailures, halted, failureMode,
                   raised>>

-----------------------------------------------------------------------------
(* end_of_day: cancel what is open and, if configured, flatten every        *)
(* position at the last price.                                              *)

Held == {s \in Symbols : portfolio.positions[s].side # "FLAT"}

EndOfDay ==
    /\ call = Idle
    /\ orders' = [i \in OrderIds |->
                     IF orders[i].status \in OpenStates
                     THEN [orders[i] EXCEPT !.status = "CANCELLED"]
                     ELSE orders[i]]
    /\ call' = IF FlattenAtEod /\ Held # {} THEN [Idle EXCEPT !.op = "eod", !.todo = Held]
                                            ELSE Idle
    /\ UNCHANGED <<seenClientIds, portfolio, prices, stale, apiFailures, halted,
                   failureMode, rules, tradesPnl, exited, raised>>

EodFlatten(s) ==
    LET pos == portfolio.positions[s]
        fee == ExitFee(pos, prices[s])
    IN
    /\ call.op = "eod"
    /\ s \in call.todo
    /\ portfolio' = ClosePosition(portfolio, s, pos.qty, prices[s], fee)
    /\ tradesPnl' = tradesPnl + ClosePnl(pos, pos.qty, prices[s], fee)
    /\ exited' = [exited EXCEPT ![s] = @ + SignedQty(pos)]
    /\ call' = IF call.todo = {s} THEN Idle ELSE [call EXCEPT !.todo = @ \ {s}]
    /\ UNCHANGED <<orders, seenClientIds, prices, stale, apiFailures, halted, failureMode,
                   rules, raised>>

-----------------------------------------------------------------------------
OrderCalls ==
    \/ \E r \in Requests : CreateOrder(r)
    \/ \E i \in OrderIds : CancelOrder(i) \/ ExpireOrder(i)

MarketCalls ==
    \/ \E s \in Symbols, px \in Prices : SetPrice(s, px) \/ PriceUpdate(s, px)
    \/ \E s \in Symbols : MarkStale(s)

GuardCalls ==
    \/ \E mode \in SimulatedModes : SimulateFailure(mode)
    \/ ClearFailure
    \/ Halt
    \/ ResetHalt
    \/ \E s \in Symbols, r \in RuleSets : ConfigureRules(s, r)
    \/ EndOfDay

TickSteps ==
    \/ \E i \in OrderIds : TickSkip(i) \/ TickFill(i) \/ TickReject(i) \/ TickRaise(i)
    \/ ManageNothing
    \/ ManagePosition

Next ==
    \/ OrderCalls
    \/ MarketCalls
    \/ GuardCalls
    \/ TickSteps
    \/ \E s \in Symbols : EodFlatten(s)

Spec == Init /\ [][Next]_vars

-----------------------------------------------------------------------------
(* Properties *)

\* Every variable keeps its type; the fields of an order stay in range.
TypeOK ==
    /\ orders \in Seq(OrderType)
    /\ seenClientIds \subseteq ClientIds
    /\ portfolio \in PortfolioType
    /\ prices \in [Symbols -> Price]
    /\ stale \subseteq Symbols
    /\ apiFailures \in Nat
    /\ halted \in BOOLEAN
    /\ failureMode \in FailureModes
    /\ rules \in [Symbols -> RuleState]
    /\ tradesPnl \in Int
    /\ exited \in [Symbols -> Int]
    /\ call \in [op : {"idle", "tick", "eod"}, symbol : Symbols, price : Price,
                 todo : SUBSET Nat]
    /\ raised \in BOOLEAN

(***************************************************************************)
(* The accounts balance (see Portfolio): every way a fill, a partial take  *)
(* profit, a protective exit or the end of day moves cash must agree.      *)
(***************************************************************************)
CashExplained == Balanced(portfolio)

\* Positions are well formed (see Portfolio) after any mix of opens, partial
\* closes and exits.
PositionsWellFormed == WellFormed(portfolio)

(***************************************************************************)
(* The position of each symbol is what the symbol's orders filled, BUY     *)
(* less SELL, less what exits took off: no fill is lost, doubled, or       *)
(* booked on an order that says it did not fill.                           *)
(***************************************************************************)
SignedFill(o) == IF o.req.side = "BUY" THEN o.filled ELSE 0 - o.filled

FilledOn(s, o) == IF o.req.symbol = s THEN SignedFill(o) ELSE 0

NetFilled(s, os) == Total(Len(os), [i \in 1..Len(os) |-> FilledOn(s, os[i])])

FillsExplainPositions ==
    \A s \in Symbols : SignedQty(portfolio.positions[s]) + exited[s] = NetFilled(s, orders)

(***************************************************************************)
(* An order is FILLED exactly when its whole quantity is, PARTIALLY_FILLED *)
(* strictly in between; a REJECTED order never filled anything, though it  *)
(* may have been tried again and again while it rested.                    *)
(***************************************************************************)
StatusMatches(o) ==
    CASE o.status = "FILLED"           -> o.filled = o.req.qty
      [] o.status = "PARTIALLY_FILLED" -> 0 < o.filled /\ o.filled < o.req.qty
      [] o.status = "SUBMITTED"        -> o.filled = 0 /\ o.req.qty > 0
      [] o.status = "REJECTED"         -> o.filled = 0
      [] OTHER                         -> 0 <= o.filled /\ o.filled < o.req.qty

StatusMatchesFills == \A i \in OrderIds : StatusMatches(orders[i])

\* At most one of the orders with one client id was ever accepted.
ClientIdAcceptedOnce ==
    \A i, j \in OrderIds :
        /\ i # j
        /\ orders[i].req.client = orders[j].req.client
        /\ orders[i].req.client # NoClient
        => "REJECTED" \in {orders[i].status, orders[j].status}

\* The breaker latches: as long as the counted failures reach the limit, the
\* exchange is halted, whichever path counted them.
BreakerLatched == apiFailures >= MaxApiFailures => halted

(***************************************************************************)
(* Managing a position on a price never loosens its stop, whatever mix of  *)
(* breakeven, partial exit and trailing is configured, unless the trailing *)
(* rule says it may widen.                                                 *)
(***************************************************************************)
NeverLooser(s) ==
    LET before == portfolio.positions[s]
        after  == portfolio'.positions[s]
    IN  /\ call.op = "tick" /\ call.todo = {} /\ call.symbol = s
        /\ before.stop # NoPrice /\ after.side = before.side /\ ~rules[s].widen
        => after.stop # NoPrice /\ ~Looser(before, after.stop, before.stop)

StopsNeverLoosen == [][\A s \in Symbols : NeverLooser(s)]_vars

(***************************************************************************)
(* No position survives a price update with the price through its stop or  *)
(* its target: what is left is protected as far as the update is concerned.*)
(* A trailing distance keeps the new stop on the safe side of the price.   *)
(***************************************************************************)
TickEnds == call.op = "tick" /\ call.todo = {} /\ call' = Idle

StopsHonoured ==
    [][TickEnds =>
          LET pos == portfolio'.positions[call.symbol]
          IN  pos.side # "FLAT" =>
                  ~StopHit(pos, call.price) /\ ~TargetHit(pos, call.price)]_vars

(***************************************************************************)
(* The exchange keeps what OrderLifecycle promises: whatever mix of fills, *)
(* partial fills, rejections, cancels, expiries and end-of-day sweeps      *)
(* happens, an order never fills beyond its quantity, never changes after  *)
(* it has ended, and is never rejected once any of it filled.              *)
(***************************************************************************)
Lifecycle == INSTANCE OrderLifecycle WITH
    book <- [i \in OrderIds |-> [qty    |-> orders[i].req.qty,
                                 filled |-> orders[i].filled,
                                 status |-> orders[i].status]]

ImplementsLifecycle == Lifecycle!Spec

(***************************************************************************)
(* The trade log agrees with the portfolio: a step that realises a result  *)
(* logs the same result as a trade, but for the two paths on which the     *)
(* code logs nothing: an order that buys back a SHORT, and the partial     *)
(* take profit.                                                            *)
(***************************************************************************)
BuysBack ==
    \E s \in Symbols :
        /\ portfolio.positions[s].side = "SHORT"
        /\ portfolio'.positions[s] # portfolio.positions[s]
        /\ exited' = exited

PartialExit == \E s \in Symbols : rules[s].partial = "armed" /\ rules'[s].partial = "done"

ResultsLogged ==
    [][\/ portfolio'.realized - portfolio.realized = tradesPnl' - tradesPnl
       \/ BuysBack
       \/ PartialExit]_vars
-----------------------------------------------------------------------------
(* What the documentation says of the exchange, and the code does not do *)

(***************************************************************************)
(* docs/ORDER_LIFECYCLE.md: any open state may become REJECTED, so a fill  *)
(* that the portfolio refuses ends its order and nothing else.             *)
(***************************************************************************)
UpdateNeverRaises == ~raised
=============================================================================
