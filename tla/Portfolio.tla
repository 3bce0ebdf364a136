----------------------------- MODULE Portfolio -----------------------------
(***************************************************************************)
(* PortfolioManager (portfolio/manager.py): the deterministic ledger of a  *)
(* paper account.  A portfolio is a value, the operators below are its     *)
(* methods, and the exchange that owns the portfolio holds it in a         *)
(* variable.                                                               *)
(*                                                                         *)
(* Amounts are integers.  The average entry price of the code is kept as   *)
(* the pair (qty, basis) with basis = average * quantity, so averaging and *)
(* partial closes lose nothing: a partial close releases its share of the  *)
(* basis, rounded down to the unit.                                        *)
(***************************************************************************)
EXTENDS RunningTotal

CONSTANTS
    NumSymbols,     \* symbols are numbered 1..NumSymbols
    StartingCash,   \* PortfolioManager(starting_cash)
    NoPrice         \* an absent price: no stop, no target, no limit

ASSUME PortfolioAssumption ==
    /\ NumSymbols \in Nat \ {0}
    /\ StartingCash \in Nat
    /\ NoPrice \notin Int

Symbols == 1..NumSymbols

Price == (Nat \ {0}) \cup {NoPrice}     \* a price of an order or the market, if any
Level == Int \cup {NoPrice}  \* a stop or target, which trailing may move below 0

Position == [side   : {"FLAT", "LONG", "SHORT"},
             qty    : Nat,
             basis  : Int,
             stop   : Level,
             target : Level]

Flat == [side |-> "FLAT", qty |-> 0, basis |-> 0, stop |-> NoPrice, target |-> NoPrice]

(***************************************************************************)
(* realized is net of the fees paid on closing; feesPaid counts every fee. *)
(* entryFees is history: the part of feesPaid that was paid on opening.    *)
(***************************************************************************)
PortfolioType == [cash      : Int,
                  realized  : Int,
                  feesPaid  : Int,
                  entryFees : Int,
                  positions : [Symbols -> Position]]

EmptyPortfolio == [cash      |-> StartingCash,
                   realized  |-> 0,
                   feesPaid  |-> 0,
                   entryFees |-> 0,
                   positions |-> [s \in Symbols |-> Flat]]

-----------------------------------------------------------------------------
SignedQty(pos) ==
    CASE pos.side = "LONG"  -> pos.qty
      [] pos.side = "SHORT" -> -pos.qty
      [] OTHER              -> 0

SignedBasis(pos) ==
    CASE pos.side = "LONG"  -> pos.basis
      [] pos.side = "SHORT" -> -pos.basis
      [] OTHER              -> 0

\* average_entry_price
Entry(pos) == IF pos.qty = 0 THEN 0 ELSE pos.basis \div pos.qty

-----------------------------------------------------------------------------
(***************************************************************************)
(* open_position.  The guard is what must hold for the call to return: the *)
(* quantity and price are positive, a LONG is paid for from cash (a SHORT  *)
(* is not checked), and no opposite position exists.                       *)
(***************************************************************************)
CanOpen(p, s, side, q, px, fee) ==
    /\ q > 0
    /\ px > 0
    /\ side = "LONG" => q * px + fee <= p.cash
    /\ p.positions[s].side \in {"FLAT", side}

OpenCashFlow(side, notional, fee) ==
    IF side = "LONG" THEN -(notional + fee) ELSE notional - fee

\* Adding to a position keeps its stop and target.
Grown(pos, side, q, notional, sl, tp) ==
    IF pos.side = side
    THEN [pos EXCEPT !.qty = @ + q, !.basis = @ + notional]
    ELSE [side |-> side, qty |-> q, basis |-> notional, stop |-> sl, target |-> tp]

OpenPosition(p, s, side, q, px, fee, sl, tp) ==
    [p EXCEPT !.cash         = @ + OpenCashFlow(side, q * px, fee),
              !.feesPaid     = @ + fee,
              !.entryFees    = @ + fee,
              !.positions[s] = Grown(@, side, q, q * px, sl, tp)]

(***************************************************************************)
(* close_position, of q out of the quantity held.                          *)
(***************************************************************************)
CanClose(p, s, q) ==
    /\ p.positions[s].side # "FLAT"
    /\ 0 < q /\ q <= p.positions[s].qty

ReleasedBasis(pos, q) ==
    IF q = pos.qty THEN pos.basis ELSE (pos.basis * q) \div pos.qty

ClosePnl(pos, q, px, fee) ==
    IF pos.side = "LONG"
    THEN q * px - ReleasedBasis(pos, q) - fee
    ELSE ReleasedBasis(pos, q) - q * px - fee

\* Mutant: the fee of a close is not paid.
CloseCashFlow_NoFee(pos, q, px, fee) ==
    IF pos.side = "LONG" THEN q * px ELSE -(q * px)

CloseCashFlow(pos, q, px, fee) ==
    IF pos.side = "LONG" THEN q * px - fee ELSE -(q * px + fee)

Shrunk(pos, q) ==
    IF q = pos.qty
    THEN Flat
    ELSE [pos EXCEPT !.qty = @ - q, !.basis = @ - ReleasedBasis(pos, q)]

ClosePosition(p, s, q, px, fee) ==
    LET pos == p.positions[s] IN
    [p EXCEPT !.cash         = @ + CloseCashFlow(pos, q, px, fee),
              !.realized     = @ + ClosePnl(pos, q, px, fee),
              !.feesPaid     = @ + fee,
              !.positions[s] = Shrunk(pos, q)]
-----------------------------------------------------------------------------
(* What every portfolio satisfies *)

(***************************************************************************)
(* A held position has a positive quantity and cost, and a symbol without  *)
(* a position keeps no stop, target or cost behind.                        *)
(***************************************************************************)
WellFormedPosition(pos) ==
    IF pos.side = "FLAT" THEN pos = Flat ELSE pos.qty > 0 /\ pos.basis >= 0

WellFormed(p) == \A s \in Symbols : WellFormedPosition(p.positions[s])

(***************************************************************************)
(* Double entry: the cash is the starting cash plus the realised result,   *)
(* less the fees paid on opening and what the open positions cost (a SHORT *)
(* costs the negative of its proceeds).                                    *)
(***************************************************************************)
OpenBasis(p) == Total(NumSymbols, [s \in Symbols |-> SignedBasis(p.positions[s])])

Balanced(p) == p.cash = StartingCash + p.realized - p.entryFees - OpenBasis(p)
=============================================================================
