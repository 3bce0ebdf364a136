-------------------------- MODULE MCPaperExchange --------------------------
(* Small instances of PaperExchange for TLC. *)
EXTENDS PaperExchange

CONSTANT c1

MCClientIds == {c1}

Request(client, s, side, type, qty, limit, stop, sl, tp) ==
    [client |-> client, symbol |-> s, side |-> side, type |-> type, qty |-> qty,
     limit |-> limit, stop |-> stop, sl |-> sl, tp |-> tp]

\* Entries and exits of every type on one symbol; the protected BUY carries a
\* client id, so that it can be sent twice.
OrderRequests ==
    {Request(c1,       1, "BUY",  "MARKET",      2, NoPrice, NoPrice, 10,   30),
     Request(NoClient, 1, "SELL", "MARKET",      3, NoPrice, NoPrice, NoPrice, NoPrice),
     Request(NoClient, 1, "BUY",  "LIMIT",       4, 20,   NoPrice, NoPrice, NoPrice),
     Request(NoClient, 1, "SELL", "STOP",        2, NoPrice, 10,   NoPrice, NoPrice),
     Request(NoClient, 1, "BUY",  "STOP_LIMIT",  2, 30,   30,   NoPrice, NoPrice),
     Request(NoClient, 1, "SELL", "TAKE_PROFIT", 2, NoPrice, 30,   NoPrice, NoPrice)}

\* A protected LONG and a protected SHORT of a quantity that can be split.
ProtectedRequests ==
    {Request(NoClient, 1, "BUY",  "MARKET", 2, NoPrice, NoPrice, 10, NoPrice),
     Request(NoClient, 1, "SELL", "MARKET", 2, NoPrice, NoPrice, 40, 10)}

Rule(be, partial, trail, widen, sma) ==
    [be |-> be, partial |-> partial, trail |-> trail, widen |-> widen, sma |-> sma]

NoRuleSets == {}

AllRuleSets ==
    {Rule(TRUE,  TRUE,  NoPrice, FALSE, NoPrice),
     Rule(TRUE,  FALSE, 20,      FALSE, 20),
     Rule(FALSE, FALSE, 20,      TRUE,  NoPrice)}

NoModes    == {}
FillModes  == {"partial_fill"}
OrderModes == {"partial_fill", "outage"}

OrderPrices == {10, 20, 30}
RulePrices  == {10, 20, 30, 40}
=============================================================================
