---------------------------- MODULE MCPaperEngine ----------------------------
(* A small instance of PaperEngine for TLC. *)
EXTENDS PaperEngine

\* Three strategies meet on one symbol, one of them on the other side.
MCPlans ==
    {[strategy |-> "breakout", symbol |-> "BTC", side |-> "LONG",  notional |-> 2],
     [strategy |-> "momentum", symbol |-> "BTC", side |-> "LONG",  notional |-> 1],
     [strategy |-> "reversal", symbol |-> "BTC", side |-> "SHORT", notional |-> 2]}
=============================================================================
