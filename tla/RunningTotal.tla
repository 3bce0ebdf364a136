---------------------------- MODULE RunningTotal ----------------------------
(***************************************************************************)
(* The total of a finite table of integers f[1], ..., f[n], as the last    *)
(* entry of its table of running totals.  The accounting invariants use it *)
(* to add up what the portfolio holds over all symbols and what the orders *)
(* filled.  It is a recursive function and not a RECURSIVE operator, so    *)
(* that PaperExchangeProofs can reason about it.                           *)
(***************************************************************************)
EXTENDS Integers

\* The running totals: entry m is f[1] + ... + f[m].
Prefix(n, f) ==
    LET acc[m \in 0..n] == IF m = 0 THEN 0 ELSE acc[m - 1] + f[m] IN acc

Total(n, f) == Prefix(n, f)[n]
=============================================================================
