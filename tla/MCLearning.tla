----------------------------- MODULE MCLearning -----------------------------
(* A small instance of Learning for TLC. *)
EXTENDS Learning, TLC

CONSTANTS t1, t2

Closed(outcome, failed, named, error) ==
  [outcome |-> outcome, failed |-> failed, named |-> named, error |-> error]

\* A win that was predicted, a loss against the prediction, and a loss that a tool
\* closes without a trade_id and without a prediction.
MCClosings == {Closed("WIN", FALSE, TRUE, 4), Closed("LOSS", TRUE, TRUE, 64),
               Closed("LOSS", TRUE, FALSE, Absent)}

MCKelly == [base |-> 25, degraded |-> 12, least |-> 10, most |-> 100]

Interchangeable == Permutations(Threads)
=============================================================================
