-------------------------- MODULE OrderPlacement --------------------------
(***************************************************************************)
(* What the order intent ledger promises: an idempotency key is claimed by *)
(* one intent, for good, and only that intent's order is ever placed, at   *)
(* most once.                                                              *)
(***************************************************************************)
CONSTANTS Keys, Intents, NoIntent

VARIABLES claim,   \* the intent that owns each key
          placed   \* the intents whose order reached the exchange

vars == <<claim, placed>>

TypeOK ==
    /\ claim \in [Keys -> Intents \cup {NoIntent}]
    /\ placed \in SUBSET Intents

Init ==
    /\ claim = [k \in Keys |-> NoIntent]
    /\ placed = {}

Claim(k, i) ==
    /\ claim[k] = NoIntent
    /\ \A l \in Keys : claim[l] # i
    /\ claim' = [claim EXCEPT ![k] = i]
    /\ UNCHANGED placed

Place(k, i) ==
    /\ claim[k] = i
    /\ i \notin placed
    /\ placed' = placed \cup {i}
    /\ UNCHANGED claim

Next == \E k \in Keys, i \in Intents : Claim(k, i) \/ Place(k, i)

Spec == Init /\ [][Next]_vars
=============================================================================
