--------------------------- MODULE OrderLifecycle ---------------------------
(***************************************************************************)
(* What a venue promises about an order (ORDER_TRANSITIONS in              *)
(* exchange/models.py): it is accepted or rejected when it is placed, it   *)
(* fills only while it is open and never beyond its quantity, and once it  *)
(* has ended it never changes again.  PaperExchange implements this.       *)
(***************************************************************************)
EXTENDS Integers, Sequences

VARIABLE book   \* the orders ever placed, in order of placement

Terminal   == {"FILLED", "CANCELLED", "REJECTED", "EXPIRED"}
OpenStates == {"SUBMITTED", "PARTIALLY_FILLED"}

BookedOrder == [qty : Int, filled : Int, status : Terminal \cup OpenStates]

Init == book = <<>>

\* One fill of n units.
FilledBy(o, n) ==
    [o EXCEPT !.filled = @ + n,
              !.status = IF o.filled + n = o.qty THEN "FILLED" ELSE "PARTIALLY_FILLED"]

Fills(o, after) ==
    /\ o.status \in OpenStates
    /\ \E n \in 1..(o.qty - o.filled) : after = FilledBy(o, n)

\* Only an order of which nothing filled may still be rejected.
Ends(o, after) ==
    /\ o.status \in OpenStates
    /\ \/ after = [o EXCEPT !.status = "CANCELLED"]
       \/ after = [o EXCEPT !.status = "EXPIRED"]
       \/ o.filled = 0 /\ after = [o EXCEPT !.status = "REJECTED"]

Submitted(q) == [qty |-> q, filled |-> 0, status |-> "SUBMITTED"]

\* A new order is rejected, or rests, or fills at once.
Placed(o) ==
    /\ o.qty \in Int
    /\ \/ o = [Submitted(o.qty) EXCEPT !.status = "REJECTED"]
       \/ o.qty > 0 /\ o = Submitted(o.qty)
       \/ Fills(Submitted(o.qty), o)

Place ==
    /\ Len(book') = Len(book) + 1
    /\ LET o == book'[Len(book')] IN book' = Append(book, o) /\ Placed(o)

\* Orders on the book fill or end, several at once at the end of the day.
Work ==
    /\ book' = [i \in DOMAIN book |-> book'[i]]
    /\ \A i \in DOMAIN book :
          \/ book'[i] = book[i]
          \/ Fills(book[i], book'[i])
          \/ Ends(book[i], book'[i])

Next == Place \/ Work

Spec == Init /\ [][Next]_book
=============================================================================
