----------------------------- MODULE StockLedger -----------------------------
(***************************************************************************)
(* What the shop promises of its stock, with no sessions, row locks or     *)
(* copies: an order takes everything it asks for at once, from products    *)
(* that are on sale and have as much, or it is not there; the manager sets *)
(* the stock of a product on sale, or takes the product from sale.         *)
(***************************************************************************)
EXTENDS Integers

CONSTANTS
  Products, Orders,
  Wants,      \* how much of each product an order may ask for
  Levels      \* stocks that the manager sets

VARIABLES stock, onSale, placed

shelf == <<stock, onSale, placed>>

Init ==
  /\ stock \in [Products -> Nat]
  /\ onSale = Products
  /\ placed = {}

Take(want) ==
  /\ \A p \in Products : want[p] > 0 => p \in onSale /\ want[p] <= stock[p]
  /\ stock' = [p \in Products |-> stock[p] - want[p]]

Place(o) ==
  /\ o \notin placed
  /\ placed' = placed \cup {o}
  /\ \E want \in Wants : Take(want)
  /\ UNCHANGED onSale

Count(p, n) ==
  /\ p \in onSale
  /\ stock' = [stock EXCEPT ![p] = n]
  /\ UNCHANGED <<onSale, placed>>

Withdraw(p) ==
  /\ onSale' = onSale \ {p}
  /\ stock' = [stock EXCEPT ![p] = 0]
  /\ UNCHANGED placed

Next ==
  \/ \E o \in Orders : Place(o)
  \/ \E p \in Products : Withdraw(p) \/ \E n \in Levels : Count(p, n)

Spec == Init /\ [][Next]_shelf
=============================================================================
