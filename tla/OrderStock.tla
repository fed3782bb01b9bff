----------------------------- MODULE OrderStock -----------------------------
(***************************************************************************)
(* Orders, the stock they take, and the catalog they take it from:         *)
(*                                                                         *)
(*   OrderRepository, ProductRepository   app/repositories/domain.py       *)
(*   POST /orders                         app/api/v1/orders.py             *)
(*   update_product, delete_product       app/tenants/business_service.py  *)
(*   update_order, change_product_price   app/core/workflows/actions.py    *)
(*                                                                         *)
(* An order locks its products one line at a time; a locked product is     *)
(* read again, and whatever the session had changed in its copy is lost,   *)
(* because the session does not flush on its own.                          *)
(***************************************************************************)
EXTENDS Integers, Sequences, FiniteSetsExt, SequencesExt

CONSTANTS
  Sessions,   \* requests and workflow runs at work
  Orders,     \* orders that may be created
  Products,
  Supply,     \* the stock every product starts with
  Baskets,    \* what is ordered: sequences of [product, qty]
  Stocks,     \* stock levels a manager writes
  Prices,     \* prices a manager writes
  Targets,    \* statuses a workflow writes
  None

Line == [product : Products, qty : Nat \ {0}]

ASSUME BasketAssumption == Baskets \subseteq Seq(Line) \ {<<>>}
ASSUME LevelAssumption  == Supply \in Nat /\ Stocks \subseteq Nat /\ Prices \subseteq Nat \ {0}
ASSUME NoneAssumption   == None \notin Sessions

ALLOWED_ORDER_TRANSITIONS == [
  CART                 |-> {"PENDING_CONFIRMATION", "CANCELLED", "EXPIRED"},
  PENDING_CONFIRMATION |-> {"ORDER_CREATED", "CANCELLED", "EXPIRED"},
  ORDER_CREATED        |-> {"PAYMENT_PENDING", "CANCELLED", "EXPIRED"},
  PAYMENT_PENDING      |-> {"PAID", "PAYMENT_FAILED", "CANCELLED", "EXPIRED"},
  PAID                 |-> {"PROCESSING", "REFUND_PENDING", "REFUNDED", "CANCELLED"},
  PROCESSING           |-> {"FULFILLED", "REFUND_PENDING", "CANCELLED"},
  FULFILLED            |-> {"COMPLETED", "RETURN_REQUESTED", "EXCHANGE_REQUESTED", "REFUND_PENDING"},
  COMPLETED            |-> {"RETURN_REQUESTED", "EXCHANGE_REQUESTED", "REFUND_PENDING", "REFUNDED"},
  REFUND_PENDING       |-> {"REFUNDED", "PAID", "PROCESSING"},
  RETURN_REQUESTED     |-> {"RETURNED", "COMPLETED"},
  EXCHANGE_REQUESTED   |-> {"FULFILLED", "COMPLETED"},
  PAYMENT_FAILED       |-> {"PAYMENT_PENDING", "CANCELLED"},
  CANCELLED |-> {}, EXPIRED |-> {}, REFUNDED |-> {}, RETURNED |-> {} ]

OrderStatus == DOMAIN ALLOWED_ORDER_TRANSITIONS

(* A status that is none of these is refused like a move that is not allowed. *)
ASSUME TargetAssumption == Targets \subseteq OrderStatus

ValidOrderMove_Unpaid(from, to) ==
  from = to \/ to \in ALLOWED_ORDER_TRANSITIONS[from] \/ (from = "PAYMENT_PENDING" /\ to = "PROCESSING")
ValidOrderMove(from, to) == from = to \/ to \in ALLOWED_ORDER_TRANSITIONS[from]
-----------------------------------------------------------------------------
VARIABLES
  order,     \* status of the orders rows
  product,   \* products rows
  lock,      \* row locks on products
  lockO,     \* row locks on orders
  tx,        \* what each session has read and changed, and how far it is
  counted,   \* what the last one to write a product's stock by hand wrote
  sold,      \* ordered since then, by orders that are committed
  paid       \* orders that have been PAID

ghosts == <<counted, sold, paid>>
vars == <<order, product, lock, lockO, tx, ghosts>>

ProductRow == [live : BOOLEAN, stock : Nat, price : Nat]
SessionRow == [pc     : {"idle", "ordering", "editing", "moving", "moved"},
               order  : Orders \cup {None},
               items  : Baskets \cup {<<>>},
               line   : Nat,                      \* lines locked so far
               row    : [Products -> ProductRow], \* products in the session
               target : OrderStatus \cup Products \cup {None},
               seen   : {"NONE"} \cup OrderStatus]

Unread == [live |-> FALSE, stock |-> 0, price |-> 0]
Idle == [pc |-> "idle", order |-> None, items |-> <<>>, line |-> 0,
         row |-> [p \in Products |-> Unread], target |-> None, seen |-> "NONE"]

Init ==
  /\ order = [o \in Orders |-> "NONE"]
  /\ product = [p \in Products |-> [live |-> TRUE, stock |-> Supply, price |-> 1]]
  /\ lock = [p \in Products |-> None]
  /\ lockO = [o \in Orders |-> None]
  /\ tx = [s \in Sessions |-> Idle]
  /\ counted = [p \in Products |-> Supply]
  /\ sold = [p \in Products |-> 0]
  /\ paid = {}
-----------------------------------------------------------------------------
Move(s, row) == tx' = [tx EXCEPT ![s] = row]

(* Commit, rollback, or a lost connection: the locks are free. *)
Leave(s) == /\ Move(s, Idle)
            /\ lock' = [p \in Products |-> IF lock[p] = s THEN None ELSE lock[p]]
            /\ lockO' = [o \in Orders |-> IF lockO[o] = s THEN None ELSE lockO[o]]

(* How much of a product a basket asks for. *)
Ordered(items, p) == MapThenSumSet(LAMBDA i : items[i].qty, {i \in DOMAIN items : items[i].product = p})

InBasket(items, p) == \E i \in DOMAIN items : items[i].product = p
-----------------------------------------------------------------------------
(* POST /orders reads the products before it locks any of them; these copies *)
(* are replaced when the rows are locked.                                    *)
StartOrder(s, o, items) ==
  /\ tx[s].pc = "idle"
  /\ order[o] = "NONE" /\ \A t \in Sessions : tx[t].order # o
  /\ \A p \in Products : InBasket(items, p) => product[p].live
  /\ Move(s, [Idle EXCEPT !.pc = "ordering", !.order = o, !.items = items])
  /\ UNCHANGED <<order, product, lock, lockO, ghosts>>

NextLine(s) == tx[s].items[tx[s].line + 1]

CanSell_Unchecked(row, qty) == row.live
CanSell(row, qty) == row.live /\ row.stock >= qty

Deduct(row, qty) == [row EXCEPT !.stock = @ - qty]

(* SELECT ... FOR UPDATE of the next product with populate_existing: the row *)
(* of the table replaces the row of the session, changed or not.             *)
LockLine_NoWait(s) ==
  LET p == NextLine(s).product IN
  /\ tx[s].pc = "ordering" /\ tx[s].line < Len(tx[s].items)
  /\ CanSell(product[p], NextLine(s).qty)
  /\ lock' = [lock EXCEPT ![p] = s]
  /\ Move(s, [tx[s] EXCEPT !.line = @ + 1, !.row[p] = Deduct(product[p], NextLine(s).qty)])
  /\ UNCHANGED <<order, product, lockO, ghosts>>

LockLine(s) ==
  LET p == NextLine(s).product IN
  /\ tx[s].pc = "ordering" /\ tx[s].line < Len(tx[s].items)
  /\ lock[p] \in {None, s}
  /\ CanSell(product[p], NextLine(s).qty)
  /\ lock' = [lock EXCEPT ![p] = s]
  /\ Move(s, [tx[s] EXCEPT !.line = @ + 1, !.row[p] = Deduct(product[p], NextLine(s).qty)])
  /\ UNCHANGED <<order, product, lockO, ghosts>>

RefuseLine_Partial(s) ==
  LET done == SubSeq(tx[s].items, 1, tx[s].line) IN
  /\ tx[s].pc = "ordering" /\ tx[s].line < Len(tx[s].items)
  /\ lock[NextLine(s).product] \in {None, s}
  /\ ~ CanSell(product[NextLine(s).product], NextLine(s).qty)
  /\ product' = [p \in Products |-> IF InBasket(done, p) THEN tx[s].row[p] ELSE product[p]]
  /\ sold' = [p \in Products |-> sold[p] + Ordered(done, p)]
  /\ Leave(s)
  /\ UNCHANGED <<order, counted, paid>>

(* INSUFFICIENT_STOCK or PRODUCT_NOT_FOUND: the whole order is rolled back. *)
RefuseLine(s) ==
  /\ tx[s].pc = "ordering" /\ tx[s].line < Len(tx[s].items)
  /\ lock[NextLine(s).product] \in {None, s}
  /\ ~ CanSell(product[NextLine(s).product], NextLine(s).qty)
  /\ Leave(s)
  /\ UNCHANGED <<order, product, ghosts>>

CommitOrder_Late(s) ==
  /\ tx[s].pc = "ordering" /\ tx[s].line = Len(tx[s].items)
  /\ order' = [order EXCEPT ![tx[s].order] = "ORDER_CREATED"]
  /\ sold' = [p \in Products |-> sold[p] + Ordered(tx[s].items, p)]
  /\ Leave(s)
  /\ UNCHANGED <<product, counted, paid>>

CommitOrder(s) ==
  /\ tx[s].pc = "ordering" /\ tx[s].line = Len(tx[s].items)
  /\ order' = [order EXCEPT ![tx[s].order] = "ORDER_CREATED"]
  /\ product' = [p \in Products |-> IF InBasket(tx[s].items, p) THEN tx[s].row[p] ELSE product[p]]
  /\ sold' = [p \in Products |-> sold[p] + Ordered(tx[s].items, p)]
  /\ Leave(s)
  /\ UNCHANGED <<counted, paid>>

(* Two orders with opposite lines wait for each other; PostgreSQL rolls one  *)
(* of them back.                                                             *)
WaitsFor(s, t) ==
  \/ /\ tx[s].pc = "ordering" /\ tx[s].line < Len(tx[s].items)
     /\ t # s /\ lock[NextLine(s).product] = t
  \/ tx[s].pc = "moving" /\ lockO[tx[s].order] = t

Deadlocked(s) == \E S \in SUBSET Sessions : s \in S /\ \A t \in S : \E u \in S : WaitsFor(t, u)

Victim(s) == Deadlocked(s) /\ Leave(s) /\ UNCHANGED <<order, product, ghosts>>
-----------------------------------------------------------------------------
(* PUT and DELETE /products/{id}, change_product_price: the product is read  *)
(* without a lock.                                                           *)
ReadProduct(s, p) ==
  /\ tx[s].pc = "idle"
  /\ product[p].live
  /\ Move(s, [Idle EXCEPT !.pc = "editing", !.target = p, !.row[p] = product[p]])
  /\ UNCHANGED <<order, product, lock, lockO, ghosts>>

(* The UPDATE waits for the row and sets the columns that differ from the    *)
(* session's copy.                                                           *)
WriteStock(s, n) ==
  LET p == tx[s].target IN
  /\ tx[s].pc = "editing"
  /\ lock[p] = None
  /\ IF product[p].live /\ n # tx[s].row[p].stock
     THEN /\ product' = [product EXCEPT ![p].stock = n]
          /\ counted' = [counted EXCEPT ![p] = n]
          /\ sold' = [sold EXCEPT ![p] = 0]
     ELSE UNCHANGED <<product, counted, sold>>
  /\ Leave(s)
  /\ UNCHANGED <<order, paid>>

WritePrice(s, n) ==
  LET p == tx[s].target IN
  /\ tx[s].pc = "editing"
  /\ lock[p] = None
  /\ product' = IF product[p].live /\ n # tx[s].row[p].price
                THEN [product EXCEPT ![p].price = n] ELSE product
  /\ Leave(s)
  /\ UNCHANGED <<order, ghosts>>

DeleteProduct(s) ==
  /\ tx[s].pc = "editing"
  /\ lock[tx[s].target] = None
  /\ product' = [product EXCEPT ![tx[s].target] = Unread]
  /\ counted' = [counted EXCEPT ![tx[s].target] = 0]
  /\ sold' = [sold EXCEPT ![tx[s].target] = 0]
  /\ Leave(s)
  /\ UNCHANGED <<order, paid>>
-----------------------------------------------------------------------------
(* update_order: the order is read before transition_status locks it, and    *)
(* the lock brings no fresh copy.                                            *)
ReadOrder(s, o, target) ==
  /\ tx[s].pc = "idle"
  /\ order[o] # "NONE"
  /\ Move(s, [Idle EXCEPT !.pc = "moving", !.order = o, !.target = target, !.seen = order[o]])
  /\ UNCHANGED <<order, product, lock, lockO, ghosts>>

LockOrder(s) ==
  /\ tx[s].pc = "moving"
  /\ lockO[tx[s].order] = None
  /\ IF ValidOrderMove(tx[s].seen, tx[s].target)
     THEN /\ lockO' = [lockO EXCEPT ![tx[s].order] = s]
          /\ Move(s, [tx[s] EXCEPT !.pc = "moved"])
          /\ UNCHANGED lock
     ELSE Leave(s)
  /\ UNCHANGED <<order, product, ghosts>>

CommitMove(s) ==
  LET o == tx[s].order
      status == IF tx[s].seen = tx[s].target THEN order[o] ELSE tx[s].target
  IN
  /\ tx[s].pc = "moved"
  /\ order' = [order EXCEPT ![o] = status]
  /\ paid' = IF status = "PAID" THEN paid \cup {o} ELSE paid
  /\ Leave(s)
  /\ UNCHANGED <<product, counted, sold>>

Crash(s) == tx[s].pc # "idle" /\ Leave(s) /\ UNCHANGED <<order, product, ghosts>>
-----------------------------------------------------------------------------
Step(s) ==
  \/ LockLine(s) \/ RefuseLine(s) \/ CommitOrder(s) \/ Victim(s)
  \/ \E n \in Stocks : WriteStock(s, n)
  \/ \E n \in Prices : WritePrice(s, n)
  \/ DeleteProduct(s) \/ LockOrder(s) \/ CommitMove(s)

Quiet == (\A s \in Sessions : tx[s].pc = "idle") /\ UNCHANGED vars

Next ==
  \/ \E s \in Sessions, o \in Orders, items \in Baskets : StartOrder(s, o, items)
  \/ \E s \in Sessions, p \in Products : ReadProduct(s, p)
  \/ \E s \in Sessions, o \in Orders, target \in Targets : ReadOrder(s, o, target)
  \/ \E s \in Sessions : Step(s) \/ Crash(s)
  \/ Quiet

Spec == Init /\ [][Next]_vars
-----------------------------------------------------------------------------
(* Every variable keeps its type; a session reads only what it asked for.    *)
TypeOK ==
  /\ order \in [Orders -> {"NONE"} \cup OrderStatus]
  /\ product \in [Products -> ProductRow]
  /\ lock \in [Products -> Sessions \cup {None}]
  /\ lockO \in [Orders -> Sessions \cup {None}]
  /\ tx \in [Sessions -> SessionRow]
  /\ counted \in [Products -> Nat] /\ sold \in [Products -> Nat]
  /\ paid \subseteq Orders

(* create_order_with_items: what was counted is in stock or sold, however    *)
(* orders, their lines and the manager's edits overlap.                      *)
StockAccounted == \A p \in Products : product[p].stock + sold[p] = counted[p]

(* An order charges the price, and leaves the stock, that the product has    *)
(* when the order commits: the lock holds from the line to the commit.       *)
LockedIsCurrent ==
  \A s \in Sessions : tx[s].pc = "ordering" =>
    \A i \in 1 .. tx[s].line :
      LET p == tx[s].items[i].product IN
      /\ tx[s].row[p].price = product[p].price
      /\ product[p].live /\ tx[s].row[p].stock < product[p].stock

(* No order is worked on or completed that was never paid, although status   *)
(* updates that were validated against an old status overwrite each other.   *)
NothingFulfilledUnpaid ==
  \A o \in Orders : order[o] \in {"PROCESSING", "FULFILLED", "COMPLETED"} => o \in paid

(* "enforcing ACT-104 atomic row-level stock revalidation and deduction      *)
(* inside transaction boundary" (domain.py:427): no more is sold than there  *)
(* was.                                                                      *)
NeverOversold == \A p \in Products : sold[p] <= counted[p]

Shop == INSTANCE StockLedger WITH
          Wants  <- {[p \in Products |-> Ordered(items, p)] : items \in Baskets},
          Levels <- Stocks,
          stock  <- [p \in Products |-> product[p].stock],
          onSale <- {p \in Products : product[p].live},
          placed <- {o \in Orders : order[o] # "NONE"}

(* create_order_with_items is atomic ("ACT-104"): line by line under row     *)
(* locks, an order is either placed with all that it asks for taken from     *)
(* what is on sale at that moment, or nothing of it is ever seen.            *)
StockLedgerSpec == Shop!Spec
=============================================================================
