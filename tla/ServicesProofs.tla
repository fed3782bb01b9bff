--------------------------- MODULE ServicesProofs ---------------------------
(***************************************************************************)
(* What the services of MCServices promise, for any number of sessions,    *)
(* rows, plans and requests.  A section proves the invariant of each       *)
(* service for its own specification; the last one carries the properties  *)
(* over to ServicesSpec, whose steps are steps of one service and leave    *)
(* the others alone.                                                       *)
(***************************************************************************)
EXTENDS MCServices, FiniteSums, SequenceTheorems, TLAPS

(***************************************************************************)
(* ORDERS.  A session that orders holds the lock of every product whose    *)
(* line it has done (LinesHeld), and nobody else writes a locked row; so   *)
(* its copies stay current.  A status that only paid orders come to is in  *)
(* no copy of an order that was not paid (PaidOnly).  The stock adds up    *)
(* since the copy of a locked product is the product less the quantity of  *)
(* its line (Deducted), so that a commit takes what the order charges.     *)
(***************************************************************************)

LEMMA OrderSetting ==
  /\ Baskets \subseteq Seq(Line) \ {<<>>}
  /\ Supply \in Nat /\ Stocks \subseteq Nat /\ Prices \subseteq Nat \ {0}
  /\ None \notin Sessions
  /\ Targets \subseteq OrderStatus
BY BasketAssumption, LevelAssumption, NoneAssumption, TargetAssumption

(* A session that orders holds the row lock of every line it has done.       *)
LinesHeld ==
  \A s \in Sessions : tx[s].pc = "ordering" =>
    /\ tx[s].order \in Orders /\ tx[s].items \in Baskets
    /\ tx[s].line \in 0 .. Len(tx[s].items)
    /\ \A i \in 1 .. tx[s].line : lock[tx[s].items[i].product] = s

(* What the other sessions have read exists.                                 *)
StockRead ==
  \A s \in Sessions :
    /\ tx[s].pc = "editing" => tx[s].target \in Products
    /\ tx[s].pc \in {"moving", "moved"} =>
         tx[s].order \in Orders /\ tx[s].target \in OrderStatus /\ tx[s].seen \in OrderStatus
    /\ tx[s].pc = "moved" => ValidOrderMove(tx[s].seen, tx[s].target)

(* The statuses that only an order which was PAID comes to.                  *)
PaidStatus == {"PAID", "PROCESSING", "FULFILLED", "COMPLETED", "REFUND_PENDING", "REFUNDED",
               "RETURN_REQUESTED", "RETURNED", "EXCHANGE_REQUESTED"}

PaidOnly ==
  /\ \A o \in Orders : order[o] \in PaidStatus => o \in paid
  /\ \A s \in Sessions : tx[s].pc \in {"moving", "moved"} /\ tx[s].seen \in PaidStatus => tx[s].order \in paid

StockInv == TypeOK /\ LinesHeld /\ StockRead /\ LockedIsCurrent /\ PaidOnly
-----------------------------------------------------------------------------
LEMMA BasketLines ==
  ASSUME NEW items \in Baskets
  PROVE  /\ Len(items) \in Nat \ {0} /\ DOMAIN items = 1 .. Len(items)
         /\ \A i \in DOMAIN items : items[i].product \in Products /\ items[i].qty \in Nat \ {0}
<1>1. items \in Seq(Line) /\ items # <<>>
  BY OrderSetting
<1>2. Len(items) \in Nat /\ DOMAIN items = 1 .. Len(items)
  BY <1>1
<1>3. Len(items) # 0
  BY <1>1
<1>4. \A i \in DOMAIN items : items[i] \in Line
  BY <1>1, <1>2
<1> QED
  BY <1>2, <1>3, <1>4 DEF Line

LEMMA StatusMoves ==
  ASSUME NEW from \in OrderStatus, NEW to \in PaidStatus, ValidOrderMove(from, to)
  PROVE  from \in PaidStatus \/ to = "PAID"
  BY DEF OrderStatus, ALLOWED_ORDER_TRANSITIONS, ValidOrderMove, PaidStatus

LEMMA OrderStatuses ==
  /\ "ORDER_CREATED" \in OrderStatus /\ "ORDER_CREATED" \notin PaidStatus
  /\ "NONE" \notin PaidStatus
  /\ {"PROCESSING", "FULFILLED", "COMPLETED"} \subseteq PaidStatus
  BY DEF OrderStatus, ALLOWED_ORDER_TRANSITIONS, PaidStatus

(* The quantity that a basket asks for of a product: none if it is not in    *)
(* it, and that of its line if only one line names it.                       *)
LEMMA OrderedFacts ==
  ASSUME NEW items \in Baskets, NEW p
  PROVE  /\ Ordered(items, p) \in Nat
         /\ ~ InBasket(items, p) => Ordered(items, p) = 0
         /\ \A i \in DOMAIN items :
              items[i].product = p /\ (\A j \in DOMAIN items : items[j].product = p => j = i)
              => Ordered(items, p) = items[i].qty
<1> DEFINE f == [i \in DOMAIN items |-> items[i].qty]
           S == {i \in DOMAIN items : items[i].product = p}
           first(X) == CHOOSE x \in X : TRUE
           def(g) == [X \in SUBSET S |-> IF X = {} THEN 0 ELSE items[first(X)].qty + g[X \ {first(X)}]]
           iter == CHOOSE g : g = def(g)
<1>1. IsFiniteSet(S) /\ \A x \in S : f[x] \in Nat
  <2>1. IsFiniteSet(DOMAIN items)
    BY BasketLines, FS_Interval
  <2> QED
    BY <2>1, BasketLines, FS_Subset
<1>2. ASSUME NEW g
      PROVE  Adds(g, f, S) <=> g = def(g)
  <2> DEFINE e == [X \in SUBSET S |-> IF X = {} THEN 0 ELSE f[Pick(X)] + g[X \ {Pick(X)}]]
  <2>1. ASSUME NEW X \in SUBSET S
        PROVE  e[X] = def(g)[X]
    <3>1. CASE X = {}
      BY <3>1
    <3>2. CASE X # {}
      <4>1. Pick(X) = first(X)
        BY DEF Pick
      <4>2. Pick(X) \in DOMAIN items
        BY <3>2, PickFacts
      <4>3. f[Pick(X)] = items[first(X)].qty
        BY <4>1, <4>2
      <4> QED
        BY <3>2, <4>1, <4>3
    <3> QED
      BY <3>1, <3>2
  <2>2. e = def(g)
    BY <2>1
  <2> QED
    BY <2>2 DEF Adds
<1>3. Adds(iter, f, S)
  <2>1. PICK g : Adds(g, f, S)
    BY <1>1, SumExists
  <2>2. g = def(g)
    BY <2>1, <1>2
  <2> HIDE DEF def
  <2>3. iter = def(iter)
    BY <2>2
  <2> QED
    BY <2>3, <1>2
<1>4. Ordered(items, p) = iter[S]
  BY DEF Ordered, MapThenSumSet, MapThenFoldSet
<1> HIDE DEF iter, f
<1>5. iter[S] \in Nat
  <2> HIDE DEF S
  <2> QED
    BY <1>1, <1>3, SumType
<1>6. iter[{}] = 0
  BY <1>3, AddsFacts
<1>7. ~ InBasket(items, p) => S = {}
  BY DEF InBasket
<1>8. ASSUME NEW i \in DOMAIN items, items[i].product = p,
             \A j \in DOMAIN items : items[j].product = p => j = i
      PROVE  iter[S] = items[i].qty
  <2>1. S = {i} /\ S \ {i} = {}
    BY <1>8
  <2>2. f[i] = items[i].qty /\ f[i] \in Nat
    BY <1>1, <2>1 DEF f
  <2>3. iter[S] = f[i] + iter[S \ {i}]
    <3>1. i \in S
      BY <2>1
    <3> HIDE DEF S
    <3> QED
      BY <1>1, <1>3, <3>1, SumRemove
  <2> HIDE DEF S
  <2> QED
    BY <1>6, <2>1, <2>2, <2>3
<1> QED
  BY <1>4, <1>5, <1>6, <1>7, <1>8
-----------------------------------------------------------------------------
LEMMA OrderIdle ==
  /\ Idle \in SessionRow /\ Idle.pc = "idle"
  /\ Unread \in ProductRow
  BY DEF Idle, SessionRow, Unread, ProductRow

(* A transaction that ends frees its locks and nobody else's.                *)
LEMMA OrderLeaves ==
  ASSUME TypeOK, NEW s \in Sessions, Leave(s)
  PROVE  /\ tx' \in [Sessions -> SessionRow] /\ tx'[s].pc = "idle"
         /\ \A t \in Sessions \ {s} : tx'[t] = tx[t]
         /\ lock' \in [Products -> Sessions \cup {None}]
         /\ lockO' \in [Orders -> Sessions \cup {None}]
         /\ \A p \in Products, t \in Sessions \ {s} : lock[p] = t => lock'[p] = t
<1>1. tx' = [tx EXCEPT ![s] = Idle]
  BY DEF Leave, Move
<1> HIDE DEF Idle
<1>2. tx' \in [Sessions -> SessionRow] /\ tx'[s] = Idle /\ \A t \in Sessions \ {s} : tx'[t] = tx[t]
  BY <1>1, OrderIdle DEF TypeOK
<1>3. /\ lock' \in [Products -> Sessions \cup {None}]
      /\ lockO' \in [Orders -> Sessions \cup {None}]
      /\ \A p \in Products, t \in Sessions \ {s} : lock[p] = t => lock'[p] = t
  BY DEF Leave, TypeOK
<1> QED
  BY <1>2, <1>3, OrderIdle

(* A transaction ends; it has written products that nobody else has locked.  *)
LEMMA OrderEnds ==
  ASSUME StockInv, NEW s \in Sessions, Leave(s),
         order' \in [Orders -> {"NONE"} \cup OrderStatus],
         product' \in [Products -> ProductRow],
         counted' \in [Products -> Nat], sold' \in [Products -> Nat],
         paid' \subseteq Orders, paid \subseteq paid',
         \A o \in Orders : order'[o] \in PaidStatus => o \in paid',
         \A p \in Products : product'[p] = product[p] \/ lock[p] \in {None, s}
  PROVE  StockInv'
<1>1. TypeOK /\ LinesHeld /\ StockRead /\ LockedIsCurrent /\ PaidOnly
  BY DEF StockInv
<1>2. /\ tx' \in [Sessions -> SessionRow] /\ tx'[s].pc = "idle"
      /\ \A t \in Sessions \ {s} : tx'[t] = tx[t]
      /\ lock' \in [Products -> Sessions \cup {None}]
      /\ lockO' \in [Orders -> Sessions \cup {None}]
      /\ \A p \in Products, t \in Sessions \ {s} : lock[p] = t => lock'[p] = t
  BY <1>1, OrderLeaves
<1>3. TypeOK'
  BY <1>2 DEF TypeOK
<1>4. \A t \in Sessions : tx'[t].pc # "idle" => t # s /\ tx'[t] = tx[t]
  BY <1>2
<1>5. StockRead' /\ PaidOnly'
  <2>1. StockRead'
    BY <1>1, <1>4 DEF StockRead
  <2>2. PaidOnly'
    BY <1>1, <1>4 DEF PaidOnly
  <2> QED
    BY <2>1, <2>2
<1>6. \A t \in Sessions, i \in Nat :
        tx'[t].pc = "ordering" /\ i \in 1 .. tx'[t].line =>
          /\ t # s /\ tx'[t] = tx[t]
          /\ tx[t].items[i].product \in Products
          /\ lock[tx[t].items[i].product] = t
          /\ product'[tx[t].items[i].product] = product[tx[t].items[i].product]
  <2> SUFFICES ASSUME NEW t \in Sessions, NEW i \in Nat, tx'[t].pc = "ordering", i \in 1 .. tx'[t].line
               PROVE  /\ t # s /\ tx'[t] = tx[t]
                      /\ tx[t].items[i].product \in Products
                      /\ lock[tx[t].items[i].product] = t
                      /\ product'[tx[t].items[i].product] = product[tx[t].items[i].product]
    OBVIOUS
  <2>1. t # s /\ tx'[t] = tx[t]
    BY <1>4
  <2>2. tx[t].items \in Baskets /\ i \in 1 .. Len(tx[t].items) /\ lock[tx[t].items[i].product] = t
    BY <1>1, <2>1, BasketLines DEF LinesHeld
  <2>3. tx[t].items[i].product \in Products
    BY <2>2, BasketLines
  <2> QED
    BY <2>1, <2>2, <2>3, OrderSetting
<1>7. LinesHeld'
  <2> SUFFICES ASSUME NEW t \in Sessions, tx'[t].pc = "ordering"
               PROVE  /\ tx'[t].order \in Orders /\ tx'[t].items \in Baskets
                      /\ tx'[t].line \in 0 .. Len(tx'[t].items)
                      /\ \A i \in 1 .. tx'[t].line : lock'[tx'[t].items[i].product] = t
    BY DEF LinesHeld
  <2>1. t # s /\ tx'[t] = tx[t] /\ tx[t].pc = "ordering"
    BY <1>4
  <2>2. \A i \in 1 .. tx'[t].line : lock'[tx'[t].items[i].product] = t
    BY <1>2, <1>6, <2>1
  <2> QED
    BY <1>1, <2>1, <2>2 DEF LinesHeld
<1>8. LockedIsCurrent'
  <2> SUFFICES ASSUME NEW t \in Sessions, tx'[t].pc = "ordering", NEW i \in 1 .. tx'[t].line
               PROVE  LET p == tx'[t].items[i].product IN
                      /\ tx'[t].row[p].price = product'[p].price
                      /\ product'[p].live /\ tx'[t].row[p].stock < product'[p].stock
    BY DEF LockedIsCurrent
  <2>1. /\ tx'[t] = tx[t]
        /\ product'[tx[t].items[i].product] = product[tx[t].items[i].product]
    BY <1>6
  <2> QED
    BY <1>1, <2>1 DEF LockedIsCurrent
<1> QED
  BY <1>3, <1>5, <1>7, <1>8 DEF StockInv

(* A session that does not order goes on, and leaves the rows alone.         *)
LEMMA OrderGoesOn ==
  ASSUME StockInv, NEW s \in Sessions,
         tx' \in [Sessions -> SessionRow],
         \A t \in Sessions \ {s} : tx'[t] = tx[t],
         UNCHANGED <<order, product, lock, ghosts>>,
         lockO' \in [Orders -> Sessions \cup {None}],
         tx'[s].pc # "ordering",
         tx'[s].pc = "editing" => tx'[s].target \in Products,
         tx'[s].pc \in {"moving", "moved"} =>
           /\ tx'[s].order \in Orders /\ tx'[s].target \in OrderStatus /\ tx'[s].seen \in OrderStatus
           /\ tx'[s].seen \in PaidStatus => tx'[s].order \in paid,
         tx'[s].pc = "moved" => ValidOrderMove(tx'[s].seen, tx'[s].target)
  PROVE  StockInv'
<1>1. TypeOK /\ LinesHeld /\ StockRead /\ LockedIsCurrent /\ PaidOnly
  BY DEF StockInv
<1>2. TypeOK'
  BY <1>1 DEF TypeOK, ghosts
<1>3. \A t \in Sessions : tx'[t].pc = "ordering" => tx'[t] = tx[t]
  OBVIOUS
<1>4. LinesHeld'
  BY <1>1, <1>3 DEF LinesHeld
<1>5. LockedIsCurrent'
  BY <1>1, <1>3 DEF LockedIsCurrent
<1>6. StockRead'
  BY <1>1 DEF StockRead
<1>7. PaidOnly'
  BY <1>1 DEF PaidOnly, ghosts
<1> QED
  BY <1>2, <1>4, <1>5, <1>6, <1>7 DEF StockInv
LEMMA StockInit == Init => StockInv
<1> SUFFICES ASSUME Init PROVE StockInv
  OBVIOUS
<1>1. TypeOK
  BY OrderSetting, OrderIdle DEF Init, TypeOK, ProductRow
<1>2. LinesHeld /\ StockRead /\ LockedIsCurrent
  BY OrderIdle DEF Init, LinesHeld, StockRead, LockedIsCurrent
<1>3. PaidOnly
  BY OrderIdle, OrderStatuses DEF Init, PaidOnly
<1> QED
  BY <1>1, <1>2, <1>3 DEF StockInv

LEMMA StockStep == StockInv /\ [Next]_vars => StockInv'
<1> SUFFICES ASSUME StockInv, [Next]_vars PROVE StockInv'
  OBVIOUS
<1>0. TypeOK /\ LinesHeld /\ StockRead /\ LockedIsCurrent /\ PaidOnly
  BY DEF StockInv
<1>1. ASSUME NEW s \in Sessions, NEW o \in Orders, NEW items \in Baskets, StartOrder(s, o, items)
      PROVE  StockInv'
  <2> DEFINE row == [Idle EXCEPT !.pc = "ordering", !.order = o, !.items = items]
  <2>1. row \in SessionRow /\ row.pc = "ordering" /\ row.order = o /\ row.items = items /\ row.line = 0
    BY OrderIdle DEF Idle, SessionRow
  <2>2. tx' = [tx EXCEPT ![s] = row] /\ UNCHANGED <<order, product, lock, lockO, ghosts>>
    BY <1>1 DEF StartOrder, Move
  <2> HIDE DEF row
  <2>3. tx' \in [Sessions -> SessionRow] /\ tx'[s] = row /\ \A t \in Sessions \ {s} : tx'[t] = tx[t]
    BY <1>0, <2>1, <2>2 DEF TypeOK
  <2>4. TypeOK'
    BY <1>0, <2>2, <2>3 DEF TypeOK, ghosts
  <2>5. LinesHeld'
    <3>1. 0 \in 0 .. Len(items)
      BY BasketLines
    <3> QED
      BY <1>0, <2>1, <2>2, <2>3, <3>1 DEF LinesHeld
  <2>6. LockedIsCurrent'
    BY <1>0, <2>1, <2>2, <2>3 DEF LockedIsCurrent
  <2>7. StockRead'
    BY <1>0, <2>1, <2>3 DEF StockRead
  <2>8. PaidOnly'
    BY <1>0, <2>1, <2>2, <2>3 DEF PaidOnly, ghosts
  <2> QED
    BY <2>4, <2>5, <2>6, <2>7, <2>8 DEF StockInv
<1>2. ASSUME NEW s \in Sessions, LockLine(s)
      PROVE  StockInv'
  <2> DEFINE i == tx[s].line + 1
             p == NextLine(s).product
             q == NextLine(s).qty
             new == Deduct(product[p], q)
             row == [tx[s] EXCEPT !.line = @ + 1, !.row[p] = new]
  <2>1. /\ tx[s].pc = "ordering" /\ tx[s].items \in Baskets /\ tx[s].order \in Orders
        /\ tx[s].line \in 0 .. Len(tx[s].items) /\ tx[s].line < Len(tx[s].items)
    BY <1>0, <1>2 DEF LockLine, LinesHeld
  <2>2. i \in 1 .. Len(tx[s].items) /\ i \in DOMAIN tx[s].items
    BY <2>1, BasketLines
  <2>3. p \in Products /\ q \in Nat \ {0} /\ p = tx[s].items[i].product
    BY <2>1, <2>2, BasketLines DEF NextLine
  <2>4. /\ lock[p] \in {None, s} /\ lock' = [lock EXCEPT ![p] = s]
        /\ product[p].live /\ product[p].stock >= q
        /\ tx' = [tx EXCEPT ![s] = row]
        /\ UNCHANGED <<order, product, lockO, ghosts>>
    BY <1>2 DEF LockLine, CanSell, Move
  <2>5. product[p] \in ProductRow /\ product[p].stock \in Nat
    BY <1>0, <2>3 DEF TypeOK, ProductRow
  <2>6. /\ new \in ProductRow /\ new.price = product[p].price /\ new.stock < product[p].stock
        /\ new.stock = product[p].stock - q
    <3> DEFINE base == product[p]
    <3>1. base \in ProductRow /\ base.stock - q \in Nat /\ base.stock \in Nat /\ q \in Nat \ {0}
      <4>1. base \in ProductRow /\ base.stock \in Nat
        BY <2>5
      <4>2. q \in Nat \ {0}
        BY <2>3
      <4>3. base.stock >= q
        BY <2>4
      <4> DEFINE n == base.stock
      <4> HIDE DEF n, q
      <4>4. n \in Nat /\ n >= q
        BY <4>1, <4>3 DEF n
      <4>5. n - q \in Nat
        BY <4>2, <4>4
      <4> QED
        BY <4>1, <4>2, <4>5 DEF n
    <3>2. new = [base EXCEPT !.stock = base.stock - q]
      BY DEF Deduct
    <3> HIDE DEF base, new, q
    <3>3. /\ new \in ProductRow /\ new.price = base.price /\ new.stock < base.stock
          /\ new.stock = base.stock - q
      BY <3>1, <3>2 DEF ProductRow
    <3> QED
      BY <3>3 DEF base
  <2> HIDE DEF p, q, new
  <2>7. /\ row \in SessionRow /\ row.pc = "ordering" /\ row.items = tx[s].items /\ row.line = i
        /\ row.order = tx[s].order /\ row.row = [tx[s].row EXCEPT ![p] = new]
        /\ row.seen = tx[s].seen /\ row.target = tx[s].target
    <3>1. tx[s] \in SessionRow /\ tx[s].line \in Nat /\ tx[s].row \in [Products -> ProductRow]
      BY <1>0 DEF TypeOK, SessionRow
    <3>2. [tx[s].row EXCEPT ![p] = new] \in [Products -> ProductRow]
      BY <2>6, <3>1
    <3> DEFINE base == tx[s]
               rows == [base.row EXCEPT ![p] = new]
    <3>3. row = [base EXCEPT !.line = i, !.row = rows]
      OBVIOUS
    <3>4. base \in SessionRow /\ rows \in [Products -> ProductRow] /\ i \in Nat
      BY <3>1, <3>2
    <3> HIDE DEF row, base, rows, i
    <3>5. /\ row \in SessionRow /\ row.pc = base.pc /\ row.items = base.items /\ row.line = i
          /\ row.order = base.order /\ row.row = rows
          /\ row.seen = base.seen /\ row.target = base.target
      BY <3>3, <3>4 DEF SessionRow
    <3> QED
      BY <2>1, <3>5 DEF base, rows
  <2>8. tx[s].row \in [Products -> ProductRow]
    BY <1>0 DEF TypeOK, SessionRow
  <2> HIDE DEF row, i
  <2>9. tx' \in [Sessions -> SessionRow] /\ tx'[s] = row /\ \A t \in Sessions \ {s} : tx'[t] = tx[t]
    BY <1>0, <2>4, <2>7 DEF TypeOK
  <2>10. TypeOK'
    <3>1. lock' \in [Products -> Sessions \cup {None}]
      BY <1>0, <2>3, <2>4 DEF TypeOK
    <3> QED
      BY <1>0, <2>4, <2>9, <3>1 DEF TypeOK, ghosts
  <2>11. lock'[p] = s /\ \A x \in Products, t \in Sessions : lock[x] = t => lock'[x] = t
    BY <1>0, <2>3, <2>4, OrderSetting DEF TypeOK
  <2>12. \A j \in 1 .. row.line : j \in 1 .. tx[s].line \/ j = i
    BY <2>1, <2>2, <2>7 DEF i
  <2>13. \A t \in Sessions : tx[t].pc = "ordering" =>
           \A j \in 1 .. tx[t].line : tx[t].items[j].product \in Products
    BY <1>0, BasketLines DEF LinesHeld
  <2>14. LinesHeld'
    <3>1. ASSUME NEW t \in Sessions \ {s}, tx[t].pc = "ordering"
          PROVE  \A j \in 1 .. tx[t].line : lock'[tx[t].items[j].product] = t
      BY <1>0, <2>11, <2>13, <3>1 DEF LinesHeld
    <3>2. \A j \in 1 .. row.line : lock'[row.items[j].product] = s
      BY <1>0, <2>1, <2>3, <2>7, <2>11, <2>12, <2>13 DEF LinesHeld
    <3>3. row.line \in 0 .. Len(row.items)
      BY <2>2, <2>7
    <3> QED
      BY <1>0, <2>1, <2>7, <2>9, <3>1, <3>2, <3>3 DEF LinesHeld
  <2>15. LockedIsCurrent'
    <3> SUFFICES ASSUME NEW t \in Sessions, tx'[t].pc = "ordering", NEW j \in 1 .. tx'[t].line
                 PROVE  LET x == tx'[t].items[j].product IN
                        /\ tx'[t].row[x].price = product[x].price
                        /\ product[x].live /\ tx'[t].row[x].stock < product[x].stock
      BY <2>4 DEF LockedIsCurrent
    <3>1. CASE t # s
      BY <1>0, <2>9, <3>1 DEF LockedIsCurrent
    <3>2. CASE t = s /\ row.items[j].product = p
      BY <2>3, <2>4, <2>6, <2>7, <2>8, <2>9, <3>2
    <3>3. CASE t = s /\ row.items[j].product # p
      <4>1. j \in 1 .. tx[s].line
        BY <2>3, <2>7, <2>9, <2>12, <3>3
      <4>2. tx[s].items[j].product \in Products
        BY <2>1, <2>13, <4>1
      <4>3. row.row[tx[s].items[j].product] = tx[s].row[tx[s].items[j].product]
        BY <2>7, <2>8, <3>3, <4>2
      <4> DEFINE x == tx[s].items[j].product
      <4>4. tx[s].row[x].price = product[x].price /\ product[x].live /\ tx[s].row[x].stock < product[x].stock
        BY <1>0, <2>1, <4>1 DEF LockedIsCurrent
      <4>5. tx'[t].items[j].product = x /\ tx'[t].row[x] = tx[s].row[x]
        BY <2>7, <2>9, <3>3, <4>3
      <4> QED
        BY <4>4, <4>5
    <3> QED
      BY <2>9, <3>1, <3>2, <3>3
  <2>16. StockRead'
    BY <1>0, <2>7, <2>9 DEF StockRead
  <2>17. PaidOnly'
    BY <1>0, <2>4, <2>7, <2>9 DEF PaidOnly, ghosts
  <2> QED
    BY <2>10, <2>14, <2>15, <2>16, <2>17 DEF StockInv
<1>3. ASSUME NEW s \in Sessions, Leave(s), UNCHANGED <<order, product, ghosts>>
      PROVE  StockInv'
  BY <1>0, <1>3, OrderEnds DEF TypeOK, PaidOnly, ghosts
<1>4. ASSUME NEW s \in Sessions, CommitOrder(s)
      PROVE  StockInv'
  <2>1. /\ tx[s].items \in Baskets /\ tx[s].order \in Orders
        /\ tx[s].line = Len(tx[s].items) /\ Leave(s)
        /\ tx[s].row \in [Products -> ProductRow]
        /\ order' = [order EXCEPT ![tx[s].order] = "ORDER_CREATED"]
        /\ product' = [p \in Products |-> IF InBasket(tx[s].items, p) THEN tx[s].row[p] ELSE product[p]]
        /\ sold' = [p \in Products |-> sold[p] + Ordered(tx[s].items, p)]
        /\ UNCHANGED <<counted, paid>>
    BY <1>0, <1>4 DEF CommitOrder, LinesHeld, TypeOK, SessionRow
  <2>2. /\ order' \in [Orders -> {"NONE"} \cup OrderStatus]
        /\ \A o \in Orders : order'[o] \in PaidStatus => o \in paid'
    BY <1>0, <2>1, OrderStatuses DEF TypeOK, PaidOnly
  <2>3. sold' \in [Products -> Nat]
    BY <1>0, <2>1, OrderedFacts DEF TypeOK
  <2>4. product' \in [Products -> ProductRow]
    BY <1>0, <2>1 DEF TypeOK
  <2>5. \A p \in Products : product'[p] = product[p] \/ lock[p] \in {None, s}
    <3> SUFFICES ASSUME NEW p \in Products, InBasket(tx[s].items, p) PROVE lock[p] = s
      BY <2>1
    <3>1. PICK i \in DOMAIN tx[s].items : tx[s].items[i].product = p
      BY DEF InBasket
    <3>2. i \in 1 .. tx[s].line
      BY <2>1, BasketLines
    <3> QED
      BY <1>0, <1>4, <3>1, <3>2 DEF CommitOrder, LinesHeld
  <2> QED
    BY <1>0, <2>1, <2>2, <2>3, <2>4, <2>5, OrderEnds DEF TypeOK
<1>5. ASSUME NEW s \in Sessions, NEW p \in Products, ReadProduct(s, p)
      PROVE  StockInv'
  <2> DEFINE row == [Idle EXCEPT !.pc = "editing", !.target = p, !.row[p] = product[p]]
  <2>1. row \in SessionRow /\ row.pc = "editing" /\ row.target = p
    BY <1>0, OrderIdle DEF Idle, SessionRow, TypeOK
  <2>2. tx' = [tx EXCEPT ![s] = row] /\ UNCHANGED <<order, product, lock, lockO, ghosts>>
    BY <1>5 DEF ReadProduct, Move
  <2> HIDE DEF row
  <2>3. tx' \in [Sessions -> SessionRow] /\ tx'[s] = row /\ \A t \in Sessions \ {s} : tx'[t] = tx[t]
    BY <1>0, <2>1, <2>2 DEF TypeOK
  <2>4. lockO' \in [Orders -> Sessions \cup {None}]
    BY <1>0, <2>2 DEF TypeOK
  <2> QED
    BY <2>1, <2>2, <2>3, <2>4, OrderGoesOn
<1>6. ASSUME NEW s \in Sessions, NEW n \in Stocks, WriteStock(s, n)
      PROVE  StockInv'
  <2> DEFINE p == tx[s].target
  <2>1. p \in Products /\ lock[p] = None /\ n \in Nat /\ Leave(s) /\ UNCHANGED <<order, paid>>
    BY <1>0, <1>6, OrderSetting DEF WriteStock, StockRead
  <2>2. \/ /\ product' = [product EXCEPT ![p].stock = n]
           /\ counted' = [counted EXCEPT ![p] = n]
           /\ sold' = [sold EXCEPT ![p] = 0]
        \/ UNCHANGED <<product, counted, sold>>
    BY <1>6 DEF WriteStock
  <2> HIDE DEF p
  <2>3. /\ product' \in [Products -> ProductRow] /\ counted' \in [Products -> Nat]
        /\ sold' \in [Products -> Nat]
        /\ \A x \in Products : product'[x] = product[x] \/ lock[x] \in {None, s}
    <3>1. [product[p] EXCEPT !.stock = n] \in ProductRow
      BY <1>0, <2>1 DEF TypeOK, ProductRow
    <3>2. product' = [product EXCEPT ![p] = [product[p] EXCEPT !.stock = n]] \/ product' = product
      BY <2>2
    <3>3. /\ product' \in [Products -> ProductRow]
          /\ \A x \in Products : product'[x] = product[x] \/ lock[x] \in {None, s}
      BY <1>0, <2>1, <3>1, <3>2 DEF TypeOK
    <3>4. counted' \in [Products -> Nat] /\ sold' \in [Products -> Nat]
      BY <1>0, <2>1, <2>2 DEF TypeOK
    <3> QED
      BY <3>3, <3>4
  <2> QED
    BY <1>0, <2>1, <2>3, OrderEnds DEF TypeOK, PaidOnly
<1>7. ASSUME NEW s \in Sessions, NEW n \in Prices, WritePrice(s, n)
      PROVE  StockInv'
  <2> DEFINE p == tx[s].target
  <2>1. p \in Products /\ lock[p] = None /\ n \in Nat /\ Leave(s) /\ UNCHANGED <<order, ghosts>>
    BY <1>0, <1>7, OrderSetting DEF WritePrice, StockRead
  <2>2. product' = [product EXCEPT ![p].price = n] \/ product' = product
    BY <1>7 DEF WritePrice
  <2> HIDE DEF p
  <2>3. /\ product' \in [Products -> ProductRow]
        /\ \A x \in Products : product'[x] = product[x] \/ lock[x] \in {None, s}
    BY <1>0, <2>1, <2>2 DEF TypeOK, ProductRow
  <2> QED
    BY <1>0, <2>1, <2>3, OrderEnds DEF TypeOK, PaidOnly, ghosts
<1>8. ASSUME NEW s \in Sessions, DeleteProduct(s)
      PROVE  StockInv'
  <2> DEFINE p == tx[s].target
  <2>1. /\ p \in Products /\ lock[p] = None /\ Leave(s) /\ UNCHANGED <<order, paid>>
        /\ product' = [product EXCEPT ![p] = Unread]
        /\ counted' = [counted EXCEPT ![p] = 0]
        /\ sold' = [sold EXCEPT ![p] = 0]
    BY <1>0, <1>8 DEF DeleteProduct, StockRead
  <2> HIDE DEF p
  <2>2. /\ product' \in [Products -> ProductRow] /\ counted' \in [Products -> Nat]
        /\ sold' \in [Products -> Nat]
        /\ \A x \in Products : product'[x] = product[x] \/ lock[x] \in {None, s}
    BY <1>0, <2>1, OrderIdle DEF TypeOK
  <2> QED
    BY <1>0, <2>1, <2>2, OrderEnds DEF TypeOK, PaidOnly
<1>9. ASSUME NEW s \in Sessions, NEW o \in Orders, NEW target \in Targets, ReadOrder(s, o, target)
      PROVE  StockInv'
  <2> DEFINE row == [Idle EXCEPT !.pc = "moving", !.order = o, !.target = target, !.seen = order[o]]
  <2>1. target \in OrderStatus /\ order[o] \in OrderStatus
    BY <1>0, <1>9, OrderSetting DEF ReadOrder, TypeOK
  <2>2. row \in SessionRow /\ row.pc = "moving" /\ row.target = target /\ row.order = o /\ row.seen = order[o]
    BY <2>1, OrderIdle DEF Idle, SessionRow
  <2>3. tx' = [tx EXCEPT ![s] = row] /\ UNCHANGED <<order, product, lock, lockO, ghosts>>
    BY <1>9 DEF ReadOrder, Move
  <2> HIDE DEF row
  <2>4. tx' \in [Sessions -> SessionRow] /\ tx'[s] = row /\ \A t \in Sessions \ {s} : tx'[t] = tx[t]
    BY <1>0, <2>2, <2>3 DEF TypeOK
  <2>5. lockO' \in [Orders -> Sessions \cup {None}]
    BY <1>0, <2>3 DEF TypeOK
  <2>6. order[o] \in PaidStatus => o \in paid
    BY <1>0 DEF PaidOnly
  <2> QED
    BY <2>1, <2>2, <2>3, <2>4, <2>5, <2>6, OrderGoesOn
<1>10. ASSUME NEW s \in Sessions, LockOrder(s)
       PROVE  StockInv'
  <2>1. CASE ValidOrderMove(tx[s].seen, tx[s].target)
    <3> DEFINE row == [tx[s] EXCEPT !.pc = "moved"]
    <3>1. /\ tx[s].pc = "moving" /\ tx[s].order \in Orders /\ tx[s].target \in OrderStatus
          /\ tx[s].seen \in OrderStatus /\ tx[s] \in SessionRow
          /\ tx[s].seen \in PaidStatus => tx[s].order \in paid
      BY <1>0, <1>10 DEF LockOrder, StockRead, PaidOnly, TypeOK
    <3>2. /\ row \in SessionRow /\ row.pc = "moved" /\ row.order = tx[s].order
          /\ row.target = tx[s].target /\ row.seen = tx[s].seen
      BY <3>1 DEF SessionRow
    <3>3. /\ tx' = [tx EXCEPT ![s] = row] /\ lockO' = [lockO EXCEPT ![tx[s].order] = s]
          /\ UNCHANGED <<order, product, lock, ghosts>>
      BY <1>10, <2>1 DEF LockOrder, Move
    <3> HIDE DEF row
    <3>4. tx' \in [Sessions -> SessionRow] /\ tx'[s] = row /\ \A t \in Sessions \ {s} : tx'[t] = tx[t]
      BY <1>0, <3>2, <3>3 DEF TypeOK
    <3>5. lockO' \in [Orders -> Sessions \cup {None}]
      BY <1>0, <3>1, <3>3 DEF TypeOK
    <3> QED
      BY <2>1, <3>1, <3>2, <3>3, <3>4, <3>5, OrderGoesOn
  <2>2. CASE ~ ValidOrderMove(tx[s].seen, tx[s].target)
    BY <1>3, <1>10, <2>2 DEF LockOrder
  <2> QED
    BY <2>1, <2>2
<1>11. ASSUME NEW s \in Sessions, CommitMove(s)
       PROVE  StockInv'
  <2> DEFINE o == tx[s].order
             status == IF tx[s].seen = tx[s].target THEN order[o] ELSE tx[s].target
  <2>1. /\ tx[s].pc = "moved" /\ o \in Orders /\ tx[s].target \in OrderStatus
        /\ tx[s].seen \in OrderStatus /\ ValidOrderMove(tx[s].seen, tx[s].target)
        /\ tx[s].seen \in PaidStatus => o \in paid
    BY <1>0, <1>11 DEF CommitMove, StockRead, PaidOnly
  <2>2. /\ order' = [order EXCEPT ![o] = status] /\ Leave(s)
        /\ paid' = IF status = "PAID" THEN paid \cup {o} ELSE paid
        /\ UNCHANGED <<product, counted, sold>>
    BY <1>11 DEF CommitMove
  <2>3. status \in {"NONE"} \cup OrderStatus
    BY <1>0, <2>1 DEF TypeOK
  <2>4. status \in PaidStatus => o \in paid \/ status = "PAID"
    BY <1>0, <2>1, StatusMoves DEF PaidOnly
  <2> HIDE DEF o, status
  <2>5. /\ order' \in [Orders -> {"NONE"} \cup OrderStatus]
        /\ paid' \subseteq Orders /\ paid \subseteq paid'
        /\ \A x \in Orders : order'[x] \in PaidStatus => x \in paid'
    BY <1>0, <2>1, <2>2, <2>3, <2>4 DEF TypeOK, PaidOnly
  <2> QED
    BY <1>0, <2>2, <2>5, OrderEnds DEF TypeOK
<1>12. ASSUME UNCHANGED vars
       PROVE  StockInv'
  BY <1>0, <1>12 DEF vars, ghosts, StockInv, TypeOK, LinesHeld, StockRead, LockedIsCurrent, PaidOnly
<1>13. ASSUME NEW s \in Sessions, RefuseLine(s) \/ Victim(s) \/ Crash(s)
       PROVE  StockInv'
  BY <1>3, <1>13 DEF RefuseLine, Victim, Crash
<1> QED
  BY <1>1, <1>2, <1>4, <1>5, <1>6, <1>7, <1>8, <1>9, <1>10, <1>11, <1>12, <1>13
     DEF Next, Step, Quiet
-----------------------------------------------------------------------------
(* No basket names a product on two lines.  The code takes such a basket,    *)
(* and its second line undoes the first.                                     *)
OneLineEach ==
  \A items \in Baskets : \A i, j \in DOMAIN items : items[i].product = items[j].product => i = j

(* The copy of a locked product is the product less what is ordered.         *)
Deducted ==
  \A s \in Sessions : tx[s].pc = "ordering" =>
    \A i \in 1 .. tx[s].line :
      tx[s].row[tx[s].items[i].product].stock = product[tx[s].items[i].product].stock - tx[s].items[i].qty

(* The copies of a session that still orders after the step of another are   *)
(* as good as before.                                                        *)
LEMMA DeductedEnd ==
  ASSUME StockInv, Deducted, NEW s \in Sessions, Leave(s),
         \A p \in Products : product'[p].stock = product[p].stock \/ lock[p] \in {None, s}
  PROVE  Deducted'
<1> SUFFICES ASSUME NEW t \in Sessions, tx'[t].pc = "ordering", NEW i \in 1 .. tx'[t].line
             PROVE  tx'[t].row[tx'[t].items[i].product].stock
                    = product'[tx'[t].items[i].product].stock - tx'[t].items[i].qty
  BY DEF Deducted
<1>1. t # s /\ tx'[t] = tx[t]
  BY OrderLeaves DEF StockInv
<1>2. tx[t].pc = "ordering" /\ i \in 1 .. tx[t].line
  BY <1>1
<1>3. tx[t].items \in Baskets /\ i \in 1 .. Len(tx[t].items) /\ lock[tx[t].items[i].product] = t
  BY <1>2, BasketLines DEF StockInv, LinesHeld
<1>4. product'[tx[t].items[i].product].stock = product[tx[t].items[i].product].stock
  BY <1>1, <1>3, BasketLines, OrderSetting
<1> QED
  BY <1>1, <1>2, <1>4 DEF Deducted

LEMMA AccountedStep ==
  ASSUME OneLineEach, StockInv, Deducted, StockAccounted, [Next]_vars
  PROVE  Deducted' /\ StockAccounted'
<1>0. TypeOK /\ LinesHeld /\ StockRead
  BY DEF StockInv
<1>1. ASSUME NEW s \in Sessions, tx'[s].pc # "ordering", \A t \in Sessions \ {s} : tx'[t] = tx[t],
             UNCHANGED <<product, ghosts>>
      PROVE  Deducted' /\ StockAccounted'
  <2>1. \A t \in Sessions : tx'[t].pc = "ordering" => tx'[t] = tx[t]
    BY <1>1
  <2>2. Deducted'
    BY <1>1, <2>1 DEF Deducted
  <2> QED
    BY <1>1, <2>2 DEF StockAccounted, ghosts
<1>2. ASSUME NEW s \in Sessions, NEW o \in Orders, NEW items \in Baskets, StartOrder(s, o, items)
      PROVE  Deducted' /\ StockAccounted'
  <2>1. /\ tx'[s].line = 0 /\ \A t \in Sessions \ {s} : tx'[t] = tx[t]
        /\ UNCHANGED <<product, ghosts>>
    BY <1>0, <1>2 DEF StartOrder, Move, Idle, TypeOK
  <2>2. \A t \in Sessions : tx'[t] = tx[t] \/ tx'[t].line = 0
    BY <2>1
  <2>3. Deducted'
    BY <2>1, <2>2 DEF Deducted
  <2> QED
    BY <2>1, <2>3 DEF StockAccounted, ghosts
<1>3. ASSUME NEW s \in Sessions, LockLine(s)
      PROVE  Deducted' /\ StockAccounted'
  <2> DEFINE i == tx[s].line + 1
             p == NextLine(s).product
             q == NextLine(s).qty
  <2>1. /\ tx[s].pc = "ordering" /\ tx[s].items \in Baskets
        /\ tx[s].line \in 0 .. Len(tx[s].items) /\ tx[s].line < Len(tx[s].items)
        /\ tx[s].row \in [Products -> ProductRow]
    BY <1>0, <1>3 DEF LockLine, LinesHeld, TypeOK, SessionRow
  <2>2. i \in DOMAIN tx[s].items /\ i \in Nat
    BY <2>1, BasketLines
  <2>3. p \in Products /\ p = tx[s].items[i].product /\ q = tx[s].items[i].qty
    BY <2>1, <2>2, BasketLines DEF NextLine
  <2>4. /\ tx' = [tx EXCEPT ![s] = [tx[s] EXCEPT !.line = i, !.row = [tx[s].row EXCEPT ![p] = Deduct(product[p], q)]]]
        /\ UNCHANGED <<product, ghosts>>
    BY <1>3 DEF LockLine, Move
  <2>5. Deduct(product[p], q).stock = product[p].stock - q
    BY <1>0, <2>3 DEF Deduct, TypeOK, ProductRow
  <2> HIDE DEF p, q, i
  <2>6. /\ tx'[s].line = i /\ tx'[s].items = tx[s].items
        /\ tx'[s].row = [tx[s].row EXCEPT ![p] = Deduct(product[p], q)]
        /\ \A t \in Sessions \ {s} : tx'[t] = tx[t]
    BY <1>0, <2>4 DEF TypeOK, SessionRow
  <2>7. Deducted'
    <3> SUFFICES ASSUME NEW t \in Sessions, tx'[t].pc = "ordering", NEW j \in 1 .. tx'[t].line
                 PROVE  tx'[t].row[tx'[t].items[j].product].stock
                        = product[tx'[t].items[j].product].stock - tx'[t].items[j].qty
      BY <2>4 DEF Deducted
    <3>1. CASE t # s
      BY <2>6, <3>1 DEF Deducted
    <3>2. CASE t = s /\ j = i
      BY <2>1, <2>3, <2>5, <2>6, <3>2
    <3>3. CASE t = s /\ j # i
      <4>1. j \in 1 .. tx[s].line /\ j \in DOMAIN tx[s].items
        BY <2>1, <2>6, <3>3, BasketLines DEF i
      <4> DEFINE x == tx[s].items[j].product
      <4>2. x # p /\ x \in Products
        BY <2>1, <2>2, <2>3, <3>3, <4>1, BasketLines DEF OneLineEach
      <4>3. tx'[s].row[x] = tx[s].row[x]
        BY <2>1, <2>6, <4>2
      <4>4. tx[s].row[x].stock = product[x].stock - tx[s].items[j].qty
        BY <2>1, <4>1 DEF Deducted
      <4> QED
        BY <2>6, <3>3, <4>3, <4>4
    <3> QED
      BY <3>1, <3>2, <3>3
  <2> QED
    BY <2>4, <2>7 DEF StockAccounted, ghosts
<1>4. ASSUME NEW s \in Sessions, Leave(s), UNCHANGED <<product, counted, sold>>
      PROVE  Deducted' /\ StockAccounted'
  BY <1>4, DeductedEnd DEF StockAccounted
<1>5. ASSUME NEW s \in Sessions, CommitOrder(s)
      PROVE  Deducted' /\ StockAccounted'
  <2> DEFINE items == tx[s].items
  <2>1. /\ items \in Baskets /\ tx[s].line = Len(items) /\ tx[s].pc = "ordering" /\ Leave(s)
        /\ product' = [p \in Products |-> IF InBasket(items, p) THEN tx[s].row[p] ELSE product[p]]
        /\ sold' = [p \in Products |-> sold[p] + Ordered(items, p)]
        /\ counted' = counted
    BY <1>0, <1>5 DEF CommitOrder, LinesHeld
  <2>2. ASSUME NEW p \in Products
        PROVE  /\ product'[p].stock = product[p].stock \/ lock[p] \in {None, s}
               /\ product'[p].stock + sold'[p] = counted'[p]
    <3>1. /\ product[p].stock + sold[p] = counted[p]
          /\ product[p].stock \in Nat /\ sold[p] \in Nat /\ counted[p] \in Nat
      BY <1>0 DEF StockAccounted, TypeOK, ProductRow
    <3>2. CASE InBasket(items, p)
      <4>1. PICK i \in DOMAIN items : items[i].product = p
        BY <3>2 DEF InBasket
      <4>2. i \in 1 .. tx[s].line
        BY <2>1, BasketLines
      <4>3. lock[p] = s
        BY <1>0, <2>1, <4>1, <4>2 DEF LinesHeld
      <4>4. tx[s].row[p].stock = product[p].stock - items[i].qty
        BY <2>1, <4>1, <4>2 DEF Deducted
      <4>5. Ordered(items, p) = items[i].qty
        BY <2>1, <4>1, OrderedFacts DEF OneLineEach
      <4>6. items[i].qty \in Nat
        BY <2>1, BasketLines
      <4>7. product'[p] = tx[s].row[p] /\ sold'[p] = sold[p] + items[i].qty
        BY <2>1, <3>2, <4>5
      <4> HIDE DEF items
      <4> QED
        BY <2>1, <3>1, <4>3, <4>4, <4>6, <4>7
    <3>3. CASE ~ InBasket(items, p)
      <4>1. Ordered(items, p) = 0
        BY <2>1, <3>3, OrderedFacts
      <4>2. product'[p] = product[p] /\ sold'[p] = sold[p] + 0
        BY <2>1, <3>3, <4>1
      <4> QED
        BY <2>1, <3>1, <4>2
    <3> QED
      BY <3>2, <3>3
  <2>3. Deducted'
    BY <2>1, <2>2, DeductedEnd
  <2> QED
    BY <2>2, <2>3 DEF StockAccounted
<1>6. ASSUME NEW s \in Sessions, NEW n \in Stocks, WriteStock(s, n)
      PROVE  Deducted' /\ StockAccounted'
  <2> DEFINE p == tx[s].target
  <2>1. p \in Products /\ lock[p] = None /\ n \in Nat /\ Leave(s)
    BY <1>0, <1>6, OrderSetting DEF WriteStock, StockRead
  <2>2. \/ /\ product' = [product EXCEPT ![p] = [product[p] EXCEPT !.stock = n]]
           /\ counted' = [counted EXCEPT ![p] = n]
           /\ sold' = [sold EXCEPT ![p] = 0]
        \/ UNCHANGED <<product, counted, sold>>
    BY <1>6 DEF WriteStock
  <2> HIDE DEF p
  <2>3. [product[p] EXCEPT !.stock = n].stock = n
    BY <1>0, <2>1 DEF TypeOK, ProductRow
  <2>4. /\ \A x \in Products : product'[x].stock = product[x].stock \/ lock[x] \in {None, s}
        /\ StockAccounted'
    <3>1. ASSUME NEW x \in Products
          PROVE  /\ product'[x].stock = product[x].stock \/ lock[x] \in {None, s}
                 /\ product'[x].stock + sold'[x] = counted'[x]
      <4>1. CASE UNCHANGED <<product, counted, sold>>
        BY <4>1 DEF StockAccounted
      <4>2. CASE x = p /\ ~ UNCHANGED <<product, counted, sold>>
        <5>1. product'[p] = [product[p] EXCEPT !.stock = n] /\ counted'[p] = n /\ sold'[p] = 0
          BY <1>0, <2>1, <2>2, <4>2 DEF TypeOK
        <5> QED
          BY <2>1, <2>3, <4>2, <5>1
      <4>3. CASE x # p /\ ~ UNCHANGED <<product, counted, sold>>
        <5>1. product'[x] = product[x] /\ counted'[x] = counted[x] /\ sold'[x] = sold[x]
          BY <1>0, <2>1, <2>2, <4>3 DEF TypeOK
        <5> QED
          BY <5>1 DEF StockAccounted
      <4> QED
        BY <4>1, <4>2, <4>3
    <3> QED
      BY <3>1 DEF StockAccounted
  <2> QED
    BY <2>1, <2>4, DeductedEnd
<1>7. ASSUME NEW s \in Sessions, NEW n \in Prices, WritePrice(s, n)
      PROVE  Deducted' /\ StockAccounted'
  <2> DEFINE p == tx[s].target
  <2>1. p \in Products /\ lock[p] = None /\ Leave(s) /\ UNCHANGED ghosts
    BY <1>0, <1>7 DEF WritePrice, StockRead
  <2>2. product' = [product EXCEPT ![p] = [product[p] EXCEPT !.price = n]] \/ product' = product
    BY <1>7 DEF WritePrice
  <2> HIDE DEF p
  <2>3. [product[p] EXCEPT !.price = n].stock = product[p].stock
    BY <1>0, <2>1 DEF TypeOK, ProductRow
  <2>4. \A x \in Products : product'[x].stock = product[x].stock
    BY <1>0, <2>1, <2>2, <2>3 DEF TypeOK
  <2> QED
    BY <2>1, <2>4, DeductedEnd DEF StockAccounted, ghosts
<1>8. ASSUME NEW s \in Sessions, DeleteProduct(s)
      PROVE  Deducted' /\ StockAccounted'
  <2> DEFINE p == tx[s].target
  <2>1. /\ p \in Products /\ lock[p] = None /\ Leave(s)
        /\ product' = [product EXCEPT ![p] = Unread]
        /\ counted' = [counted EXCEPT ![p] = 0]
        /\ sold' = [sold EXCEPT ![p] = 0]
    BY <1>0, <1>8 DEF DeleteProduct, StockRead
  <2> HIDE DEF p
  <2>2. /\ \A x \in Products : product'[x].stock = product[x].stock \/ lock[x] \in {None, s}
        /\ StockAccounted'
    BY <1>0, <2>1 DEF StockAccounted, TypeOK, Unread
  <2> QED
    BY <2>1, <2>2, DeductedEnd
<1>9. ASSUME NEW s \in Sessions, NEW p \in Products, ReadProduct(s, p)
      PROVE  Deducted' /\ StockAccounted'
  <2>1. tx'[s].pc = "editing" /\ \A t \in Sessions \ {s} : tx'[t] = tx[t]
    BY <1>0, <1>9 DEF ReadProduct, Move, Idle, TypeOK
  <2> QED
    BY <1>1, <1>9, <2>1 DEF ReadProduct
<1>10. ASSUME NEW s \in Sessions, NEW o \in Orders, NEW target \in Targets, ReadOrder(s, o, target)
       PROVE  Deducted' /\ StockAccounted'
  <2>1. tx'[s].pc = "moving" /\ \A t \in Sessions \ {s} : tx'[t] = tx[t]
    BY <1>0, <1>10 DEF ReadOrder, Move, Idle, TypeOK
  <2> QED
    BY <1>1, <1>10, <2>1 DEF ReadOrder
<1>11. ASSUME NEW s \in Sessions, LockOrder(s)
       PROVE  Deducted' /\ StockAccounted'
  <2>1. CASE ValidOrderMove(tx[s].seen, tx[s].target)
    <3>1. tx'[s].pc = "moved" /\ \A t \in Sessions \ {s} : tx'[t] = tx[t]
      BY <1>0, <1>11, <2>1 DEF LockOrder, Move, TypeOK, SessionRow
    <3> QED
      BY <1>1, <1>11, <3>1 DEF LockOrder
  <2>2. CASE ~ ValidOrderMove(tx[s].seen, tx[s].target)
    BY <1>4, <1>11, <2>2 DEF LockOrder, ghosts
  <2> QED
    BY <2>1, <2>2
<1>12. ASSUME NEW s \in Sessions, RefuseLine(s) \/ Victim(s) \/ CommitMove(s) \/ Crash(s)
       PROVE  Deducted' /\ StockAccounted'
  BY <1>4, <1>12 DEF RefuseLine, Victim, CommitMove, Crash, ghosts
<1>13. ASSUME UNCHANGED vars
       PROVE  Deducted' /\ StockAccounted'
  BY <1>13 DEF vars, ghosts, Deducted, StockAccounted
<1> QED
  BY <1>2, <1>3, <1>5, <1>6, <1>7, <1>8, <1>9, <1>10, <1>11, <1>12, <1>13 DEF Next, Step, Quiet

LEMMA AccountedInit == Init => Deducted /\ StockAccounted
  BY OrderSetting, OrderIdle DEF Init, Deducted, StockAccounted

LEMMA StockKept == Spec => []StockInv
  BY StockInit, StockStep, PTL DEF Spec

(* A request that has locked a product (create_order_with_items) or an order *)
(* (transition_status) works on what is stored, whoever writes meanwhile.    *)
THEOREM LocksHold == Spec => []LockedIsCurrent
<1>1. StockInv => LockedIsCurrent
  BY DEF StockInv
<1> QED
  BY <1>1, StockKept, PTL

(* Status updates that overwrite each other complete no unpaid order.        *)
THEOREM PaidFirst == Spec => []NothingFulfilledUnpaid
<1>1. StockInv => NothingFulfilledUnpaid
  BY OrderStatuses DEF StockInv, PaidOnly, NothingFulfilledUnpaid
<1> QED
  BY <1>1, StockKept, PTL

(* If no basket names a product twice, the stock is what was counted less    *)
(* what was sold since.                                                      *)
THEOREM StockAdds == ASSUME OneLineEach PROVE Spec => []StockAccounted
<1>1. Init => StockInv /\ Deducted /\ StockAccounted
  BY StockInit, AccountedInit
<1>2. /\ StockInv /\ Deducted /\ StockAccounted
      /\ [Next]_vars
      => (StockInv /\ Deducted /\ StockAccounted)'
  BY StockStep, AccountedStep
<1> QED
  BY <1>1, <1>2, PTL DEF Spec
-----------------------------------------------------------------------------
(* The refinement of StockLedger: an order that is being placed is not there *)
(* yet and belongs to one session, and the copies it will write are on sale. *)
Placing ==
  /\ \A s \in Sessions : tx[s].pc = "ordering" =>
       /\ order[tx[s].order] = "NONE"
       /\ \A t \in Sessions : tx[t].pc = "ordering" /\ tx[t].order = tx[s].order => t = s
       /\ \A i \in 1 .. tx[s].line : tx[s].row[tx[s].items[i].product].live
  /\ \A s \in Sessions : tx[s].pc \in {"moving", "moved"} => order[tx[s].order] # "NONE"

LEMMA NoneIsNoStatus == "NONE" \notin OrderStatus
  BY DEF OrderStatus, ALLOWED_ORDER_TRANSITIONS

LEMMA PlacingInit == Init => Placing
  BY OrderIdle DEF Init, Placing

(* A session that does not order any more, or not yet, disturbs no order     *)
(* that is being placed.                                                     *)
LEMMA PlacingKept ==
  ASSUME Placing, NEW s \in Sessions, tx'[s].pc # "ordering",
         \A t \in Sessions \ {s} : tx'[t] = tx[t],
         \A t \in Sessions \ {s} : tx[t].pc = "ordering" => order'[tx[t].order] = "NONE",
         \A t \in Sessions \ {s} :
           tx[t].pc \in {"moving", "moved"} => order'[tx[t].order] # "NONE",
         tx'[s].pc \in {"moving", "moved"} => order'[tx'[s].order] # "NONE"
  PROVE  Placing'
<1>1. \A t \in Sessions : tx'[t].pc = "ordering" => t # s /\ tx'[t] = tx[t]
  OBVIOUS
<1>2. \A t \in Sessions : tx'[t].pc \in {"moving", "moved"} => order'[tx'[t].order] # "NONE"
  OBVIOUS
<1> QED
  BY <1>1, <1>2 DEF Placing

LEMMA PlacingStep ==
  ASSUME StockInv, Placing, [Next]_vars
  PROVE  Placing'
<1>0. TypeOK /\ LinesHeld /\ StockRead
  BY DEF StockInv
<1>1. ASSUME NEW s \in Sessions, \A t \in Sessions \ {s} : tx'[t] = tx[t],
             tx'[s].pc # "ordering", UNCHANGED order,
             tx'[s].pc \in {"moving", "moved"} => order[tx'[s].order] # "NONE"
      PROVE  Placing'
  BY <1>1, PlacingKept DEF Placing
<1>2. ASSUME NEW s \in Sessions, NEW o \in Orders, NEW items \in Baskets, StartOrder(s, o, items)
      PROVE  Placing'
  <2>1. /\ tx'[s].pc = "ordering" /\ tx'[s].order = o /\ tx'[s].line = 0
        /\ \A t \in Sessions \ {s} : tx'[t] = tx[t]
        /\ order[o] = "NONE" /\ order' = order
        /\ \A t \in Sessions : tx[t].order # o
    BY <1>0, <1>2 DEF StartOrder, Move, Idle, TypeOK
  <2>2. \A i \in 1 .. tx'[s].line : FALSE
    BY <2>1
  <2>3. \A t \in Sessions : t = s \/ tx'[t] = tx[t]
    BY <2>1
  <2> QED
    BY <2>1, <2>2, <2>3 DEF Placing
<1>3. ASSUME NEW s \in Sessions, LockLine(s)
      PROVE  Placing'
  <2> DEFINE i == tx[s].line + 1
             p == NextLine(s).product
             new == Deduct(product[p], NextLine(s).qty)
  <2>1. /\ tx[s].pc = "ordering" /\ tx[s].items \in Baskets
        /\ tx[s].line \in 0 .. Len(tx[s].items) /\ tx[s].line < Len(tx[s].items)
        /\ tx[s].row \in [Products -> ProductRow] /\ order' = order
        /\ product[p].live
    BY <1>0, <1>3 DEF LockLine, LinesHeld, TypeOK, SessionRow, CanSell
  <2>2. i \in DOMAIN tx[s].items /\ i \in Nat
    BY <2>1, BasketLines
  <2>3. p \in Products /\ p = tx[s].items[i].product
    BY <2>1, <2>2, BasketLines DEF NextLine
  <2>4. tx' = [tx EXCEPT ![s] = [tx[s] EXCEPT !.line = i, !.row = [tx[s].row EXCEPT ![p] = new]]]
    BY <1>3 DEF LockLine, Move
  <2>5. new.live
    BY <1>0, <2>1, <2>3 DEF Deduct, TypeOK, ProductRow
  <2> HIDE DEF p, i, new
  <2>6. /\ tx'[s].line = i /\ tx'[s].items = tx[s].items /\ tx'[s].pc = "ordering"
        /\ tx'[s].order = tx[s].order
        /\ tx'[s].row = [tx[s].row EXCEPT ![p] = new]
        /\ \A t \in Sessions \ {s} : tx'[t] = tx[t]
    BY <1>0, <2>1, <2>4 DEF TypeOK, SessionRow
  <2>7. ASSUME NEW j \in 1 .. tx'[s].line
        PROVE  tx'[s].row[tx'[s].items[j].product].live
    <3>1. CASE tx[s].items[j].product = p
      BY <2>1, <2>3, <2>5, <2>6, <3>1
    <3>2. CASE tx[s].items[j].product # p
      <4>1. j \in 1 .. tx[s].line /\ j \in DOMAIN tx[s].items
        BY <2>1, <2>3, <2>6, <3>2, BasketLines DEF i
      <4>2. tx[s].items[j].product \in Products
        BY <2>1, <4>1, BasketLines
      <4>3. tx'[s].row[tx[s].items[j].product] = tx[s].row[tx[s].items[j].product]
        BY <2>1, <2>6, <3>2, <4>2
      <4> QED
        BY <2>1, <2>6, <4>1, <4>3 DEF Placing
    <3> QED
      BY <3>1, <3>2
  <2>8. \A t \in Sessions : /\ tx'[t].pc = tx[t].pc /\ tx'[t].order = tx[t].order
                            /\ t = s \/ tx'[t] = tx[t]
    BY <2>1, <2>6
  <2>9. \A t \in Sessions : tx'[t].pc = "ordering" =>
          \A j \in 1 .. tx'[t].line : tx'[t].row[tx'[t].items[j].product].live
    BY <2>7, <2>8 DEF Placing
  <2> QED
    BY <2>1, <2>8, <2>9 DEF Placing
<1>4. ASSUME NEW s \in Sessions, Leave(s), UNCHANGED order
      PROVE  Placing'
  BY <1>0, <1>1, <1>4, OrderLeaves
<1>5. ASSUME NEW s \in Sessions, CommitOrder(s)
      PROVE  Placing'
  <2>1. /\ tx[s].pc = "ordering" /\ tx[s].order \in Orders /\ Leave(s)
        /\ order' = [order EXCEPT ![tx[s].order] = "ORDER_CREATED"]
    BY <1>0, <1>5 DEF CommitOrder, LinesHeld
  <2>2. \A t \in Sessions \ {s} : tx[t].pc = "ordering" => order'[tx[t].order] = "NONE"
    BY <1>0, <2>1 DEF Placing, TypeOK, LinesHeld
  <2>3. \A t \in Sessions \ {s} : tx[t].pc \in {"moving", "moved"} => order'[tx[t].order] # "NONE"
    BY <1>0, <2>1 DEF Placing, TypeOK, StockRead
  <2> QED
    BY <1>0, <2>1, <2>2, <2>3, OrderLeaves, PlacingKept
<1>6. ASSUME NEW s \in Sessions, CommitMove(s)
      PROVE  Placing'
  <2> DEFINE o == tx[s].order
             status == IF tx[s].seen = tx[s].target THEN order[o] ELSE tx[s].target
  <2>1. /\ tx[s].pc = "moved" /\ o \in Orders /\ Leave(s) /\ order[o] # "NONE"
        /\ order' = [order EXCEPT ![o] = status]
        /\ status # "NONE"
    BY <1>0, <1>6, NoneIsNoStatus DEF CommitMove, StockRead, Placing
  <2> HIDE DEF o, status
  <2>2. \A t \in Sessions \ {s} : tx[t].pc = "ordering" => order'[tx[t].order] = "NONE"
    BY <1>0, <2>1 DEF Placing, TypeOK, LinesHeld
  <2>3. \A t \in Sessions \ {s} : tx[t].pc \in {"moving", "moved"} => order'[tx[t].order] # "NONE"
    BY <1>0, <2>1 DEF Placing, TypeOK, StockRead
  <2> QED
    BY <1>0, <2>1, <2>2, <2>3, OrderLeaves, PlacingKept
<1>7. ASSUME NEW s \in Sessions, NEW p \in Products, ReadProduct(s, p)
      PROVE  Placing'
  <2>1. tx'[s].pc = "editing" /\ \A t \in Sessions \ {s} : tx'[t] = tx[t]
    BY <1>0, <1>7 DEF ReadProduct, Move, Idle, TypeOK
  <2> QED
    BY <1>1, <1>7, <2>1 DEF ReadProduct
<1>8. ASSUME NEW s \in Sessions, NEW o \in Orders, NEW target \in Targets, ReadOrder(s, o, target)
      PROVE  Placing'
  <2>1. /\ tx'[s].pc = "moving" /\ tx'[s].order = o /\ order[o] # "NONE"
        /\ \A t \in Sessions \ {s} : tx'[t] = tx[t]
    BY <1>0, <1>8 DEF ReadOrder, Move, Idle, TypeOK
  <2> QED
    BY <1>1, <1>8, <2>1 DEF ReadOrder
<1>9. ASSUME NEW s \in Sessions, LockOrder(s)
      PROVE  Placing'
  <2>1. CASE ValidOrderMove(tx[s].seen, tx[s].target)
    <3>1. /\ tx[s].pc = "moving" /\ tx'[s].pc = "moved" /\ tx'[s].order = tx[s].order
          /\ \A t \in Sessions \ {s} : tx'[t] = tx[t]
      BY <1>0, <1>9, <2>1 DEF LockOrder, Move, TypeOK, SessionRow
    <3>2. order[tx'[s].order] # "NONE"
      BY <3>1 DEF Placing
    <3> QED
      BY <1>1, <1>9, <3>1, <3>2 DEF LockOrder
  <2>2. CASE ~ ValidOrderMove(tx[s].seen, tx[s].target)
    BY <1>4, <1>9, <2>2 DEF LockOrder
  <2> QED
    BY <2>1, <2>2
<1>10. ASSUME NEW s \in Sessions,
              \/ RefuseLine(s) \/ Victim(s) \/ DeleteProduct(s) \/ Crash(s)
              \/ \E n \in Stocks : WriteStock(s, n)
              \/ \E n \in Prices : WritePrice(s, n)
       PROVE  Placing'
  BY <1>4, <1>10 DEF RefuseLine, Victim, DeleteProduct, Crash, WriteStock, WritePrice
<1>11. ASSUME UNCHANGED vars
       PROVE  Placing'
  BY <1>11 DEF vars, Placing
<1> QED
  BY <1>2, <1>3, <1>5, <1>6, <1>7, <1>8, <1>9, <1>10, <1>11 DEF Next, Step, Quiet

LEMMA ShopInit == Init => Shop!Init
<1> SUFFICES ASSUME Init PROVE Shop!Init
  OBVIOUS
<1>1. /\ [p \in Products |-> product[p].stock] \in [Products -> Nat]
      /\ {p \in Products : product[p].live} = Products
      /\ {o \in Orders : order[o] # "NONE"} = {}
  BY OrderSetting DEF Init
<1> QED
  BY <1>1 DEF Shop!Init

LEMMA ShopStep ==
  ASSUME OneLineEach, StockInv, Deducted, Placing, [Next]_vars
  PROVE  [Shop!Next]_(Shop!shelf)
<1> DEFINE stock  == [p \in Products |-> product[p].stock]
           onSale == {p \in Products : product[p].live}
           placed == {o \in Orders : order[o] # "NONE"}
<1>0. TypeOK /\ LinesHeld /\ StockRead /\ LockedIsCurrent
  BY DEF StockInv
<1>1. ASSUME UNCHANGED <<order, product>>
      PROVE  UNCHANGED Shop!shelf
  BY <1>1 DEF Shop!shelf
<1>2. ASSUME NEW s \in Sessions, CommitOrder(s)
      PROVE  Shop!Next
  <2> DEFINE items == tx[s].items
             o == tx[s].order
             want == [p \in Products |-> Ordered(items, p)]
  <2>1. /\ items \in Baskets /\ tx[s].line = Len(items) /\ tx[s].pc = "ordering"
        /\ o \in Orders /\ order[o] = "NONE"
        /\ product' = [p \in Products |-> IF InBasket(items, p) THEN tx[s].row[p] ELSE product[p]]
        /\ order' = [order EXCEPT ![o] = "ORDER_CREATED"]
    BY <1>0, <1>2 DEF CommitOrder, LinesHeld, Placing
  <2>2. ASSUME NEW p \in Products
        PROVE  /\ Ordered(items, p) \in Nat
               /\ Ordered(items, p) > 0 => product[p].live /\ Ordered(items, p) <= product[p].stock
               /\ product'[p].stock = product[p].stock - Ordered(items, p)
               /\ product'[p].live <=> product[p].live
    <3>1. product[p].stock \in Nat /\ Ordered(items, p) \in Nat /\ tx[s].row[p].stock \in Nat
      BY <1>0, <2>1, OrderedFacts DEF TypeOK, ProductRow, SessionRow
    <3>2. CASE InBasket(items, p)
      <4>1. PICK i \in DOMAIN items : items[i].product = p
        BY <3>2 DEF InBasket
      <4>2. i \in 1 .. tx[s].line
        BY <2>1, BasketLines
      <4>3. tx[s].row[p].stock = product[p].stock - items[i].qty /\ tx[s].row[p].live /\ product[p].live
        BY <1>0, <2>1, <4>1, <4>2 DEF Deducted, Placing, LockedIsCurrent
      <4>4. Ordered(items, p) = items[i].qty
        BY <2>1, <4>1, OrderedFacts DEF OneLineEach
      <4>5. product'[p] = tx[s].row[p]
        BY <2>1, <3>2
      <4> HIDE DEF items
      <4> QED
        BY <3>1, <4>3, <4>4, <4>5
    <3>3. CASE ~ InBasket(items, p)
      <4>1. Ordered(items, p) = 0
        BY <2>1, <3>3, OrderedFacts
      <4>2. product'[p] = product[p]
        BY <2>1, <3>3
      <4> HIDE DEF items
      <4> QED
        BY <3>1, <4>1, <4>2
    <3> QED
      BY <3>2, <3>3
  <2>3. stock' = [p \in Products |-> stock[p] - want[p]]
    BY <2>2
  <2>4. onSale' = onSale
    BY <2>2
  <2>5. placed' = placed \cup {o} /\ o \notin placed
    BY <1>0, <2>1 DEF TypeOK
  <2>6. \A p \in Products : want[p] > 0 => p \in onSale /\ want[p] <= stock[p]
    BY <2>2
  <2>7. want \in {[p \in Products |-> Ordered(b, p)] : b \in Baskets}
    BY <2>1
  <2>8. PICK x \in Orders, w \in {[p \in Products |-> Ordered(b, p)] : b \in Baskets} :
          x = o /\ w = want
    BY <2>1, <2>7
  <2> HIDE DEF o, want, items
  <2>9. Shop!Take(w)
    BY <2>3, <2>6, <2>8 DEF Shop!Take
  <2>10. Shop!Place(x)
    BY <2>4, <2>5, <2>8, <2>9 DEF Shop!Place
  <2> QED
    BY <2>10 DEF Shop!Next
<1>3. ASSUME NEW s \in Sessions, NEW n \in Stocks, WriteStock(s, n)
      PROVE  Shop!Next \/ UNCHANGED Shop!shelf
  <2> DEFINE p == tx[s].target
  <2>1. p \in Products /\ UNCHANGED order
    BY <1>0, <1>3 DEF WriteStock, StockRead
  <2>2. \/ product[p].live /\ product' = [product EXCEPT ![p] = [product[p] EXCEPT !.stock = n]]
        \/ UNCHANGED product
    BY <1>3 DEF WriteStock
  <2> HIDE DEF p
  <2>3. CASE product[p].live /\ product' = [product EXCEPT ![p] = [product[p] EXCEPT !.stock = n]]
    <3>1. [product[p] EXCEPT !.stock = n].stock = n /\ [product[p] EXCEPT !.stock = n].live = product[p].live
      BY <1>0, <2>1 DEF TypeOK, ProductRow
    <3>2. \A x \in Products : /\ product'[x].stock = IF x = p THEN n ELSE product[x].stock
                              /\ product'[x].live = product[x].live
      BY <1>0, <2>1, <2>3, <3>1 DEF TypeOK
    <3>3. stock' = [stock EXCEPT ![p] = n] /\ onSale' = onSale /\ placed' = placed
      BY <2>1, <3>2
    <3>4. PICK x \in Products : x = p
      BY <2>1
    <3>5. Shop!Count(x, n)
      BY <2>3, <3>3, <3>4 DEF Shop!Count
    <3> QED
      BY <3>5 DEF Shop!Next
  <2> QED
    BY <1>1, <2>1, <2>2, <2>3
<1>4. ASSUME NEW s \in Sessions, NEW n \in Prices, WritePrice(s, n)
      PROVE  UNCHANGED Shop!shelf
  <2> DEFINE p == tx[s].target
  <2>1. p \in Products /\ UNCHANGED order
    BY <1>0, <1>4 DEF WritePrice, StockRead
  <2>2. product' = [product EXCEPT ![p] = [product[p] EXCEPT !.price = n]] \/ product' = product
    BY <1>4 DEF WritePrice
  <2> HIDE DEF p
  <2>3. /\ [product[p] EXCEPT !.price = n].stock = product[p].stock
        /\ [product[p] EXCEPT !.price = n].live = product[p].live
    BY <1>0, <2>1 DEF TypeOK, ProductRow
  <2>4. \A x \in Products : product'[x].stock = product[x].stock /\ product'[x].live = product[x].live
    BY <1>0, <2>1, <2>2, <2>3 DEF TypeOK
  <2>5. stock' = stock /\ onSale' = onSale /\ placed' = placed
    BY <2>1, <2>4
  <2> QED
    BY <2>5 DEF Shop!shelf
<1>5. ASSUME NEW s \in Sessions, DeleteProduct(s)
      PROVE  Shop!Next
  <2> DEFINE p == tx[s].target
  <2>1. p \in Products /\ UNCHANGED order /\ product' = [product EXCEPT ![p] = Unread]
    BY <1>0, <1>5 DEF DeleteProduct, StockRead
  <2> HIDE DEF p
  <2>2. Unread.stock = 0 /\ Unread.live = FALSE
    BY DEF Unread
  <2>3. \A x \in Products : /\ product'[x].stock = IF x = p THEN 0 ELSE product[x].stock
                            /\ product'[x].live <=> x # p /\ product[x].live
    BY <1>0, <2>1, <2>2 DEF TypeOK
  <2>4. stock' = [stock EXCEPT ![p] = 0] /\ onSale' = onSale \ {p} /\ placed' = placed
    BY <2>1, <2>3
  <2>5. PICK x \in Products : x = p
    BY <2>1
  <2>6. Shop!Withdraw(x)
    BY <2>4, <2>5 DEF Shop!Withdraw
  <2> QED
    BY <2>6 DEF Shop!Next
<1>6. ASSUME NEW s \in Sessions, CommitMove(s)
      PROVE  UNCHANGED Shop!shelf
  <2> DEFINE x == tx[s].order
             status == IF tx[s].seen = tx[s].target THEN order[x] ELSE tx[s].target
  <2>1. /\ x \in Orders /\ order[x] # "NONE" /\ order' = [order EXCEPT ![x] = status]
        /\ status # "NONE" /\ product' = product
    BY <1>0, <1>6, NoneIsNoStatus DEF CommitMove, StockRead, Placing
  <2> HIDE DEF x, status
  <2>2. placed' = placed
    BY <1>0, <2>1 DEF TypeOK
  <2> QED
    BY <2>1, <2>2 DEF Shop!shelf
<1>7. ASSUME NEW s \in Sessions,
             LockLine(s) \/ RefuseLine(s) \/ Victim(s) \/ LockOrder(s) \/ Crash(s)
      PROVE  UNCHANGED Shop!shelf
  BY <1>1, <1>7 DEF LockLine, RefuseLine, Victim, LockOrder, Crash
<1>8. ASSUME NEW s \in Sessions,
             \/ \E o \in Orders, items \in Baskets : StartOrder(s, o, items)
             \/ \E p \in Products : ReadProduct(s, p)
             \/ \E o \in Orders, target \in Targets : ReadOrder(s, o, target)
      PROVE  UNCHANGED Shop!shelf
  <2>1. ASSUME NEW o \in Orders, NEW items \in Baskets, StartOrder(s, o, items)
        PROVE  UNCHANGED <<order, product>>
    BY <2>1 DEF StartOrder
  <2>2. ASSUME NEW p \in Products, ReadProduct(s, p)
        PROVE  UNCHANGED <<order, product>>
    BY <2>2 DEF ReadProduct
  <2>3. ASSUME NEW o \in Orders, NEW target \in Targets, ReadOrder(s, o, target)
        PROVE  UNCHANGED <<order, product>>
    BY <2>3 DEF ReadOrder
  <2>4. UNCHANGED <<order, product>>
    BY <1>8, <2>1, <2>2, <2>3
  <2> QED
    BY <1>1, <2>4
<1>9. ASSUME UNCHANGED vars
      PROVE  UNCHANGED Shop!shelf
  BY <1>1, <1>9 DEF vars
<1> HIDE DEF stock, onSale, placed
<1> QED
  BY <1>2, <1>3, <1>4, <1>5, <1>6, <1>7, <1>8, <1>9 DEF Next, Step, Quiet

(* If no basket names a product twice, orders are placed whole: the lines    *)
(* and row locks of create_order_with_items implement a shop that takes all  *)
(* an order asks for in one step, or nothing.                                *)
THEOREM ImplementsStockLedger == ASSUME OneLineEach PROVE Spec => StockLedgerSpec
<1>1. Init => StockInv /\ Deducted /\ StockAccounted /\ Placing /\ Shop!Init
  BY StockInit, AccountedInit, PlacingInit, ShopInit
<1>2. /\ StockInv /\ Deducted /\ StockAccounted /\ Placing
      /\ [Next]_vars
      => /\ (StockInv /\ Deducted /\ StockAccounted /\ Placing)'
         /\ [Shop!Next]_(Shop!shelf)
  BY StockStep, AccountedStep, PlacingStep, ShopStep
<1> QED
  BY <1>1, <1>2, PTL DEF Spec, StockLedgerSpec, Shop!Spec
-----------------------------------------------------------------------------
(***************************************************************************)
(* KNOWLEDGE.  A request whose copy is the row writes exactly what it made *)
(* of it (ItemSaved); and of a reviewed copy update_knowledge_item keeps   *)
(* the content or sends it back to DRAFT.                                  *)
(***************************************************************************)

ReviewedStatus == K!Told \cup {"OUTDATED"}

(* A session has a row that exists, and so has what it writes.               *)
ItemsRead ==
  \A s \in Sessions : itemTx[s].item # None =>
    /\ item[itemTx[s].item].status # "NONE"
    /\ itemTx[s].copy.status # "NONE" /\ itemTx[s].copy.content \in Contents

ItemsPresent == \A i \in Items : item[i].status # "NONE" => item[i].content \in Contents

KnowledgeInv == K!TypeOK /\ ItemsRead /\ ItemsPresent
-----------------------------------------------------------------------------
LEMMA ItemColumns ==
  ASSUME NEW db \in K!ItemRow, NEW copy \in K!ItemRow, NEW new \in K!ItemRow
  PROVE  /\ K!Flush(db, copy, new) \in K!ItemRow
         /\ K!Flush(db, copy, new).status = IF new.status # copy.status THEN new.status ELSE db.status
         /\ K!Flush(db, copy, new).content = IF new.content # copy.content THEN new.content ELSE db.content
         /\ K!Flush(db, copy, new).approval = IF new.approval # copy.approval THEN new.approval ELSE db.approval
<1>1. DOMAIN db = {"status", "content", "version", "approval"}
  BY DEF K!ItemRow
<1> QED
  BY <1>1 DEF K!Flush, K!ItemRow

LEMMA ItemRows ==
  /\ K!Absent \in K!ItemRow /\ K!Idle \in K!SessionRow
  /\ \A st \in {"NONE"} \cup K!KnowledgeStatus, c \in Contents \cup {None}, v \in Nat,
        a \in K!Approval \cup {K!NoApproval} :
       [status |-> st, content |-> c, version |-> v, approval |-> a] \in K!ItemRow
<1>1. K!Absent \in K!ItemRow
  BY DEF K!Absent, K!ItemRow
<1> QED
  BY <1>1 DEF K!ItemRow, K!SessionRow, K!Idle

LEMMA KnowledgeStatuses ==
  K!KnowledgeStatus = {"DRAFT", "VALIDATING", "APPROVED", "ACTIVE", "OUTDATED", "ARCHIVED"}
  BY DEF K!KnowledgeStatus, K!VALID_KNOWLEDGE_TRANSITIONS

(* Only an item that was reviewed goes on to a status customers see.         *)
LEMMA OnlyFromReviewed ==
  ASSUME NEW from \in K!KnowledgeStatus, NEW to \in ReviewedStatus, K!ValidKnowledgeMove(from, to)
  PROVE  from \in ReviewedStatus
  BY KnowledgeStatuses DEF K!ValidKnowledgeMove, K!VALID_KNOWLEDGE_TRANSITIONS, ReviewedStatus, K!Told

LEMMA KnowledgeInit == K!Init => KnowledgeInv
<1> SUFFICES ASSUME K!Init PROVE KnowledgeInv
  OBVIOUS
<1>1. K!TypeOK
  BY ItemRows DEF K!Init, K!TypeOK
<1>2. ItemsRead
  BY DEF K!Init, ItemsRead, K!Idle
<1>3. ItemsPresent
  BY DEF K!Init, ItemsPresent, K!Absent
<1> QED
  BY <1>1, <1>2, <1>3 DEF KnowledgeInv

(* A session gives up its copy; the rows and approvals are as they were.     *)
LEMMA ItemForgotten ==
  ASSUME KnowledgeInv, NEW s \in Sessions, K!Leave(s), UNCHANGED <<item, approvals>>
  PROVE  KnowledgeInv'
<1>1. itemTx' \in [Sessions -> K!SessionRow] /\ itemTx'[s].item = None
  BY ItemRows DEF KnowledgeInv, K!TypeOK, K!Leave, K!Idle
<1>2. \A t \in Sessions : t # s => itemTx'[t] = itemTx[t]
  BY DEF KnowledgeInv, K!TypeOK, K!Leave
<1>3. K!TypeOK'
  BY <1>1 DEF KnowledgeInv, K!TypeOK
<1>4. ItemsRead'
  BY <1>1, <1>2 DEF KnowledgeInv, ItemsRead
<1> QED
  BY <1>3, <1>4 DEF KnowledgeInv, ItemsPresent

(* A session writes the row of its item.                                     *)
LEMMA ItemWritten ==
  ASSUME KnowledgeInv, NEW s \in Sessions, itemTx[s].item # None, K!Leave(s),
         NEW row \in K!ItemRow, item' = [item EXCEPT ![itemTx[s].item] = row],
         row.status # "NONE", row.content \in Contents, approvals' \subseteq K!Approval
  PROVE  KnowledgeInv'
<1> DEFINE i == itemTx[s].item
<1>1. i \in Items
  BY DEF KnowledgeInv, K!TypeOK, K!SessionRow
<1>4. item' \in [Items -> K!ItemRow] /\ item'[i] = row /\ \A j \in Items : j # i => item'[j] = item[j]
  BY <1>1 DEF KnowledgeInv, K!TypeOK
<1>5. itemTx' \in [Sessions -> K!SessionRow] /\ itemTx'[s].item = None
  BY ItemRows DEF KnowledgeInv, K!TypeOK, K!Leave, K!Idle
<1>6. \A t \in Sessions : t # s => itemTx'[t] = itemTx[t]
  BY DEF KnowledgeInv, K!TypeOK, K!Leave
<1>7. K!TypeOK'
  BY <1>4, <1>5 DEF K!TypeOK
<1> HIDE DEF i
<1>8. ItemsRead'
  <2> SUFFICES ASSUME NEW t \in Sessions, itemTx'[t].item # None
               PROVE  /\ item'[itemTx'[t].item].status # "NONE"
                      /\ itemTx'[t].copy.status # "NONE" /\ itemTx'[t].copy.content \in Contents
    BY DEF ItemsRead
  <2>1. t # s /\ itemTx'[t] = itemTx[t]
    BY <1>5, <1>6
  <2>2. itemTx[t].item \in Items
    BY <2>1 DEF KnowledgeInv, K!TypeOK, K!SessionRow
  <2> QED
    BY <1>4, <2>1, <2>2 DEF KnowledgeInv, ItemsRead
<1>9. ItemsPresent'
  BY <1>4 DEF KnowledgeInv, ItemsPresent
<1> QED
  BY <1>7, <1>8, <1>9 DEF KnowledgeInv

(* What a session changed of its copy, column by column.                     *)
LEMMA ItemSaved ==
  ASSUME KnowledgeInv, NEW s \in Sessions, NEW new \in K!ItemRow, itemTx[s].item # None, K!Save(s, new),
         new.status # "NONE", new.content \in Contents, approvals' = approvals
  PROVE  /\ KnowledgeInv'
         /\ itemTx[s].copy = item[itemTx[s].item] =>
              /\ item'[itemTx[s].item].status = new.status
              /\ item'[itemTx[s].item].content = new.content
              /\ item'[itemTx[s].item].approval = new.approval
<1> DEFINE i == itemTx[s].item
           copy == itemTx[s].copy
           row == K!Flush(item[i], copy, new)
<1>1. i \in Items /\ copy \in K!ItemRow /\ item[i] \in K!ItemRow /\ item \in [Items -> K!ItemRow]
  BY DEF KnowledgeInv, K!TypeOK, K!SessionRow
<1>2. /\ row \in K!ItemRow
      /\ row.status = IF new.status # copy.status THEN new.status ELSE item[i].status
      /\ row.content = IF new.content # copy.content THEN new.content ELSE item[i].content
      /\ row.approval = IF new.approval # copy.approval THEN new.approval ELSE item[i].approval
  BY <1>1, ItemColumns
<1>3. item' = [item EXCEPT ![i] = row] /\ K!Leave(s)
  BY DEF K!Save
<1> HIDE DEF row
<1>4. item'[i] = row
  BY <1>1, <1>2, <1>3
<1>5. row.status # "NONE" /\ row.content \in Contents
  BY <1>1, <1>2 DEF KnowledgeInv, ItemsRead, ItemsPresent
<1>6. KnowledgeInv'
  BY <1>2, <1>3, <1>5, ItemWritten DEF KnowledgeInv, K!TypeOK
<1> QED
  BY <1>2, <1>4, <1>6

LEMMA ItemCreated ==
  ASSUME KnowledgeInv, NEW i \in Items, NEW content \in Contents, K!CreateItem(i, content)
  PROVE  KnowledgeInv'
<1> DEFINE row == [K!Absent EXCEPT !.status = "DRAFT", !.content = content, !.version = 1]
<1>1. row \in K!ItemRow /\ row.status = "DRAFT" /\ row.content = content
  BY ItemRows, KnowledgeStatuses DEF K!Absent, K!ItemRow
<1>2. item' = [item EXCEPT ![i] = row] /\ UNCHANGED <<itemTx, approvals>>
  BY DEF K!CreateItem
<1> HIDE DEF row
<1>3. item' \in [Items -> K!ItemRow] /\ item'[i] = row /\ \A j \in Items : j # i => item'[j] = item[j]
  BY <1>1, <1>2 DEF KnowledgeInv, K!TypeOK
<1>4. K!TypeOK' /\ ItemsPresent'
  BY <1>1, <1>2, <1>3 DEF KnowledgeInv, K!TypeOK, ItemsPresent
<1>5. ItemsRead'
  <2>1. \A s \in Sessions : itemTx[s].item # None => itemTx[s].item \in Items
    BY DEF KnowledgeInv, K!TypeOK, K!SessionRow
  <2> QED
    BY <1>1, <1>2, <1>3, <2>1 DEF KnowledgeInv, ItemsRead
<1> QED
  BY <1>4, <1>5 DEF KnowledgeInv

LEMMA ItemCopied ==
  ASSUME KnowledgeInv, NEW s \in Sessions, NEW i \in Items, K!ReadItem(s, i)
  PROVE  KnowledgeInv'
<1> DEFINE row == [item |-> i, copy |-> item[i]]
<1>1. row \in K!SessionRow /\ row.item = i /\ row.copy = item[i]
  BY DEF KnowledgeInv, K!TypeOK, K!SessionRow
<1>2. itemTx' = [itemTx EXCEPT ![s] = row] /\ UNCHANGED <<item, approvals>> /\ item[i].status # "NONE"
  BY DEF K!ReadItem
<1> HIDE DEF row
<1>3. itemTx' \in [Sessions -> K!SessionRow] /\ itemTx'[s] = row /\ \A t \in Sessions : t # s => itemTx'[t] = itemTx[t]
  BY <1>1, <1>2 DEF KnowledgeInv, K!TypeOK
<1>4. item[i].content \in Contents
  BY <1>2 DEF KnowledgeInv, ItemsPresent
<1>5. ItemsRead'
  BY <1>1, <1>2, <1>3, <1>4 DEF KnowledgeInv, ItemsRead
<1> QED
  BY <1>2, <1>3, <1>5 DEF KnowledgeInv, K!TypeOK, ItemsPresent

(* A reviewed item stays what its approval was for.                          *)
StaysReviewed(s) ==
  \A i \in Items :
    /\ itemTx[s].item = i /\ itemTx[s].copy = item[i] /\ K!Reviewed(i)
    /\ item[i].status = "OUTDATED" => item'[i].content = item[i].content
    => K!Reviewed(i)'

(* update_knowledge_item: the grant is refused before, or the table refuses  *)
(* it, or the copy was reviewed already; and then its content is the same,   *)
(* or it is a draft again.                                                   *)
LEMMA ItemUpdated ==
  ASSUME KnowledgeInv, NEW s \in Sessions, NEW content \in Contents, NEW status \in K!KnowledgeStatus,
         K!UpdateItem(s, content, status)
  PROVE  KnowledgeInv' /\ StaysReviewed(s)
<1> DEFINE copy == itemTx[s].copy
           new  == K!Edited(copy, content, status)
<1>1. itemTx[s].item # None /\ UNCHANGED approvals
  BY DEF K!UpdateItem
<1>2. copy \in K!ItemRow /\ itemTx[s].item \in Items
  BY <1>1 DEF KnowledgeInv, K!TypeOK, K!SessionRow
<1>3. copy.status \in K!KnowledgeStatus /\ copy.content \in Contents
  BY <1>1, <1>2 DEF KnowledgeInv, ItemsRead, K!ItemRow
<1>4. new \in K!ItemRow /\ new.status \in K!KnowledgeStatus /\ new.content = content
  <2>1. copy.version \in Nat /\ copy.version + 1 \in Nat /\ copy.approval \in K!Approval \cup {K!NoApproval}
    BY <1>2 DEF K!ItemRow
  <2> QED
    BY <1>3, <2>1, ItemRows, KnowledgeStatuses DEF K!Edited
<1>5. CASE K!GrantRefused(copy, status) \/ ~ K!ValidKnowledgeMove(copy.status, new.status)
  <2>1. K!Leave(s) /\ UNCHANGED item
    BY <1>5 DEF K!UpdateItem
  <2>2. StaysReviewed(s)
    BY <2>1 DEF StaysReviewed, K!Reviewed
  <2> QED
    BY <1>1, <2>1, <2>2, ItemForgotten
<1>6. CASE ~ (K!GrantRefused(copy, status) \/ ~ K!ValidKnowledgeMove(copy.status, new.status))
  <2>1. K!Save(s, new)
    BY <1>6 DEF K!UpdateItem
  <2>2. /\ new.content # copy.content /\ copy.status \in K!Told => new.status = "DRAFT"
        /\ new.content = copy.content => new.approval = copy.approval
    BY DEF K!Edited
  <2> HIDE DEF new, copy
  <2>3. new.status \in ReviewedStatus => copy.status \in ReviewedStatus
    BY <1>3, <1>4, <1>6, OnlyFromReviewed
  <2>4. new.status # "NONE" /\ new.content \in Contents
    BY <1>4, KnowledgeStatuses
  <2>5. /\ KnowledgeInv'
        /\ copy = item[itemTx[s].item] =>
             /\ item'[itemTx[s].item].status = new.status
             /\ item'[itemTx[s].item].content = new.content
             /\ item'[itemTx[s].item].approval = new.approval
    BY <1>1, <1>4, <2>1, <2>4, ItemSaved DEF copy
  <2>6. StaysReviewed(s)
    <3> SUFFICES ASSUME NEW i \in Items, itemTx[s].item = i, copy = item[i], K!Reviewed(i),
                        item[i].status = "OUTDATED" => item'[i].content = item[i].content,
                        item'[i].status \in ReviewedStatus
                 PROVE  item'[i].approval = [item |-> i, content |-> item'[i].content]
      BY DEF StaysReviewed, K!Reviewed, ReviewedStatus, copy
    <3>1. copy.status \in ReviewedStatus
      BY <2>3, <2>5
    <3>2. new.content = copy.content
      BY <2>2, <2>5, <3>1 DEF ReviewedStatus, K!Told
    <3> QED
      BY <2>2, <2>5, <3>1, <3>2 DEF K!Reviewed, ReviewedStatus
  <2> QED
    BY <2>5, <2>6
<1> QED
  BY <1>5, <1>6

LEMMA ItemApproved ==
  ASSUME KnowledgeInv, NEW s \in Sessions, K!ApproveItem(s)
  PROVE  KnowledgeInv' /\ StaysReviewed(s)
<1> DEFINE copy == itemTx[s].copy
           i    == itemTx[s].item
           a    == [item |-> i, content |-> copy.content]
           row  == [item[i] EXCEPT !.status = "APPROVED", !.approval = a]
<1>1. /\ i # None /\ approvals' = approvals \cup {a} /\ K!Leave(s)
      /\ item' = [item EXCEPT ![a.item].status = "APPROVED", ![a.item].approval = a]
  BY DEF K!ApproveItem
<1>2. /\ copy \in K!ItemRow /\ i \in Items /\ copy.content \in Contents
      /\ item \in [Items -> K!ItemRow] /\ item[i].content \in Contents
  BY <1>1 DEF KnowledgeInv, K!TypeOK, K!SessionRow, ItemsRead, ItemsPresent
<1>3. a \in K!Approval /\ a.item = i
  BY <1>2 DEF K!Approval
<1>4. row \in K!ItemRow /\ row.status = "APPROVED" /\ row.content = item[i].content /\ row.approval = a
  BY <1>2, <1>3, KnowledgeStatuses DEF K!ItemRow
<1>5. item' = [item EXCEPT ![i] = row]
  BY <1>1, <1>2, <1>3
<1>6. approvals' \subseteq K!Approval
  BY <1>1, <1>3 DEF KnowledgeInv, K!TypeOK
<1> HIDE DEF row
<1>7. KnowledgeInv'
  BY <1>1, <1>2, <1>4, <1>5, <1>6, ItemWritten
<1>8. item'[i].content = item[i].content /\ item'[i].approval = [item |-> i, content |-> copy.content]
  BY <1>2, <1>4, <1>5
<1>9. StaysReviewed(s)
  BY <1>8 DEF StaysReviewed, K!Reviewed
<1> QED
  BY <1>7, <1>9

LEMMA ItemArchived ==
  ASSUME KnowledgeInv, NEW s \in Sessions, K!ArchiveItem(s)
  PROVE  KnowledgeInv' /\ StaysReviewed(s)
<1> DEFINE copy == itemTx[s].copy
           new  == [copy EXCEPT !.status = "ARCHIVED"]
<1>1. itemTx[s].item # None /\ approvals' = approvals /\ K!Save(s, new)
  BY DEF K!ArchiveItem
<1>2. copy \in K!ItemRow /\ copy.content \in Contents
  BY <1>1 DEF KnowledgeInv, K!TypeOK, K!SessionRow, ItemsRead
<1>3. new \in K!ItemRow /\ new.status = "ARCHIVED" /\ new.content = copy.content
  BY <1>2, KnowledgeStatuses DEF K!ItemRow
<1> HIDE DEF new
<1>4. /\ KnowledgeInv'
      /\ copy = item[itemTx[s].item] => item'[itemTx[s].item].status = "ARCHIVED"
  BY <1>1, <1>2, <1>3, ItemSaved
<1>5. StaysReviewed(s)
  BY <1>4 DEF StaysReviewed, K!Reviewed, K!Told
<1> QED
  BY <1>4, <1>5

LEMMA KnowledgeStep == KnowledgeInv /\ [K!Next]_(K!vars) => KnowledgeInv'
<1> SUFFICES ASSUME KnowledgeInv, [K!Next]_(K!vars) PROVE KnowledgeInv'
  OBVIOUS
<1>1. ASSUME NEW i \in Items, NEW content \in Contents, K!CreateItem(i, content)
      PROVE  KnowledgeInv'
  BY <1>1, ItemCreated
<1>2. ASSUME NEW s \in Sessions, NEW i \in Items, K!ReadItem(s, i)
      PROVE  KnowledgeInv'
  BY <1>2, ItemCopied
<1>3. ASSUME NEW s \in Sessions, NEW content \in Contents, NEW status \in K!KnowledgeStatus,
             K!UpdateItem(s, content, status)
      PROVE  KnowledgeInv'
  BY <1>3, ItemUpdated
<1>4. ASSUME NEW s \in Sessions, K!ApproveItem(s)
      PROVE  KnowledgeInv'
  BY <1>4, ItemApproved
<1>5. ASSUME NEW s \in Sessions, K!ArchiveItem(s)
      PROVE  KnowledgeInv'
  BY <1>5, ItemArchived
<1>6. ASSUME NEW s \in Sessions, K!Drop(s)
      PROVE  KnowledgeInv'
  BY <1>6, ItemForgotten DEF K!Drop
<1>7. ASSUME UNCHANGED K!vars
      PROVE  KnowledgeInv'
  BY <1>7 DEF K!vars, KnowledgeInv, K!TypeOK, ItemsRead, ItemsPresent
<1> QED
  BY <1>1, <1>2, <1>3, <1>4, <1>5, <1>6, <1>7 DEF K!Next, K!Quiet
-----------------------------------------------------------------------------
LEMMA KnowledgeKept == K!Spec => []KnowledgeInv
  BY KnowledgeInit, KnowledgeStep, PTL DEF K!Spec

(* Only the session that ends its request takes the step.                    *)
LEMMA KnowledgeReviewed ==
  ASSUME K!Setting, KnowledgeInv, [K!Next]_(K!vars), NEW s \in Sessions, NEW i \in Items,
         itemTx[s].item = i, itemTx'[s].item = None, itemTx[s].copy = item[i], K!Reviewed(i),
         item[i].status = "OUTDATED" => item'[i].content = item[i].content
  PROVE  K!Reviewed(i)'
<1>1. i # None /\ itemTx \in [Sessions -> K!SessionRow]
  BY DEF K!Setting, KnowledgeInv, K!TypeOK
<1>2. ASSUME itemTx'[s] = itemTx[s] PROVE FALSE
  BY <1>1, <1>2
<1>3. ASSUME NEW j \in Items, NEW content \in Contents, K!CreateItem(j, content) PROVE FALSE
  BY <1>2, <1>3 DEF K!CreateItem
<1>4. ASSUME NEW t \in Sessions, NEW j \in Items, K!ReadItem(t, j) PROVE FALSE
  BY <1>1, <1>2, <1>4 DEF K!ReadItem
<1>5. ASSUME NEW t \in Sessions, t # s, K!Leave(t) PROVE FALSE
  BY <1>1, <1>2, <1>5 DEF K!Leave
<1>6. ASSUME NEW t \in Sessions, NEW content \in Contents, NEW status \in K!KnowledgeStatus,
             K!UpdateItem(t, content, status)
      PROVE  K!Reviewed(i)'
  <2>1. t = s
    BY <1>5, <1>6 DEF K!UpdateItem, K!Save
  <2> QED
    BY <1>6, <2>1, ItemUpdated DEF StaysReviewed
<1>7. ASSUME NEW t \in Sessions, K!ApproveItem(t)
      PROVE  K!Reviewed(i)'
  <2>1. t = s
    BY <1>5, <1>7 DEF K!ApproveItem
  <2> QED
    BY <1>7, <2>1, ItemApproved DEF StaysReviewed
<1>8. ASSUME NEW t \in Sessions, K!ArchiveItem(t)
      PROVE  K!Reviewed(i)'
  <2>1. t = s
    BY <1>5, <1>8 DEF K!ArchiveItem, K!Save
  <2> QED
    BY <1>8, <2>1, ItemArchived DEF StaysReviewed
<1>9. ASSUME UNCHANGED item
      PROVE  K!Reviewed(i)'
  BY <1>9 DEF K!Reviewed
<1> QED
  BY <1>3, <1>4, <1>6, <1>7, <1>8, <1>9 DEF K!Next, K!Quiet, K!Drop, K!vars
-----------------------------------------------------------------------------
(***************************************************************************)
(* TENANTS.  A request moves the tenant by the copy it has read, and the   *)
(* pipeline by the position it has reached; so both are covered: a copy    *)
(* past WAITING_PAYMENT, or a position behind it, was paid for or released *)
(* by an owner (CopiesAllowed).  What the gate looks at has been seen      *)
(* (GateSeen), which nothing takes back.                                   *)
(***************************************************************************)

(* A request that works on the tenant has read it, and knows where to lead it. *)
RequestsLed ==
  \A s \in Sessions :
    /\ tenantTx[s].pc # "idle" => tenantTx[s].copy \in T!TenantLifecycleState
    /\ tenantTx[s].pc = "transition" => tenantTx[s].goal \in T!TenantLifecycleState
    /\ tenantTx[s].pc \in {"advance", "refresh"} =>
         /\ tenantTx[s].goal \in {"ONBOARDING", "READY"}
         /\ tenantTx[s].goal = "ONBOARDING" => tenantTx[s].at <= 8

(* Past WAITING_PAYMENT, and how it may have come there.                     *)
Beyond == T!TenantLifecycleState \ (T!Unpaid \cup T!Stopped)
Cleared == wasPaid \/ released

(* A copy of the tenant that is past WAITING_PAYMENT was allowed to be, and  *)
(* so is the position that a request has reached.                            *)
CopiesAllowed ==
  \A s \in Sessions :
    /\ tenantTx[s].pc # "idle" /\ tenantTx[s].copy \in Beyond => Cleared
    /\ tenantTx[s].pc \in {"advance", "refresh"} /\ tenantTx[s].at >= 6 => Cleared

(* What the gate and the pipeline look at has been seen.                     *)
GateSeen ==
  /\ T!Ready => wasReady
  /\ T!PaymentVerified => wasPaid
  /\ sub.free => wasPaid
  /\ sub.status = "NONE" => ~ settled
  /\ \A s \in Sessions : tenantTx[s].sub.free => wasPaid

TenantInv ==
  /\ T!TypeOK /\ RequestsLed /\ CopiesAllowed /\ GateSeen
  /\ T!ActiveWasReady /\ T!ActivePaidFor /\ T!PipelineWaitsForPayment
-----------------------------------------------------------------------------
LEMMA TenantStates ==
  /\ T!TenantLifecycleState =
       {"PROSPECT", "LEAD", "QUALIFIED", "PROPOSAL", "WAITING_PAYMENT", "PAID", "CLIENT",
        "ONBOARDING", "CONFIGURING", "TESTING", "READY", "ACTIVE", "PAUSED", "STALE",
        "BLOCKED", "ERROR", "WAITING_OWNER", "WAITING_CLIENT"}
  /\ Beyond = {"PAID", "CLIENT", "ONBOARDING", "CONFIGURING", "TESTING", "READY", "ACTIVE",
               "PAUSED", "STALE", "WAITING_OWNER", "WAITING_CLIENT"}
<1>1. T!TenantLifecycleState =
        {"PROSPECT", "LEAD", "QUALIFIED", "PROPOSAL", "WAITING_PAYMENT", "PAID", "CLIENT",
         "ONBOARDING", "CONFIGURING", "TESTING", "READY", "ACTIVE", "PAUSED", "STALE",
         "BLOCKED", "ERROR", "WAITING_OWNER", "WAITING_CLIENT"}
  BY DEF T!TenantLifecycleState, T!ALLOWED_TENANT_LIFECYCLE_TRANSITIONS
<1> QED
  BY <1>1 DEF Beyond, T!Unpaid, T!Stopped

(* The way through the pipeline.                                             *)
LEMMA SequenceFacts ==
  /\ Len(T!sequence) = 11
  /\ \A i \in 1..11 : T!sequence[i] \in T!TenantLifecycleState \ {"ACTIVE"}
  /\ \A i \in 1..11 : T!sequence[i] \in Beyond <=> i >= 6
  /\ \A i, j \in 1..11 : T!sequence[i] = T!sequence[j] => i = j
  /\ T!sequence[5] = "WAITING_PAYMENT" /\ T!sequence[8] = "ONBOARDING" /\ T!sequence[11] = "READY"
<1>1. \A i \in 1..11 : i \in {1, 2, 3, 4, 5, 6, 7, 8, 9, 10, 11}
  OBVIOUS
<1>2. /\ Len(T!sequence) = 11
      /\ T!sequence[1] = "PROSPECT" /\ T!sequence[2] = "LEAD" /\ T!sequence[3] = "QUALIFIED"
      /\ T!sequence[4] = "PROPOSAL" /\ T!sequence[5] = "WAITING_PAYMENT" /\ T!sequence[6] = "PAID"
      /\ T!sequence[7] = "CLIENT" /\ T!sequence[8] = "ONBOARDING" /\ T!sequence[9] = "CONFIGURING"
      /\ T!sequence[10] = "TESTING" /\ T!sequence[11] = "READY"
  BY DEF T!sequence
<1> HIDE DEF T!sequence
<1>3. \A i \in 1..11 : T!sequence[i] \in T!TenantLifecycleState \ {"ACTIVE"}
  BY <1>1, <1>2, TenantStates
<1>4. \A i \in 1..11 : T!sequence[i] \in Beyond <=> i >= 6
  BY <1>1, <1>2, TenantStates
<1>5. \A i, j \in 1..11 : T!sequence[i] = T!sequence[j] => i = j
  BY <1>1, <1>2
<1> QED
  BY <1>2, <1>3, <1>4, <1>5

LEMMA PositionFacts ==
  ASSUME NEW t, t.at \in 0..11
  PROVE  /\ T!Position(t) \in 0..11
         /\ t.at # 0 => T!Position(t) = t.at
         /\ t.at = 0 /\ T!Position(t) # 0 => T!sequence[T!Position(t)] = t.copy
<1> DEFINE I == {i \in 1..Len(T!sequence) : T!sequence[i] = t.copy}
<1>1. T!Position(t) = IF t.at = 0 THEN (IF I # {} THEN T!Min(I) ELSE 0) ELSE t.at
  BY DEF T!Position, T!SelectInSeq
<1>2. ASSUME I # {} PROVE T!Min(I) \in 1..11 /\ T!sequence[T!Min(I)] = t.copy
  <2>1. PICK i \in 1..11 : T!sequence[i] = t.copy
    BY <1>2, SequenceFacts
  <2>2. I = {i}
    BY <2>1, SequenceFacts
  <2> HIDE DEF I
  <2>3. T!Min(I) = i
    <3>1. i \in I /\ \A y \in I : i =< y
      BY <2>2
    <3>2. T!Min(I) \in I
      BY <3>1 DEF T!Min
    <3> QED
      BY <2>2, <3>2
  <2> QED
    BY <2>1, <2>3
<1> HIDE DEF I
<1> QED
  BY <1>1, <1>2

LEMMA KeyFacts ==
  /\ T!Defaults \subseteq T!Keys
  /\ {"whatsapp_integration_available", "tenant_configuration_validated"} \subseteq T!Keys
<1> DEFINE D == T!DEFAULT_CHECKLIST_TEMPLATES
<1>1. /\ "knowledge" \in DOMAIN T!CATEGORY_WEIGHTS /\ "guardrails" \in DOMAIN T!CATEGORY_WEIGHTS
      /\ "operations" \in DOMAIN T!CATEGORY_WEIGHTS /\ "integrations" \in DOMAIN T!CATEGORY_WEIGHTS
  BY DEF T!CATEGORY_WEIGHTS
<1>2. /\ "ai_knowledge_configured" \in D["knowledge"]
      /\ "ai_guardrails_initialized" \in D["guardrails"]
      /\ {"default_workflow_initialized", "human_handoff_available", "tenant_configuration_validated"}
           \subseteq D["operations"]
      /\ "whatsapp_integration_available" \in D["integrations"]
  BY DEF T!DEFAULT_CHECKLIST_TEMPLATES
<1> HIDE DEF D
<1>3. \A c \in DOMAIN T!CATEGORY_WEIGHTS : D[c] \subseteq T!Keys
  BY DEF T!Keys, D
<1> QED
  BY <1>1, <1>2, <1>3 DEF T!Defaults

LEMMA ValidatedKeys == ASSUME T!TypeOK PROVE T!validate_all \subseteq T!Keys
  BY KeyFacts DEF T!validate_all, T!TypeOK

LEMMA TenantRows ==
  /\ T!NoSub \in T!SubRow /\ ~ T!NoSub.free /\ T!NoSub.status = "NONE"
  /\ \A x \in T!SubRow : /\ x.free \in BOOLEAN /\ x.status \in {"NONE", "TRIALING", "ACTIVE", "EXPIRED"}
                       /\ x.status = "NONE" => x = T!NoSub
  /\ [status |-> "TRIALING", free |-> FALSE] \in T!SubRow
<1>1. [status |-> "TRIALING", free |-> FALSE] \in T!SubRow
  BY DEF T!SubRow
<1>2. ASSUME NEW x \in T!SubRow
      PROVE  /\ x.status \in {"NONE", "TRIALING", "ACTIVE", "EXPIRED"}
             /\ x.status = "NONE" => x = T!NoSub
  BY DEF T!SubRow, T!NoSub
<1>3. ASSUME NEW x \in T!SubRow
      PROVE  x.free \in BOOLEAN
  <2>1. CASE x = T!NoSub
    BY <2>1 DEF T!NoSub
  <2>2. CASE x \in [status : {"TRIALING", "ACTIVE", "EXPIRED"}, free : BOOLEAN]
    BY <2>2
  <2> QED
    BY <2>1, <2>2 DEF T!SubRow
<1> QED
  BY <1>1, <1>2, <1>3 DEF T!NoSub, T!SubRow

LEMMA BilledRows == \A x \in T!SubRow \ {T!NoSub} : x.status # "NONE"
  BY DEF T!SubRow

(* The rows that a session may be given.                                     *)
LEMMA NewRows ==
  ASSUME NEW pc \in {"idle", "transition", "advance", "refresh", "provision"},
         NEW goal \in T!TenantLifecycleState \cup {None}, NEW after \in {"ACTIVE", "provision", None},
         NEW copy \in T!TenantLifecycleState \cup {None}, NEW x \in T!SubRow, NEW owner \in BOOLEAN
  PROVE  [pc |-> pc, goal |-> goal, after |-> after, at |-> 0, copy |-> copy, sub |-> x, owner |-> owner]
           \in T!SessionRow
  BY SequenceFacts DEF T!SessionRow

LEMMA TenantIdle == T!Idle \in T!SessionRow
  BY NewRows, TenantRows DEF T!Idle
LEMMA TenantTypes ==
  ASSUME T!TypeOK
  PROVE  wasReady \in BOOLEAN /\ wasPaid \in BOOLEAN /\ released \in BOOLEAN
         /\ settled \in BOOLEAN /\ whatsapp \in BOOLEAN
  BY DEF T!TypeOK, T!ghosts

(* A request goes on, and may set the state on its way; it has written       *)
(* nothing else, or ticked items of a checklist.                             *)
LEMMA TenantGoesOn ==
  ASSUME TenantInv, NEW s \in Sessions, NEW row \in T!SessionRow, T!Move(s, row),
         UNCHANGED <<T!world, changes, wasReady, wasPaid>>,
         requests' \in 0..MaxRequests,
         checklist' = checklist \/ (checklist # None /\ checklist' \subseteq T!Keys),
         state' \in T!TenantLifecycleState,
         released' \in BOOLEAN, released => released',
         state' = "ACTIVE" => state = "ACTIVE" \/ (wasReady /\ wasPaid),
         state' \in Beyond => Cleared',
         row.pc # "idle" => row.copy \in T!TenantLifecycleState,
         row.pc = "transition" => row.goal \in T!TenantLifecycleState,
         row.pc \in {"advance", "refresh"} => row.goal \in {"ONBOARDING", "READY"},
         row.pc \in {"advance", "refresh"} /\ row.goal = "ONBOARDING" => row.at <= 8,
         row.pc # "idle" /\ row.copy \in Beyond => Cleared',
         row.pc \in {"advance", "refresh"} /\ row.at >= 6 => Cleared',
         row.sub.free => wasPaid
  PROVE  TenantInv'
<1>1. tenantTx' \in [Sessions -> T!SessionRow] /\ tenantTx'[s] = row /\ \A t \in Sessions \ {s} : tenantTx'[t] = tenantTx[t]
  BY DEF TenantInv, T!TypeOK, T!Move
<1>2. Cleared => Cleared'
  BY DEF Cleared
<1>3. T!TypeOK'
  <2>1. T!ghosts' \in BOOLEAN \X BOOLEAN \X BOOLEAN
    BY TenantTypes DEF TenantInv, T!ghosts
  <2> QED
    BY <1>1, <2>1 DEF TenantInv, T!TypeOK, T!world
<1>4. RequestsLed'
  BY <1>1 DEF TenantInv, RequestsLed
<1>5. CopiesAllowed'
  BY <1>1, <1>2 DEF TenantInv, CopiesAllowed
<1>6. GateSeen'
  <2>1. T!validate_all' = T!validate_all
    BY DEF T!validate_all, T!world
  <2>2. T!Ready' => T!Ready
    BY <2>1 DEF T!Ready
  <2>3. T!PaymentVerified' = T!PaymentVerified
    BY DEF T!PaymentVerified, T!world
  <2>4. \A t \in Sessions : tenantTx'[t].sub.free => wasPaid
    BY <1>1 DEF TenantInv, GateSeen
  <2> QED
    BY <2>2, <2>3, <2>4 DEF TenantInv, GateSeen, T!world
<1>7. T!ActiveWasReady' /\ T!ActivePaidFor'
  BY DEF TenantInv, T!ActiveWasReady, T!ActivePaidFor
<1>8. T!PipelineWaitsForPayment'
  BY DEF T!PipelineWaitsForPayment, Beyond, Cleared
<1> QED
  BY <1>3, <1>4, <1>5, <1>6, <1>7, <1>8 DEF TenantInv

(* A request that leaves the state alone.                                    *)
LEMMA TenantQuiet ==
  ASSUME TenantInv, NEW s \in Sessions, NEW row \in T!SessionRow, T!Move(s, row),
         UNCHANGED <<state, T!world, changes, T!ghosts>>,
         requests' \in 0..MaxRequests,
         checklist' = checklist \/ (checklist # None /\ checklist' \subseteq T!Keys),
         row.pc # "idle" => row.copy \in T!TenantLifecycleState,
         row.pc = "transition" => row.goal \in T!TenantLifecycleState,
         row.pc \in {"advance", "refresh"} => row.goal \in {"ONBOARDING", "READY"},
         row.pc \in {"advance", "refresh"} /\ row.goal = "ONBOARDING" => row.at <= 8,
         row.pc # "idle" /\ row.copy \in Beyond => Cleared,
         row.pc \in {"advance", "refresh"} /\ row.at >= 6 => Cleared,
         row.sub.free => wasPaid
  PROVE  TenantInv'
<1>1. UNCHANGED <<T!world, changes, wasReady, wasPaid>> /\ released' = released /\ Cleared' = Cleared
  BY DEF T!ghosts, Cleared
<1>2. state' \in T!TenantLifecycleState /\ released' \in BOOLEAN
  BY <1>1, TenantTypes DEF TenantInv, T!TypeOK
<1>3. state' \in Beyond => Cleared'
  BY <1>1 DEF TenantInv, T!PipelineWaitsForPayment, Beyond, Cleared
<1> QED
  BY <1>1, <1>2, <1>3, TenantGoesOn

(* The request is over.                                                      *)
LEMMA TenantLeaves ==
  ASSUME TenantInv, NEW s \in Sessions, T!Leave(s),
         UNCHANGED <<state, T!world, checklist, requests, changes, T!ghosts>>
  PROVE  TenantInv'
<1>1. T!Idle.pc = "idle" /\ ~ T!Idle.sub.free /\ T!Move(s, T!Idle)
  BY TenantRows DEF T!Idle, T!Leave
<1> HIDE DEF T!Idle
<1>2. requests' \in 0..MaxRequests
  BY DEF TenantInv, T!TypeOK
<1> QED
  BY <1>1, <1>2, TenantIdle, TenantQuiet

(* Writing a state that the table allows to be reached from a copy.          *)
LEMMA TenantSets ==
  ASSUME TenantInv, NEW from \in T!TenantLifecycleState, NEW to \in T!TenantLifecycleState,
         NEW owner, NEW x, x.free => wasPaid,
         T!ValidTenantMove(from, to, owner, x), T!SetState(from, to)
  PROVE  /\ state' \in T!TenantLifecycleState
         /\ state' = "ACTIVE" => state = "ACTIVE" \/ (wasReady /\ wasPaid)
<1>1. CASE from = to
  BY <1>1 DEF T!SetState, TenantInv, T!TypeOK
<1>2. CASE from # to
  <2>1. state' = to /\ (to = "ACTIVE" => T!GateOpen(x))
    BY <1>2 DEF T!SetState, T!ValidTenantMove
  <2>2. T!GateOpen(x) => wasReady /\ wasPaid
    BY DEF T!GateOpen, TenantInv, GateSeen
  <2> QED
    BY <2>1, <2>2
<1> QED
  BY <1>1, <1>2

(* Whoever writes a state past WAITING_PAYMENT had one, or released it.      *)
LEMMA TenantReleases ==
  ASSUME TenantInv, NEW from \in T!TenantLifecycleState, NEW to \in T!TenantLifecycleState,
         from \in Beyond => Cleared, T!SetState(from, to), T!Release(from, to), UNCHANGED wasPaid
  PROVE  /\ released' \in BOOLEAN /\ (released => released')
         /\ to \in Beyond => Cleared'
         /\ state' \in Beyond => Cleared'
<1>1. released' \in BOOLEAN /\ (released => released')
  BY DEF T!Release
<1>2. Cleared => Cleared'
  BY <1>1 DEF Cleared
<1>3. to \in Beyond => Cleared'
  <2>1. CASE from \in Beyond
    BY <1>2, <2>1
  <2>2. CASE from \notin Beyond
    BY <2>2 DEF T!Release, Beyond, Cleared
  <2> QED
    BY <2>1, <2>2
<1>4. state \in Beyond => Cleared
  BY DEF TenantInv, T!PipelineWaitsForPayment, Beyond, Cleared
<1> QED
  BY <1>1, <1>2, <1>3, <1>4 DEF T!SetState-----------------------------------------------------------------------------
LEMMA TenantInit == T!Setting /\ T!Init => TenantInv
<1> SUFFICES ASSUME T!Setting, T!Init PROVE TenantInv
  OBVIOUS
<1>1. state \in T!TenantLifecycleState /\ state \notin Beyond /\ state # "ACTIVE"
  BY TenantStates DEF T!Init
<1>2. T!TypeOK
  <2>1. tenantTx \in [Sessions -> T!SessionRow]
    BY TenantIdle DEF T!Init
  <2>2. T!ghosts \in BOOLEAN \X BOOLEAN \X BOOLEAN
    BY DEF T!Init, T!ghosts
  <2>3. data \subseteq T!Keys /\ requests \in 0..MaxRequests /\ changes \in 0..MaxChanges
    BY DEF T!Init, T!Setting
  <2>4. sub \in T!SubRow /\ {settled, whatsapp} \subseteq BOOLEAN
    BY TenantRows DEF T!Init
  <2> QED
    BY <1>1, <2>1, <2>2, <2>3, <2>4 DEF T!Init, T!TypeOK
<1>3. \A s \in Sessions : tenantTx[s] = T!Idle
  BY DEF T!Init
<1>4. RequestsLed /\ CopiesAllowed
  BY <1>3 DEF RequestsLed, CopiesAllowed, T!Idle
<1>5. GateSeen
  BY <1>3, TenantRows DEF T!Init, GateSeen, T!Ready, T!PaymentVerified, T!Idle
<1> QED
  BY <1>1, <1>2, <1>4, <1>5 DEF TenantInv, T!ActiveWasReady, T!ActivePaidFor, T!PipelineWaitsForPayment, Beyond

(* A request is made.                                                        *)
LEMMA TenantRequested ==
  ASSUME T!Setting, TenantInv, NEW s \in Sessions, NEW row \in T!SessionRow, T!Request(s, row),
         row.pc \in {"transition", "advance", "provision"}, row.copy = state, row.at = 0,
         row.pc = "transition" => row.goal \in T!TenantLifecycleState,
         row.pc = "advance" => row.goal \in {"ONBOARDING", "READY"},
         row.sub = sub \/ row.sub = T!NoSub
  PROVE  TenantInv'
<1>1. /\ T!Move(s, row) /\ UNCHANGED <<state, T!world, checklist, changes, T!ghosts>>
      /\ requests' \in 0..MaxRequests
  BY DEF T!Request, TenantInv, T!TypeOK, T!Setting
<1>2. state \in T!TenantLifecycleState /\ (state \in Beyond => Cleared)
  BY DEF TenantInv, T!TypeOK, T!PipelineWaitsForPayment, Beyond, Cleared
<1>3. row.sub.free => wasPaid
  BY TenantRows DEF TenantInv, GateSeen
<1> QED
  BY <1>1, <1>2, <1>3, TenantQuiet

LEMMA TenantAsked ==
  ASSUME T!Setting, TenantInv, NEW s \in Sessions, NEW owner \in BOOLEAN,
         \/ \E target \in Lifecycle : T!AskTransition(s, target, owner)
         \/ T!StartOnboarding(s, owner) \/ T!CompleteOnboarding(s, owner)
         \/ T!AskActivation(s, owner) \/ T!AskProvision(s)
  PROVE  TenantInv'
<1>0. /\ state \in T!TenantLifecycleState /\ sub \in T!SubRow /\ {"ACTIVE", "ONBOARDING", "READY"} \subseteq T!TenantLifecycleState
      /\ T!NoSub \in T!SubRow
  BY TenantStates, TenantRows DEF TenantInv, T!TypeOK
<1>1. CASE \E target \in Lifecycle : T!AskTransition(s, target, owner)
  <2>1. PICK target \in Lifecycle : T!AskTransition(s, target, owner)
    BY <1>1
  <2> DEFINE row == [T!Idle EXCEPT !.pc = "transition", !.goal = target, !.copy = state, !.sub = sub, !.owner = owner]
  <2>2. target \in T!TenantLifecycleState
    BY DEF T!Setting
  <2>3. row \in T!SessionRow
    BY <1>0, <2>2, TenantIdle DEF T!SessionRow
  <2>4. row.pc = "transition" /\ row.goal = target /\ row.copy = state /\ row.at = 0 /\ row.sub = sub
    BY DEF T!Idle
  <2>5. T!Request(s, row)
    BY <2>1 DEF T!AskTransition
  <2> HIDE DEF row
  <2> QED
    BY <2>2, <2>3, <2>4, <2>5, TenantRequested
<1>2. CASE T!StartOnboarding(s, owner)
  <2> DEFINE pc == IF state \in T!Pipeline THEN "advance" ELSE "provision"
             row == [T!Idle EXCEPT !.pc = pc, !.goal = "ONBOARDING", !.after = "provision", !.copy = state, !.owner = owner]
  <2>1. pc \in {"advance", "provision"}
    OBVIOUS
  <2>2. T!Request(s, row)
    BY <1>2 DEF T!StartOnboarding
  <2> HIDE DEF pc
  <2>3. row \in T!SessionRow
    BY <1>0, <2>1, TenantIdle DEF T!SessionRow
  <2>4. row.pc = pc /\ row.goal = "ONBOARDING" /\ row.copy = state /\ row.at = 0 /\ row.sub = T!NoSub
    BY DEF T!Idle
  <2> HIDE DEF row
  <2> QED
    BY <1>0, <2>1, <2>2, <2>3, <2>4, TenantRequested
<1>3. CASE T!CompleteOnboarding(s, owner)
  <2> DEFINE row == [T!Idle EXCEPT !.pc = "advance", !.goal = "READY", !.copy = state, !.owner = owner]
  <2>1. T!Request(s, row)
    BY <1>3 DEF T!CompleteOnboarding
  <2>2. row \in T!SessionRow
    BY <1>0, TenantIdle DEF T!SessionRow
  <2>3. row.pc = "advance" /\ row.goal = "READY" /\ row.copy = state /\ row.at = 0 /\ row.sub = T!NoSub
    BY DEF T!Idle
  <2> HIDE DEF row
  <2> QED
    BY <2>1, <2>2, <2>3, TenantRequested
<1>4. CASE T!AskActivation(s, owner)
  <2> DEFINE a == [T!Idle EXCEPT !.pc = "transition", !.goal = "ACTIVE",
                                !.copy = state, !.sub = sub, !.owner = owner]
             b == [T!Idle EXCEPT !.pc = "advance", !.goal = "READY", !.after = "ACTIVE",
                                !.copy = state, !.sub = sub, !.owner = owner]
  <2>1. T!Request(s, a) \/ T!Request(s, b)
    <3>1. T!Request(s, IF state = "READY" THEN a ELSE b)
      BY <1>4 DEF T!AskActivation
    <3> HIDE DEF a, b
    <3> QED
      BY <3>1
  <2>2. a \in T!SessionRow /\ b \in T!SessionRow
    BY <1>0, TenantIdle DEF T!SessionRow
  <2>3. /\ a.pc = "transition" /\ a.goal = "ACTIVE" /\ a.copy = state /\ a.at = 0 /\ a.sub = sub
        /\ b.pc = "advance" /\ b.goal = "READY" /\ b.copy = state /\ b.at = 0 /\ b.sub = sub
    BY DEF T!Idle
  <2> HIDE DEF a, b
  <2>4. CASE T!Request(s, a)
    BY <1>0, <2>2, <2>3, <2>4, TenantRequested
  <2>5. CASE T!Request(s, b)
    BY <2>2, <2>3, <2>5, TenantRequested
  <2> QED
    BY <2>1, <2>4, <2>5
<1>5. CASE T!AskProvision(s)
  <2> DEFINE row == [T!Idle EXCEPT !.pc = "provision", !.copy = state]
  <2>1. T!Request(s, row)
    BY <1>5 DEF T!AskProvision
  <2>2. row \in T!SessionRow
    BY <1>0, TenantIdle DEF T!SessionRow
  <2>3. row.pc = "provision" /\ row.copy = state /\ row.at = 0 /\ row.sub = T!NoSub
    BY DEF T!Idle
  <2> HIDE DEF row
  <2> QED
    BY <2>1, <2>2, <2>3, TenantRequested
<1> QED
  BY <1>1, <1>2, <1>3, <1>4, <1>5

LEMMA TenantValidated ==
  ASSUME T!Setting, TenantInv, NEW s \in Sessions, NEW owner \in BOOLEAN, T!ValidateOnboarding(s, owner)
  PROVE  TenantInv'
<1> DEFINE row == [pc |-> "advance", goal |-> "READY", after |-> None, at |-> 0, copy |-> state,
                   sub |-> T!NoSub, owner |-> owner]
<1>0. state \in T!TenantLifecycleState /\ "READY" \in T!TenantLifecycleState
      /\ (state \in Beyond => Cleared)
  BY TenantStates DEF TenantInv, T!TypeOK, T!PipelineWaitsForPayment, Beyond, Cleared
<1>1. /\ UNCHANGED <<state, T!world, changes, T!ghosts>> /\ requests' \in 0..MaxRequests
      /\ checklist # None /\ checklist' \subseteq T!Keys
  BY ValidatedKeys DEF T!ValidateOnboarding, TenantInv, T!TypeOK, T!Setting
<1>2. T!Move(s, row) \/ T!Move(s, T!Idle)
  BY DEF T!ValidateOnboarding, T!Idle
<1>3. row \in T!SessionRow
  BY <1>0, NewRows, TenantRows
<1>4. row.pc = "advance" /\ row.goal = "READY" /\ row.copy = state /\ row.at = 0 /\ ~ row.sub.free
  BY TenantRows
<1>5. T!Idle.pc = "idle" /\ ~ T!Idle.sub.free
  BY TenantRows DEF T!Idle
<1> HIDE DEF row, T!Idle
<1>6. CASE T!Move(s, row)
  BY <1>0, <1>1, <1>3, <1>4, <1>6, TenantQuiet
<1>7. CASE T!Move(s, T!Idle)
  BY <1>1, <1>5, <1>7, TenantIdle, TenantQuiet
<1> QED
  BY <1>2, <1>6, <1>7

LEMMA TenantMoved ==
  ASSUME TenantInv, NEW s \in Sessions, T!CommitTransition(s)
  PROVE  TenantInv'
<1> DEFINE t == tenantTx[s]
<1>1. /\ t.copy \in T!TenantLifecycleState /\ t.goal \in T!TenantLifecycleState
      /\ (t.copy \in Beyond => Cleared) /\ (t.sub.free => wasPaid)
  BY DEF T!CommitTransition, TenantInv, RequestsLed, CopiesAllowed, GateSeen
<1>2. UNCHANGED <<T!world, checklist, requests, changes, wasReady, wasPaid>> /\ T!Leave(s)
  BY DEF T!CommitTransition
<1>3. CASE T!ValidTenantMove(t.copy, t.goal, t.owner, t.sub)
  <2>1. T!SetState(t.copy, t.goal) /\ T!Release(t.copy, t.goal)
    BY <1>3 DEF T!CommitTransition
  <2>2. /\ state' \in T!TenantLifecycleState
        /\ state' = "ACTIVE" => state = "ACTIVE" \/ (wasReady /\ wasPaid)
    BY <1>1, <1>3, <2>1, TenantSets
  <2>3. /\ released' \in BOOLEAN /\ (released => released')
        /\ state' \in Beyond => Cleared'
    BY <1>1, <1>2, <2>1, TenantReleases
  <2>4. T!Idle.pc = "idle" /\ ~ T!Idle.sub.free /\ T!Move(s, T!Idle) /\ requests' \in 0..MaxRequests
    BY <1>2, TenantRows DEF T!Idle, T!Leave, TenantInv, T!TypeOK
  <2> HIDE DEF T!Idle
  <2> QED
    BY <1>2, <2>2, <2>3, <2>4, TenantIdle, TenantGoesOn
<1>4. CASE ~ T!ValidTenantMove(t.copy, t.goal, t.owner, t.sub)
  <2>1. UNCHANGED <<state, T!world, checklist, requests, changes, T!ghosts>>
    BY <1>2, <1>4 DEF T!CommitTransition, T!ghosts
  <2> QED
    BY <1>2, <2>1, TenantLeaves
<1> QED
  BY <1>3, <1>4

(* What follows the pipeline starts from the state that was reached.         *)
LEMMA ProceedFacts ==
  ASSUME TenantInv, NEW s \in Sessions, tenantTx[s].pc # "idle", NEW copy \in T!TenantLifecycleState
  PROVE  /\ T!Proceed(tenantTx[s], copy) \in T!SessionRow
         /\ T!Proceed(tenantTx[s], copy).pc \in {"idle", "provision", "transition"}
         /\ T!Proceed(tenantTx[s], copy).pc # "idle" => T!Proceed(tenantTx[s], copy).copy = copy
         /\ T!Proceed(tenantTx[s], copy).pc = "transition" => T!Proceed(tenantTx[s], copy).goal \in T!TenantLifecycleState
         /\ T!Proceed(tenantTx[s], copy).sub.free => wasPaid
<1> DEFINE t == tenantTx[s]
           a == [pc |-> "provision", goal |-> None, after |-> None, at |-> 0, copy |-> copy,
                 sub |-> T!NoSub, owner |-> FALSE]
           b == [pc |-> "transition", goal |-> "ACTIVE", after |-> None, at |-> 0, copy |-> copy,
                 sub |-> t.sub, owner |-> t.owner]
<1>1. /\ t.after \in {"ACTIVE", "provision", None} /\ t.sub \in T!SubRow /\ t.owner \in BOOLEAN
      /\ t.sub.free => wasPaid
  BY DEF TenantInv, T!TypeOK, T!SessionRow, GateSeen
<1>2. T!Proceed(t, copy) \in {a, b, T!Idle}
  <2>1. CASE t.after = "provision"
    BY <2>1 DEF T!Proceed, T!Idle
  <2>2. CASE t.after = "ACTIVE"
    BY <2>2 DEF T!Proceed, T!Idle
  <2>3. CASE t.after \notin {"provision", "ACTIVE"}
    <3>1. T!Proceed(t, copy) = T!Idle
      BY <2>3 DEF T!Proceed
    <3> QED
      BY <3>1
  <2> QED
    BY <2>1, <2>2, <2>3
<1>3. "ACTIVE" \in T!TenantLifecycleState
  BY TenantStates
<1>4. a \in T!SessionRow /\ b \in T!SessionRow /\ T!Idle \in T!SessionRow
  BY <1>1, <1>3, NewRows, TenantRows, TenantIdle
<1>5. /\ a.pc = "provision" /\ a.copy = copy /\ ~ a.sub.free
      /\ b.pc = "transition" /\ b.copy = copy /\ b.goal = "ACTIVE" /\ (b.sub.free => wasPaid)
      /\ T!Idle.pc = "idle" /\ ~ T!Idle.sub.free
  BY <1>1, TenantRows DEF T!Idle
<1> HIDE DEF a, b, T!Idle
<1> QED
  BY <1>2, <1>3, <1>4, <1>5

(* The pipeline goes no further.                                             *)
LEMMA TenantProceeds ==
  ASSUME TenantInv, NEW s \in Sessions, tenantTx[s].pc = "advance", T!Move(s, T!Proceed(tenantTx[s], tenantTx[s].copy)),
         UNCHANGED <<state, T!world, checklist, requests, changes, T!ghosts>>
  PROVE  TenantInv'
<1>1. tenantTx[s].copy \in T!TenantLifecycleState /\ (tenantTx[s].copy \in Beyond => Cleared)
  BY DEF TenantInv, RequestsLed, CopiesAllowed
<1> DEFINE row == T!Proceed(tenantTx[s], tenantTx[s].copy)
<1>2. /\ row \in T!SessionRow /\ row.pc \in {"idle", "provision", "transition"}
      /\ row.pc # "idle" => row.copy = tenantTx[s].copy
      /\ row.pc = "transition" => row.goal \in T!TenantLifecycleState
      /\ row.sub.free => wasPaid
  BY <1>1, ProceedFacts
<1>3. T!Move(s, row) /\ requests' \in 0..MaxRequests
  BY DEF TenantInv, T!TypeOK
<1> HIDE DEF row
<1> QED
  BY <1>1, <1>2, <1>3, TenantQuiet
(* One step of the pipeline: it passes WAITING_PAYMENT when the payment is   *)
(* verified.                                                                 *)
LEMMA TenantAdvances ==
  ASSUME TenantInv, NEW s \in Sessions, T!Advance(s)
  PROVE  TenantInv'
<1> DEFINE t == tenantTx[s]
           i == T!Position(t)
           row == [t EXCEPT !.pc = "refresh", !.at = i + 1]
<1>1. /\ t \in T!SessionRow /\ t.at \in 0..11
      /\ t.copy \in T!TenantLifecycleState /\ t.goal \in {"ONBOARDING", "READY"}
      /\ t.pc = "advance"
      /\ t.goal = "ONBOARDING" => t.at <= 8
      /\ t.copy \in Beyond => Cleared
      /\ t.at >= 6 => Cleared
      /\ t.sub.free => wasPaid
  BY SequenceFacts DEF T!Advance, T!Advancing, TenantInv, T!TypeOK, T!SessionRow, RequestsLed, CopiesAllowed, GateSeen
<1>2. i \in 1..11 /\ (t.at # 0 => i = t.at) /\ (t.at = 0 => T!sequence[i] = t.copy)
  BY <1>1, PositionFacts DEF T!Advance, T!Advancing
<1>3. /\ T!MayPass(i) /\ T!sequence[i] # t.goal /\ (t.at = 0 => t.copy \notin T!Reached(t.goal))
      /\ UNCHANGED <<T!world, checklist, requests, changes, T!ghosts>>
      /\ \/ /\ T!ValidTenantMove(t.copy, T!sequence[i + 1], t.owner, t.sub)
            /\ T!SetState(t.copy, T!sequence[i + 1])
            /\ T!Move(s, row)
         \/ T!Leave(s) /\ UNCHANGED state
  BY DEF T!Advance, T!Advancing
<1>4. /\ row.pc = "refresh" /\ row.at = i + 1 /\ row.copy = t.copy /\ row.goal = t.goal /\ row.sub = t.sub
  BY <1>1 DEF T!SessionRow
<1>5. i # 11 /\ (t.goal = "ONBOARDING" => i < 8)
  <2>1. CASE t.at # 0
    BY <1>1, <1>2, <1>3, <2>1, SequenceFacts
  <2>2. CASE t.at = 0
    <3>1. \A j \in 1..11 : j \in {8, 9, 10, 11} => T!sequence[j] \in {"ONBOARDING", "CONFIGURING", "TESTING", "READY"}
      BY DEF T!sequence
    <3>2. "READY" \in T!Reached(t.goal)
      BY DEF T!Reached
    <3>3. t.goal = "ONBOARDING" => T!sequence[i] \notin {"ONBOARDING", "CONFIGURING", "TESTING", "READY"}
      BY <1>2, <1>3, <2>2 DEF T!Reached
    <3> QED
      BY <1>2, <1>3, <2>2, <3>1, <3>2, <3>3, SequenceFacts
  <2> QED
    BY <2>1, <2>2
<1>6. row \in T!SessionRow
  <2>1. i + 1 \in 0..Len(T!sequence)
    BY <1>2, <1>5, SequenceFacts
  <2> HIDE DEF t, i
  <2> QED
    BY <1>1, <2>1 DEF T!SessionRow
<1>7. i + 1 >= 6 => Cleared
  <2>1. CASE i = 5
    <3>1. T!PaymentVerified
      BY <1>3, <2>1, SequenceFacts DEF T!MayPass
    <3> QED
      BY <3>1 DEF TenantInv, GateSeen, Cleared
  <2>2. CASE i >= 6
    <3>1. CASE t.at # 0
      BY <1>1, <1>2, <2>2, <3>1
    <3>2. CASE t.at = 0
      BY <1>1, <1>2, <2>2, <3>2, SequenceFacts
    <3> QED
      BY <3>1, <3>2
  <2> QED
    BY <1>2, <2>1, <2>2
<1> DEFINE to == T!sequence[i + 1]
<1>8. to \in T!TenantLifecycleState /\ to # "ACTIVE" /\ (to \in Beyond => Cleared)
  <2>1. i + 1 \in 1..11
    BY <1>2, <1>5
  <2> QED
    BY <1>7, <2>1, SequenceFacts
<1>9. requests' \in 0..MaxRequests /\ released' = released /\ wasReady' = wasReady /\ wasPaid' = wasPaid
  BY <1>3 DEF TenantInv, T!TypeOK, T!ghosts
<1>10. released \in BOOLEAN /\ Cleared' = Cleared
  BY <1>9, TenantTypes DEF TenantInv, Cleared
<1> HIDE DEF row, i, to
<1>11. CASE T!ValidTenantMove(t.copy, to, t.owner, t.sub) /\ T!SetState(t.copy, to) /\ T!Move(s, row)
  <2>1. /\ state' \in T!TenantLifecycleState
        /\ state' = "ACTIVE" => state = "ACTIVE" \/ (wasReady /\ wasPaid)
    BY <1>1, <1>8, <1>11, TenantSets
  <2>2. state' \in Beyond => Cleared
    BY <1>8, <1>11 DEF T!SetState, TenantInv, T!PipelineWaitsForPayment, T!TypeOK, Beyond, Cleared
  <2>3. row.goal = "ONBOARDING" => row.at <= 8
    BY <1>2, <1>4, <1>5
  <2>4. row.at >= 6 => Cleared
    BY <1>4, <1>7
  <2> HIDE DEF t
  <2>5. row.copy \in T!TenantLifecycleState /\ row.goal \in {"ONBOARDING", "READY"}
        /\ (row.copy \in Beyond => Cleared) /\ (row.sub.free => wasPaid)
    BY <1>1, <1>4
  <2> QED
    BY <1>3, <1>4, <1>6, <1>9, <1>10, <1>11, <2>1, <2>2, <2>3, <2>4, <2>5, TenantGoesOn
<1>12. CASE T!Leave(s) /\ UNCHANGED state
  BY <1>3, <1>12, TenantLeaves
<1> QED
  BY <1>3, <1>11, <1>12 DEF to, i, row

(* The refreshed copy is the state.                                          *)
LEMMA TenantRefreshed ==
  ASSUME TenantInv, NEW s \in Sessions, T!Refresh(s)
  PROVE  TenantInv'
<1> DEFINE t == tenantTx[s]
           row == [t EXCEPT !.pc = "advance", !.copy = state]
<1>1. /\ t \in T!SessionRow /\ state \in T!TenantLifecycleState
      /\ t.goal \in {"ONBOARDING", "READY"}
      /\ t.goal = "ONBOARDING" => t.at <= 8
      /\ t.at >= 6 => Cleared
      /\ t.sub.free => wasPaid
      /\ state \in Beyond => Cleared
  BY DEF T!Refresh, TenantInv, T!TypeOK, T!SessionRow, RequestsLed, CopiesAllowed, GateSeen, T!PipelineWaitsForPayment, Beyond, Cleared
<1>2. row \in T!SessionRow
  BY <1>1 DEF T!SessionRow
<1>3. /\ row.pc = "advance" /\ row.at = t.at /\ row.copy = state /\ row.goal = t.goal /\ row.sub = t.sub
  BY <1>1 DEF T!SessionRow
<1>4. T!Move(s, row) /\ UNCHANGED <<state, T!world, checklist, requests, changes, T!ghosts>>
  BY DEF T!Refresh
<1>5. requests' \in 0..MaxRequests
  BY <1>4 DEF TenantInv, T!TypeOK
<1> HIDE DEF row, t
<1> QED
  BY <1>1, <1>2, <1>3, <1>4, <1>5, TenantQuiet

(* A state outside the sequence goes to the goal at once.                    *)
LEMMA TenantGoesStraight ==
  ASSUME TenantInv, NEW s \in Sessions, T!AdvanceDirectly(s)
  PROVE  TenantInv'
<1> DEFINE t == tenantTx[s]
           row == T!Proceed(t, t.goal)
<1>1. /\ t.copy \in T!TenantLifecycleState /\ t.goal \in T!TenantLifecycleState /\ t.pc = "advance"
      /\ (t.copy \in Beyond => Cleared) /\ (t.sub.free => wasPaid)
  BY TenantStates DEF T!AdvanceDirectly, TenantInv, RequestsLed, CopiesAllowed, GateSeen
<1>2. UNCHANGED <<T!world, checklist, requests, changes, wasReady, wasPaid>>
  BY DEF T!AdvanceDirectly
<1>3. CASE T!ValidTenantMove(t.copy, t.goal, t.owner, t.sub)
  <2>1. T!SetState(t.copy, t.goal) /\ T!Release(t.copy, t.goal) /\ T!Move(s, row)
    BY <1>3 DEF T!AdvanceDirectly
  <2>2. /\ state' \in T!TenantLifecycleState
        /\ state' = "ACTIVE" => state = "ACTIVE" \/ (wasReady /\ wasPaid)
    BY <1>1, <1>3, <2>1, TenantSets
  <2>3. /\ released' \in BOOLEAN /\ (released => released')
        /\ t.goal \in Beyond => Cleared'
        /\ state' \in Beyond => Cleared'
    BY <1>1, <1>2, <2>1, TenantReleases
  <2>4. /\ row \in T!SessionRow /\ row.pc \in {"idle", "provision", "transition"}
        /\ row.pc # "idle" => row.copy = t.goal
        /\ row.pc = "transition" => row.goal \in T!TenantLifecycleState
        /\ row.sub.free => wasPaid
    BY <1>1, ProceedFacts
  <2>5. requests' \in 0..MaxRequests
    BY <1>2 DEF TenantInv, T!TypeOK
  <2> HIDE DEF row, t
  <2> QED
    BY <1>1, <1>2, <2>1, <2>2, <2>3, <2>4, <2>5, TenantGoesOn
<1>4. CASE ~ T!ValidTenantMove(t.copy, t.goal, t.owner, t.sub)
  <2>1. T!Leave(s) /\ UNCHANGED <<state, T!world, checklist, requests, changes, T!ghosts>>
    BY <1>2, <1>4 DEF T!AdvanceDirectly, T!ghosts
  <2> QED
    BY <2>1, TenantLeaves
<1> QED
  BY <1>3, <1>4

(* The provisioner sets a state that it has not asked the table for.         *)
LEMMA TenantProvisioned ==
  ASSUME TenantInv, NEW s \in Sessions, T!CommitProvision(s)
  PROVE  TenantInv'
<1> DEFINE copy == tenantTx[s].copy
           to == T!Provisioned(copy)
<1>1. copy \in T!TenantLifecycleState /\ (copy \in Beyond => Cleared)
  BY DEF T!CommitProvision, TenantInv, RequestsLed, CopiesAllowed
<1>2. to \in T!TenantLifecycleState /\ (to = "ACTIVE" => copy = "ACTIVE")
  BY <1>1, TenantStates DEF T!Provisioned
<1>3. /\ T!SetState(copy, to) /\ T!Release(copy, to) /\ UNCHANGED wasPaid
      /\ UNCHANGED <<settled, data, whatsapp, requests, changes>>
      /\ wasReady' = (wasReady \/ T!calculate(T!validate_all))
      /\ checklist' = T!validate_all
      /\ sub' = IF sub.status = "NONE" THEN [status |-> "TRIALING", free |-> FALSE] ELSE sub
      /\ tenantTx' = [tenantTx EXCEPT ![s] = T!Idle]
  BY DEF T!CommitProvision, T!Initialize, T!Leave, T!Move
<1> HIDE DEF copy, to
<1>4. /\ released' \in BOOLEAN /\ (released => released')
      /\ state' \in Beyond => Cleared'
  BY <1>1, <1>2, <1>3, TenantReleases
<1>5. /\ state' \in T!TenantLifecycleState
      /\ state' = "ACTIVE" => state = "ACTIVE"
  BY <1>1, <1>2, <1>3 DEF T!SetState, TenantInv, T!TypeOK
<1>6. tenantTx' \in [Sessions -> T!SessionRow] /\ tenantTx'[s] = T!Idle /\ \A t \in Sessions \ {s} : tenantTx'[t] = tenantTx[t]
  BY <1>3, TenantIdle DEF TenantInv, T!TypeOK
<1>7. wasReady' \in BOOLEAN /\ (wasReady => wasReady')
  BY <1>3
<1>8. T!TypeOK'
  <2>1. T!ghosts' \in BOOLEAN \X BOOLEAN \X BOOLEAN
    BY <1>3, <1>4, <1>7, TenantTypes DEF TenantInv, T!ghosts
  <2>2. sub' \in T!SubRow
    BY <1>3, TenantRows DEF TenantInv, T!TypeOK
  <2>3. checklist' \subseteq T!Keys
    BY <1>3, ValidatedKeys DEF TenantInv
  <2> QED
    BY <1>3, <1>5, <1>6, <2>1, <2>2, <2>3 DEF TenantInv, T!TypeOK
<1>9. T!Idle.pc = "idle" /\ ~ T!Idle.sub.free
  BY TenantRows DEF T!Idle
<1>10. RequestsLed'
  BY <1>6, <1>9 DEF TenantInv, RequestsLed
<1>11. Cleared => Cleared'
  BY <1>3, <1>4 DEF Cleared
<1>12. CopiesAllowed'
  BY <1>6, <1>9, <1>11 DEF TenantInv, CopiesAllowed
<1>13. GateSeen'
  <2>1. T!validate_all' = T!validate_all
    BY <1>3 DEF T!validate_all
  <2>2. T!Ready' => wasReady'
    BY <1>3, <2>1 DEF T!Ready
  <2>3. sub'.free => wasPaid'
    BY <1>3, TenantRows DEF TenantInv, GateSeen
  <2>4. T!PaymentVerified' => wasPaid'
    BY <1>3 DEF T!PaymentVerified, TenantInv, GateSeen
  <2>5. sub'.status = "NONE" => ~ settled'
    BY <1>3 DEF TenantInv, GateSeen
  <2>6. \A t \in Sessions : tenantTx'[t].sub.free => wasPaid'
    BY <1>3, <1>6, <1>9 DEF TenantInv, GateSeen
  <2> QED
    BY <2>2, <2>3, <2>4, <2>5, <2>6 DEF GateSeen
<1>14. T!ActiveWasReady' /\ T!ActivePaidFor' /\ T!PipelineWaitsForPayment'
  BY <1>3, <1>4, <1>5, <1>7 DEF TenantInv, T!ActiveWasReady, T!ActivePaidFor, T!PipelineWaitsForPayment, Beyond, Cleared
<1> QED
  BY <1>8, <1>10, <1>12, <1>13, <1>14 DEF TenantInv

(* What changes around the requests is seen when it changes.                 *)
LEMMA TenantWorld ==
  ASSUME TenantInv, UNCHANGED <<state, tenantTx, requests, released>>,
         changes' \in 0..MaxChanges, data' \subseteq T!Keys, whatsapp' \in BOOLEAN, settled' \in BOOLEAN,
         sub' \in T!SubRow, checklist' = checklist \/ checklist' \subseteq T!Keys,
         wasReady' \in BOOLEAN, wasPaid' \in BOOLEAN, wasReady => wasReady', wasPaid => wasPaid',
         T!Ready' => wasReady', T!PaymentVerified' => wasPaid', sub'.free => wasPaid',
         sub'.status = "NONE" => ~ settled'
  PROVE  TenantInv'
<1>1. T!TypeOK'
  <2>1. T!ghosts' \in BOOLEAN \X BOOLEAN \X BOOLEAN
    BY TenantTypes DEF TenantInv, T!ghosts
  <2> QED
    BY <2>1 DEF TenantInv, T!TypeOK
<1>2. RequestsLed'
  BY DEF TenantInv, RequestsLed
<1>3. CopiesAllowed'
  BY DEF TenantInv, CopiesAllowed, Cleared
<1>4. GateSeen'
  BY DEF TenantInv, GateSeen
<1>5. T!ActiveWasReady' /\ T!ActivePaidFor' /\ T!PipelineWaitsForPayment'
  BY DEF TenantInv, T!ActiveWasReady, T!ActivePaidFor, T!PipelineWaitsForPayment
<1> QED
  BY <1>1, <1>2, <1>3, <1>4, <1>5 DEF TenantInv

LEMMA SeenFacts ==
  ASSUME T!SeenReady
  PROVE  /\ wasReady' \in BOOLEAN /\ (wasReady => wasReady')
         /\ T!Ready' => wasReady'
  BY DEF T!SeenReady, T!Ready

LEMMA TenantChanged ==
  ASSUME T!Setting, TenantInv,
         \/ \E it \in Ticked : T!UpdateChecklistItem(it)
         \/ \E filled \in Data : T!ChangeBusiness(filled)
         \/ \E healthy \in BOOLEAN : T!ConnectWhatsApp(healthy)
         \/ T!DisconnectWhatsApp
         \/ \E bill \in Bills : T!ChangeSubscription(bill)
  PROVE  TenantInv'
<1>0. /\ wasReady \in BOOLEAN /\ wasPaid \in BOOLEAN /\ data \subseteq T!Keys /\ sub \in T!SubRow
      /\ settled \in BOOLEAN /\ whatsapp \in BOOLEAN
  BY TenantTypes DEF TenantInv, T!TypeOK
<1>1. ASSUME T!Change PROVE changes' \in 0..MaxChanges
  BY <1>1 DEF T!Change, TenantInv, T!TypeOK, T!Setting
<1>2. /\ sub.free => wasPaid
      /\ sub.status = "NONE" => ~ settled
      /\ T!PaymentVerified => wasPaid
      /\ T!Ready => wasReady
  BY DEF TenantInv, GateSeen
<1>3. CASE \E it \in Ticked : T!UpdateChecklistItem(it)
  <2>1. PICK it \in Ticked : T!UpdateChecklistItem(it)
    BY <1>3
  <2>2. /\ changes' \in 0..MaxChanges /\ checklist # None
        /\ checklist' \in {checklist \cup {it}, checklist \ {it}}
        /\ UNCHANGED <<state, T!world, tenantTx, requests, wasReady, wasPaid, released>>
    BY <1>1, <2>1 DEF T!UpdateChecklistItem, T!ghosts
  <2>3. checklist' \subseteq T!Keys
    BY <2>2 DEF TenantInv, T!TypeOK, T!Setting
  <2>4. T!validate_all' = T!validate_all /\ T!PaymentVerified' = T!PaymentVerified
    BY <2>2 DEF T!validate_all, T!PaymentVerified, T!world
  <2>5. T!Ready' => wasReady'
    BY <1>2, <2>2, <2>4 DEF T!Ready
  <2> QED
    BY <1>0, <1>2, <2>2, <2>3, <2>4, <2>5, TenantWorld DEF T!world
<1>4. CASE \E filled \in Data : T!ChangeBusiness(filled)
  <2>1. /\ changes' \in 0..MaxChanges /\ data' \subseteq T!Keys /\ T!SeenReady
        /\ UNCHANGED <<state, sub, settled, whatsapp, checklist, tenantTx, requests, wasPaid, released>>
    BY <1>1, <1>4 DEF T!ChangeBusiness, T!Setting
  <2>2. T!PaymentVerified' = T!PaymentVerified
    BY <2>1 DEF T!PaymentVerified
  <2> QED
    BY <1>0, <1>2, <2>1, <2>2, SeenFacts, TenantWorld
<1>5. CASE \E healthy \in BOOLEAN : T!ConnectWhatsApp(healthy)
  <2>1. /\ changes' \in 0..MaxChanges /\ whatsapp' \in BOOLEAN /\ T!SeenReady
        /\ \/ checklist' = checklist
           \/ checklist # None /\ checklist' = checklist \cup {"whatsapp_integration_available"}
        /\ UNCHANGED <<state, sub, settled, data, tenantTx, requests, wasPaid, released>>
    BY <1>1, <1>5 DEF T!ConnectWhatsApp
  <2>2. T!PaymentVerified' = T!PaymentVerified
    BY <2>1 DEF T!PaymentVerified
  <2>3. checklist' = checklist \/ checklist' \subseteq T!Keys
    BY <2>1, KeyFacts DEF TenantInv, T!TypeOK
  <2> QED
    BY <1>0, <1>2, <2>1, <2>2, <2>3, SeenFacts, TenantWorld
<1>6. CASE T!DisconnectWhatsApp
  <2>1. /\ changes' \in 0..MaxChanges /\ whatsapp' \in BOOLEAN /\ T!SeenReady
        /\ UNCHANGED <<state, sub, settled, data, checklist, tenantTx, requests, wasPaid, released>>
    BY <1>1, <1>6 DEF T!DisconnectWhatsApp
  <2>2. T!PaymentVerified' = T!PaymentVerified
    BY <2>1 DEF T!PaymentVerified
  <2> QED
    BY <1>0, <1>2, <2>1, <2>2, SeenFacts, TenantWorld
<1>7. CASE \E bill \in Bills : T!ChangeSubscription(bill)
  <2>1. PICK bill \in Bills : T!ChangeSubscription(bill)
    BY <1>7
  <2>2. /\ bill.sub \in T!SubRow \ {T!NoSub} /\ bill.settled \in BOOLEAN
    BY DEF T!Setting
  <2>3. /\ changes' \in 0..MaxChanges
        /\ sub' = bill.sub /\ settled' = bill.settled
        /\ wasPaid' = (wasPaid \/ T!PaymentVerified')
        /\ UNCHANGED <<state, data, whatsapp, checklist, tenantTx, requests, wasReady, released>>
    BY <1>1, <2>1 DEF T!ChangeSubscription
  <2>4. sub' \in T!SubRow /\ sub'.status # "NONE" /\ settled' \in BOOLEAN
    <3>1. bill.sub \in T!SubRow /\ bill.sub.status # "NONE"
      <4>1. \A x \in T!SubRow \ {T!NoSub} : x.status # "NONE"
        BY BilledRows
      <4> QED
        BY <2>2, <4>1
    <3> QED
      BY <2>2, <2>3, <3>1
  <2>5. /\ wasPaid' \in BOOLEAN /\ (wasPaid => wasPaid') /\ (T!PaymentVerified' => wasPaid')
    BY <2>3 DEF T!PaymentVerified
  <2>6. sub'.free => wasPaid'
    BY <2>4, <2>5 DEF T!PaymentVerified
  <2>7. T!Ready' => wasReady'
    BY <1>2, <2>3 DEF T!Ready, T!validate_all
  <2> QED
    BY <1>0, <2>3, <2>4, <2>5, <2>6, <2>7, TenantWorld
<1> QED
  BY <1>3, <1>4, <1>5, <1>6, <1>7

LEMMA TenantStep == T!Setting /\ TenantInv /\ [T!Next]_(T!vars) => TenantInv'
<1> SUFFICES ASSUME T!Setting, TenantInv, [T!Next]_(T!vars) PROVE TenantInv'
  OBVIOUS
<1>1. CASE UNCHANGED T!vars
  <2>1. T!TypeOK'
    BY <1>1 DEF T!vars, T!world, T!ghosts, TenantInv, T!TypeOK
  <2>2. RequestsLed' /\ CopiesAllowed'
    BY <1>1 DEF T!vars, T!world, T!ghosts, TenantInv, RequestsLed, CopiesAllowed, Cleared
  <2>3. GateSeen'
    BY <1>1 DEF T!vars, T!world, T!ghosts, TenantInv, GateSeen, T!Ready, T!validate_all, T!PaymentVerified
  <2>4. T!ActiveWasReady' /\ T!ActivePaidFor' /\ T!PipelineWaitsForPayment'
    BY <1>1 DEF T!vars, T!world, T!ghosts, TenantInv, T!ActiveWasReady, T!ActivePaidFor, T!PipelineWaitsForPayment
  <2> QED
    BY <2>1, <2>2, <2>3, <2>4 DEF TenantInv
<1>2. CASE \E s \in Sessions, target \in Lifecycle, owner \in BOOLEAN : T!AskTransition(s, target, owner)
  BY <1>2, TenantAsked
<1>3. ASSUME NEW s \in Sessions, NEW owner \in BOOLEAN,
             \/ T!StartOnboarding(s, owner) \/ T!ValidateOnboarding(s, owner)
             \/ T!CompleteOnboarding(s, owner) \/ T!AskActivation(s, owner)
      PROVE  TenantInv'
  BY <1>3, TenantAsked, TenantValidated
<1>4. ASSUME NEW s \in Sessions,
             \/ T!AskProvision(s) \/ T!AskSummary(s)
             \/ T!CommitTransition(s) \/ T!AdvanceDone(s) \/ T!AwaitPayment(s) \/ T!Advance(s) \/ T!Refresh(s)
             \/ T!AdvanceDirectly(s) \/ T!CommitProvision(s) \/ T!Drop(s)
      PROVE  TenantInv'
  <2>1. CASE T!AskProvision(s) \/ T!AskSummary(s)
    BY <2>1, TenantAsked DEF T!AskSummary
  <2>2. CASE T!CommitTransition(s)
    BY <2>2, TenantMoved
  <2>3. CASE T!AdvanceDone(s)
    BY <2>3, TenantProceeds DEF T!AdvanceDone
  <2>4. CASE T!AwaitPayment(s)
    BY <2>4, TenantProceeds DEF T!AwaitPayment, T!Advancing
  <2>5. CASE T!Advance(s)
    BY <2>5, TenantAdvances
  <2>6. CASE T!Refresh(s)
    BY <2>6, TenantRefreshed
  <2>7. CASE T!AdvanceDirectly(s)
    BY <2>7, TenantGoesStraight
  <2>8. CASE T!CommitProvision(s)
    BY <2>8, TenantProvisioned
  <2>9. CASE T!Drop(s)
    BY <2>9, TenantLeaves DEF T!Drop
  <2> QED
    BY <1>4, <2>1, <2>2, <2>3, <2>4, <2>5, <2>6, <2>7, <2>8, <2>9
<1>5. ASSUME \/ \E it \in Ticked : T!UpdateChecklistItem(it)
             \/ \E filled \in Data : T!ChangeBusiness(filled)
             \/ \E healthy \in BOOLEAN : T!ConnectWhatsApp(healthy)
             \/ T!DisconnectWhatsApp
             \/ \E bill \in Bills : T!ChangeSubscription(bill)
      PROVE  TenantInv'
  BY <1>5, TenantChanged
<1> QED
  BY <1>1, <1>2, <1>3, <1>4, <1>5 DEF T!Next, T!Quiet

LEMMA TenantKept == ASSUME T!Setting PROVE T!Spec => []TenantInv
<1>1. TenantInv /\ [T!Next]_(T!vars) => TenantInv'
  BY TenantStep
<1>2. T!Init => TenantInv
  BY TenantInit
<1> QED
  BY <1>1, <1>2, PTL DEF T!Spec
-----------------------------------------------------------------------------
(***************************************************************************)
(* USAGE.  What was recorded is never taken back, so the sum a request has *)
(* read is at most what is used by now, and once it has recorded its own   *)
(* part on top of it (SumsTrusted).                                        *)
(***************************************************************************)

(* The sum a request has read is not above what is used, and after its       *)
(* record its own part is in it.                                             *)
SumsTrusted ==
  \A s \in Sessions :
    /\ usageTx[s].pc # "idle" => usageTx[s].limit \in U!Grants
    /\ usageTx[s].pc = "checked" => usageTx[s].current <= used[usageTx[s].period]
    /\ usageTx[s].pc = "recorded" => usageTx[s].current + usageTx[s].qty <= used[usageTx[s].period]

PlanKnown == plan \in Plans

UsageInv == U!TypeOK /\ PlanKnown /\ SumsTrusted /\ U!NoFalseAlarm
-----------------------------------------------------------------------------
(* The instance has its own copy of the operators on finite sets.            *)
LEMMA SameFinite == \A S : U!IsFiniteSet(S) <=> IsFiniteSet(S)
  BY DEF U!IsFiniteSet, IsFiniteSet

LEMMA SameCardinality == \A S : U!Cardinality(S) = Cardinality(S)
  BY SameFinite DEF U!Cardinality, Cardinality, U!IsFiniteSet, IsFiniteSet

LEMMA FiniteUsage ==
  ASSUME U!Setting
  PROVE  /\ IsFiniteSet(Sessions) /\ Sessions # {}
         /\ IsFiniteSet(Plans)
         /\ IsFiniteSet(Tokens) /\ Tokens # {}
  BY SameFinite DEF U!Setting

LEMMA UsageNumbers ==
  ASSUME U!Setting
  PROVE  /\ U!Grants \subseteq {-1} \cup Nat /\ U!Quantities \subseteq Nat
         /\ 0 \in 0..MaxPeriod
<1>1. ASSUME NEW x \in Plans PROVE U!get_limit(x) \in {-1} \cup Nat
  <2>1. x.addon \in {-1} \cup Nat
    BY DEF U!Setting, U!SubscriptionRow
  <2> DEFINE base == IF x.status = "TRIALING" THEN TrialLimit ELSE PlanLimit
  <2>2. base \in {-1} \cup Nat
    BY DEF U!Setting
  <2>3. CASE ~ U!check_subscription_temporal_validity(x)
    BY <2>3 DEF U!get_limit
  <2>4. CASE U!check_subscription_temporal_validity(x) /\ -1 \in {base, x.addon}
    BY <2>4 DEF U!get_limit
  <2>5. CASE U!check_subscription_temporal_validity(x) /\ -1 \notin {base, x.addon}
    <3>1. base + x.addon \in Nat
      BY <2>1, <2>2, <2>5
    <3>2. U!get_limit(x) = base + x.addon
      BY <2>5 DEF U!get_limit
    <3> QED
      BY <3>1, <3>2
  <2> QED
    BY <2>3, <2>4, <2>5
<1>2. ASSUME NEW n \in Tokens PROVE U!calculate_ai_credits(n) \in Nat
  <2>1. n \in Nat /\ TOKENS_PER_AI_CREDIT \in Nat \ {0}
    BY DEF U!Setting
  <2>2. n \div TOKENS_PER_AI_CREDIT \in Nat
    BY <2>1
  <2> QED
    BY <2>2 DEF U!calculate_ai_credits
<1> QED
  BY <1>1, <1>2 DEF U!Grants, U!Quantities, U!Setting

LEMMA UsageRows ==
  ASSUME U!Setting, NEW row \in U!SessionRow
  PROVE  /\ row.period \in 0..MaxPeriod /\ row.qty \in Nat /\ row.current \in Nat
         /\ row.limit \in {-1} \cup Nat
  BY UsageNumbers DEF U!SessionRow

LEMMA UsageIdle == ASSUME U!Setting PROVE U!Idle \in U!SessionRow /\ U!Idle.pc = "idle"
  BY UsageNumbers DEF U!Idle, U!SessionRow, U!Policy

LEMMA UsageMoves ==
  ASSUME U!TypeOK, NEW s \in Sessions, NEW row \in U!SessionRow, U!Move(s, row)
  PROVE  /\ usageTx' \in [Sessions -> U!SessionRow]
         /\ usageTx'[s] = row
         /\ \A t \in Sessions : t # s => usageTx'[t] = usageTx[t]
  BY DEF U!TypeOK, U!Move

LEMMA UsageInit == U!Setting /\ U!Init => UsageInv
<1> SUFFICES ASSUME U!Setting, U!Init PROVE UsageInv
  OBVIOUS
<1>1. U!TypeOK
  BY UsageIdle, UsageNumbers DEF U!Init, U!TypeOK, U!Setting
<1>2. PlanKnown /\ SumsTrusted /\ U!NoFalseAlarm
  BY DEF U!Init, PlanKnown, SumsTrusted, U!Idle, U!NoFalseAlarm
<1> QED
  BY <1>1, <1>2 DEF UsageInv

(* A request moves; what is used grows, and the alarms are what they were    *)
(* or true.                                                                  *)
LEMMA UsageStepped ==
  ASSUME U!Setting, UsageInv, NEW s \in Sessions, NEW row \in U!SessionRow, U!Move(s, row),
         row.pc # "idle" => row.limit \in U!Grants,
         row.pc = "checked" => row.current <= used'[row.period],
         row.pc = "recorded" => row.current + row.qty <= used'[row.period],
         used' \in [0..MaxPeriod -> Nat], waived' \in [0..MaxPeriod -> Nat],
         \A p \in 0..MaxPeriod : used[p] <= used'[p],
         announced' \subseteq U!Event,
         \A e \in announced' \ announced :
           ~ e.early => e.threshold * e.limit <= used'[e.period] * 100,
         uses' \in 0..MaxUses,
         UNCHANGED <<period, plan>>
  PROVE  UsageInv'
<1>1. /\ usageTx' \in [Sessions -> U!SessionRow] /\ usageTx'[s] = row
      /\ \A t \in Sessions : t # s => usageTx'[t] = usageTx[t]
  BY UsageMoves DEF UsageInv
<1>2. U!TypeOK'
  BY <1>1 DEF UsageInv, U!TypeOK
<1>3. SumsTrusted'
  <2>1. ASSUME NEW t \in Sessions, t # s
        PROVE  /\ usageTx[t].pc # "idle" => usageTx[t].limit \in U!Grants
               /\ usageTx[t].pc = "checked" => usageTx[t].current <= used'[usageTx[t].period]
               /\ usageTx[t].pc = "recorded" => usageTx[t].current + usageTx[t].qty <= used'[usageTx[t].period]
    <3>1. usageTx[t] \in U!SessionRow
      BY DEF UsageInv, U!TypeOK
    <3>2. /\ usageTx[t].period \in 0..MaxPeriod /\ usageTx[t].qty \in Nat /\ usageTx[t].current \in Nat
      BY <3>1, UsageRows
    <3>3. used[usageTx[t].period] \in Nat /\ used'[usageTx[t].period] \in Nat
          /\ used[usageTx[t].period] <= used'[usageTx[t].period]
      BY <3>2 DEF UsageInv, U!TypeOK
    <3> QED
      BY <3>2, <3>3 DEF UsageInv, SumsTrusted
  <2> QED
    BY <1>1, <2>1 DEF SumsTrusted
<1>4. U!NoFalseAlarm'
  <2> SUFFICES ASSUME NEW e \in announced', ~ e.early
               PROVE  used'[e.period] * 100 >= e.threshold * e.limit
    BY DEF U!NoFalseAlarm
  <2>1. e.period \in 0..MaxPeriod /\ e.threshold \in Nat /\ e.limit \in Int
    BY UsageNumbers DEF U!Event, U!Threshold
  <2>2. used[e.period] \in Nat /\ used'[e.period] \in Nat /\ used[e.period] <= used'[e.period]
    BY <2>1 DEF UsageInv, U!TypeOK
  <2>3. e.threshold * e.limit \in Int
    BY <2>1
  <2>4. CASE e \in announced
    <3>1. used[e.period] * 100 >= e.threshold * e.limit
      BY <2>4 DEF UsageInv, U!NoFalseAlarm
    <3> QED
      BY <2>2, <2>3, <3>1
  <2>5. CASE e \notin announced
    BY <2>2, <2>3, <2>5
  <2> QED
    BY <2>4, <2>5
<1> QED
  BY <1>2, <1>3, <1>4 DEF UsageInv, PlanKnown

(* A request that stops, or only goes on, disturbs nothing.                  *)
LEMMA UsageRefused ==
  ASSUME U!Setting, UsageInv, NEW s \in Sessions, U!Leave(s),
         UNCHANGED <<period, plan, used, announced, uses, waived>>
  PROVE  UsageInv'
<1>1. U!Idle \in U!SessionRow /\ U!Idle.pc = "idle" /\ U!Move(s, U!Idle)
  BY UsageIdle DEF U!Leave
<1> HIDE DEF U!Idle
<1>2. \A p \in 0..MaxPeriod : used[p] <= used'[p]
  BY DEF UsageInv, U!TypeOK
<1>3. /\ used' \in [0..MaxPeriod -> Nat] /\ waived' \in [0..MaxPeriod -> Nat]
      /\ announced' \subseteq U!Event /\ uses' \in 0..MaxUses
      /\ announced' \ announced = {} /\ UNCHANGED <<period, plan>>
  BY DEF UsageInv, U!TypeOK
<1> QED
  BY <1>1, <1>2, <1>3, UsageStepped

LEMMA UsageAsked ==
  ASSUME U!Setting, UsageInv, NEW s \in Sessions, NEW tokens \in Tokens, NEW policy \in U!Policy,
         U!ReadEntitlement(s, tokens, policy)
  PROVE  UsageInv'
<1> DEFINE row == [U!Idle EXCEPT !.pc = "measuring", !.period = period, !.limit = U!get_limit(plan),
                               !.qty = U!calculate_ai_credits(tokens), !.policy = policy]
<1>0. plan \in Plans
  BY DEF UsageInv, PlanKnown
<1>1. U!get_limit(plan) \in U!Grants /\ U!calculate_ai_credits(tokens) \in U!Quantities
  BY <1>0 DEF U!Grants, U!Quantities
<1>2. /\ row \in U!SessionRow /\ row.pc = "measuring" /\ row.limit = U!get_limit(plan)
  <2>1. U!Idle \in U!SessionRow /\ period \in 0..MaxPeriod
    BY UsageIdle DEF UsageInv, U!TypeOK
  <2> HIDE DEF U!Idle
  <2>2. ASSUME NEW g \in U!Grants, NEW q \in U!Quantities, NEW r \in U!SessionRow
        PROVE  LET n == [r EXCEPT !.pc = "measuring", !.period = period, !.limit = g,
                                  !.qty = q, !.policy = policy]
               IN  n \in U!SessionRow /\ n.pc = "measuring" /\ n.limit = g
    BY <2>1 DEF U!SessionRow
  <2> QED
    BY <1>1, <2>1, <2>2
<1>3. U!Move(s, row) /\ UNCHANGED <<period, plan, used, announced, waived>>
      /\ uses' = uses + 1 /\ uses < MaxUses
  BY DEF U!ReadEntitlement
<1> HIDE DEF row
<1>4. row \in U!SessionRow /\ row.pc = "measuring" /\ row.limit \in U!Grants
  BY <1>1, <1>2
<1>5. \A p \in 0..MaxPeriod : used[p] <= used'[p]
  BY <1>3 DEF UsageInv, U!TypeOK
<1>6. /\ used' \in [0..MaxPeriod -> Nat] /\ waived' \in [0..MaxPeriod -> Nat]
      /\ announced' \subseteq U!Event /\ uses' \in 0..MaxUses
      /\ announced' \ announced = {}
  BY <1>3 DEF UsageInv, U!TypeOK, U!Setting
<1> QED
  BY <1>3, <1>4, <1>5, <1>6, UsageStepped

LEMMA UsageMeasured ==
  ASSUME U!Setting, UsageInv, NEW s \in Sessions, U!MeasureUsage(s)
  PROVE  UsageInv'
<1> DEFINE row  == usageTx[s]
           over == U!Exceeds(row, used[row.period])
           next == [row EXCEPT !.pc = "checked", !.current = used[row.period],
                               !.waived = over \/ row.limit = -1]
           new  == [U!Alarm(row, 100) EXCEPT !.early = TRUE]
<1>1. row \in U!SessionRow /\ row.pc = "measuring" /\ row.limit \in U!Grants
      /\ UNCHANGED <<period, plan, used, uses, waived>>
  BY DEF U!MeasureUsage, UsageInv, U!TypeOK, SumsTrusted
<1>2. row.period \in 0..MaxPeriod /\ used[row.period] \in Nat
  BY <1>1, UsageRows DEF UsageInv, U!TypeOK
<1>3. announced' = announced \/ announced' = announced \cup {new}
  BY DEF U!MeasureUsage
<1>4. new \in U!Event /\ new.early
  BY <1>1, <1>2 DEF U!Alarm, U!Event, U!Threshold
<1>5. U!Leave(s) \/ U!Move(s, next)
  BY DEF U!MeasureUsage
<1>6. /\ next \in U!SessionRow /\ next.pc = "checked" /\ next.limit = row.limit
      /\ next.period = row.period /\ next.current = used[row.period]
  <2>1. (over \/ row.limit = -1) \in BOOLEAN
    BY Zenon DEF U!Exceeds
  <2> QED
    BY <1>1, <1>2, <2>1 DEF U!SessionRow
<1> HIDE DEF next, new, row
<1>7. \A p \in 0..MaxPeriod : used[p] <= used'[p]
  BY <1>1 DEF UsageInv, U!TypeOK
<1>8. /\ used' \in [0..MaxPeriod -> Nat] /\ waived' \in [0..MaxPeriod -> Nat]
      /\ announced' \subseteq U!Event /\ uses' \in 0..MaxUses
      /\ \A e \in announced' \ announced : e.early
  BY <1>1, <1>3, <1>4 DEF UsageInv, U!TypeOK
<1>9. CASE U!Leave(s)
  <2>1. U!Idle \in U!SessionRow /\ U!Idle.pc = "idle" /\ U!Move(s, U!Idle)
    BY <1>9, UsageIdle DEF U!Leave
  <2> HIDE DEF U!Idle
  <2> QED
    BY <1>1, <1>7, <1>8, <2>1, UsageStepped
<1>10. CASE U!Move(s, next)
  <2>1. next.current <= used'[next.period]
    BY <1>1, <1>2, <1>6
  <2> QED
    BY <1>1, <1>6, <1>7, <1>8, <1>10, <2>1, UsageStepped
<1> QED
  BY <1>5, <1>9, <1>10

LEMMA UsageRecorded ==
  ASSUME U!Setting, UsageInv, NEW s \in Sessions, U!RecordUsage(s)
  PROVE  UsageInv'
<1> DEFINE row  == usageTx[s]
           next == [row EXCEPT !.pc = "recorded"]
<1>1. row \in U!SessionRow /\ row.limit \in U!Grants /\ row.current <= used[row.period]
  BY DEF U!RecordUsage, UsageInv, U!TypeOK, SumsTrusted
<1>2. row.period \in 0..MaxPeriod /\ row.qty \in Nat /\ row.current \in Nat /\ used[row.period] \in Nat
  BY <1>1, UsageRows DEF UsageInv, U!TypeOK
<1>3. /\ used' = [used EXCEPT ![row.period] = @ + row.qty] /\ U!Move(s, next)
      /\ waived' = waived \/ waived' = [waived EXCEPT ![row.period] = @ + row.qty]
      /\ UNCHANGED <<period, plan, announced, uses>>
  BY DEF U!RecordUsage
<1>4. /\ next \in U!SessionRow /\ next.pc = "recorded" /\ next.limit = row.limit
      /\ next.period = row.period /\ next.current = row.current /\ next.qty = row.qty
  BY <1>1 DEF U!SessionRow
<1> HIDE DEF next, row
<1>5. /\ used' \in [0..MaxPeriod -> Nat]
      /\ \A p \in 0..MaxPeriod : used[p] <= used'[p]
      /\ used'[row.period] = used[row.period] + row.qty
  BY <1>2, <1>3 DEF UsageInv, U!TypeOK
<1>6. waived' \in [0..MaxPeriod -> Nat]
  BY <1>2, <1>3 DEF UsageInv, U!TypeOK
<1>7. next.current + next.qty <= used'[next.period]
  BY <1>1, <1>2, <1>4, <1>5
<1>8. announced' \subseteq U!Event /\ uses' \in 0..MaxUses /\ announced' \ announced = {}
  BY <1>3 DEF UsageInv, U!TypeOK
<1> QED
  BY <1>1, <1>3, <1>4, <1>5, <1>6, <1>7, <1>8, UsageStepped

LEMMA UsageAnnounced ==
  ASSUME U!Setting, UsageInv, NEW s \in Sessions, U!AnnounceThresholds(s)
  PROVE  UsageInv'
<1> DEFINE row == usageTx[s]
<1>1. row \in U!SessionRow /\ row.limit \in U!Grants /\ row.current + row.qty <= used[row.period]
  BY DEF U!AnnounceThresholds, UsageInv, U!TypeOK, SumsTrusted
<1>2. /\ row.period \in 0..MaxPeriod /\ row.qty \in Nat /\ row.current \in Nat
      /\ used[row.period] \in Nat /\ row.limit \in Int
  BY <1>1, UsageRows DEF UsageInv, U!TypeOK
<1>3. /\ announced' = announced \cup U!Alarms(row) /\ U!Leave(s)
      /\ UNCHANGED <<period, plan, used, uses, waived>>
  BY DEF U!AnnounceThresholds
<1>4. ASSUME NEW e \in U!Alarms(row)
      PROVE  e \in U!Event /\ e.threshold * e.limit <= used[e.period] * 100
  <2>1. PICK t \in U!Crossed(row) : e = U!Alarm(row, t)
    BY DEF U!Alarms
  <2>2. t \in U!Threshold /\ t \in Nat /\ t * row.limit <= (row.current + row.qty) * 100
    BY DEF U!Crossed, U!Threshold
  <2>3. e \in U!Event /\ e.threshold = t /\ e.limit = row.limit /\ e.period = row.period
    BY <1>1, <1>2, <2>1, <2>2 DEF U!Alarm, U!Event
  <2>4. t * row.limit \in Int
    BY <1>2, <2>2
  <2>5. (row.current + row.qty) * 100 <= used[row.period] * 100
    BY <1>1, <1>2
  <2> QED
    BY <1>2, <2>2, <2>3, <2>4, <2>5
<1>5. \A e \in announced' \ announced : e \in U!Event /\ e.threshold * e.limit <= used'[e.period] * 100
  BY <1>3, <1>4
<1>6. U!Idle \in U!SessionRow /\ U!Idle.pc = "idle" /\ U!Move(s, U!Idle)
  BY <1>3, UsageIdle DEF U!Leave
<1> HIDE DEF U!Idle
<1>7. /\ used' \in [0..MaxPeriod -> Nat] /\ waived' \in [0..MaxPeriod -> Nat]
      /\ announced' \subseteq U!Event /\ uses' \in 0..MaxUses
      /\ \A p \in 0..MaxPeriod : used[p] <= used'[p]
  BY <1>3, <1>5 DEF UsageInv, U!TypeOK
<1> QED
  BY <1>3, <1>5, <1>6, <1>7, UsageStepped

LEMMA UsageStep == U!Setting /\ UsageInv /\ [U!Next]_(U!vars) => UsageInv'
<1> SUFFICES ASSUME U!Setting, UsageInv, [U!Next]_(U!vars) PROVE UsageInv'
  OBVIOUS
<1>1. ASSUME NEW s \in Sessions, NEW tokens \in Tokens, NEW policy \in U!Policy,
             U!ReadEntitlement(s, tokens, policy)
      PROVE  UsageInv'
  BY <1>1, UsageAsked
<1>2. ASSUME NEW s \in Sessions, U!MeasureUsage(s)
      PROVE  UsageInv'
  BY <1>2, UsageMeasured
<1>3. ASSUME NEW s \in Sessions, U!RecordUsage(s)
      PROVE  UsageInv'
  BY <1>3, UsageRecorded
<1>4. ASSUME NEW s \in Sessions, U!AnnounceThresholds(s)
      PROVE  UsageInv'
  BY <1>4, UsageAnnounced
<1>5. ASSUME NEW s \in Sessions, U!Drop(s)
      PROVE  UsageInv'
  BY <1>5, UsageRefused DEF U!Drop
<1>6. ASSUME NEW x \in Plans, U!ChangeEntitlement(x)
      PROVE  UsageInv'
  BY <1>6 DEF U!ChangeEntitlement, UsageInv, PlanKnown, U!TypeOK, SumsTrusted, U!NoFalseAlarm, U!Setting
<1>7. CASE U!RenewPeriod
  <2>1. period' \in 0..MaxPeriod
    BY <1>7 DEF U!RenewPeriod, UsageInv, U!TypeOK, U!Setting
  <2> QED
    BY <1>7, <2>1 DEF U!RenewPeriod, UsageInv, PlanKnown, U!TypeOK, SumsTrusted, U!NoFalseAlarm
<1>8. ASSUME UNCHANGED U!vars
      PROVE  UsageInv'
  BY <1>8 DEF U!vars, UsageInv, PlanKnown, U!TypeOK, SumsTrusted, U!NoFalseAlarm
<1> QED
  BY <1>1, <1>2, <1>3, <1>4, <1>5, <1>6, <1>7, <1>8 DEF U!Next
-----------------------------------------------------------------------------
LEMMA UsageKept == ASSUME U!Setting PROVE U!Spec => []UsageInv
  BY UsageInit, UsageStep, PTL DEF U!Spec

(***************************************************************************)
(* What a limit lets through.  A request that a limit holds back has seen    *)
(* room for its own part, and what the others had measured by then is not    *)
(* more than the part of each; recording or dropping only takes from what is *)
(* still to come.                                                            *)
(***************************************************************************)

(* What a request that a limit holds back has measured and not recorded.     *)
Part(r, p) == IF r.pc = "checked" /\ ~ r.waived /\ r.period = p THEN r.qty ELSE 0
Load(p) == [t \in Sessions |-> Part(usageTx[t], p)]

TopGrant == CHOOSE g \in U!Grants \cup {0} : \A x \in U!Grants \cup {0} : x <= g
TopPart == CHOOSE q \in U!Quantities : \A x \in U!Quantities : x <= q
Most == TopGrant + (Cardinality(Sessions) - 1) * TopPart

Room == \A p \in 0..MaxPeriod : \A h : Adds(h, Load(p), Sessions) => used[p] - waived[p] + h[Sessions] <= Most

LEMMA TopFacts ==
  ASSUME U!Setting
  PROVE  /\ TopGrant \in U!Grants \cup {0} /\ TopGrant \in Nat /\ \A x \in U!Grants : x <= TopGrant
         /\ TopPart \in U!Quantities /\ TopPart \in Nat /\ \A x \in U!Quantities : x <= TopPart
         /\ Cardinality(Sessions) \in Nat \ {0}
         /\ Most \in Nat
<1>1. IsFiniteSet(U!Grants)
  <2> DEFINE f == [x \in Plans |-> U!get_limit(x)]
  <2>1. f \in Surjection(Plans, U!Grants)
    <3>1. f \in [Plans -> U!Grants]
      BY DEF U!Grants
    <3>2. \A g \in U!Grants : \E x \in Plans : f[x] = g
      BY DEF U!Grants
    <3> HIDE DEF f
    <3> QED
      BY <3>1, <3>2 DEF Surjection
  <2> HIDE DEF f
  <2> QED
    BY <2>1, FS_Surjection, FiniteUsage
<1>2. IsFiniteSet(U!Quantities)
  <2> DEFINE f == [n \in Tokens |-> U!calculate_ai_credits(n)]
  <2>1. f \in Surjection(Tokens, U!Quantities)
    <3>1. f \in [Tokens -> U!Quantities]
      BY DEF U!Quantities
    <3>2. \A q \in U!Quantities : \E n \in Tokens : f[n] = q
      BY DEF U!Quantities
    <3> HIDE DEF f
    <3> QED
      BY <3>1, <3>2 DEF Surjection
  <2> HIDE DEF f
  <2> QED
    BY <2>1, FS_Surjection, FiniteUsage
<1>3. U!Grants \subseteq {-1} \cup Nat /\ U!Quantities \subseteq Nat
  BY UsageNumbers
<1>4. \E g \in U!Grants \cup {0} : \A x \in U!Grants \cup {0} : x <= g
  <2> DEFINE S == U!Grants \cup {0}
  <2>1. IsFiniteSet(S)
    BY <1>1, FS_AddElement
  <2>2. S # {} /\ S \subseteq Int
    BY <1>3
  <2> HIDE DEF S
  <2>3. \E m \in S : \A x \in S : x <= m
    BY <2>1, <2>2, Largest
  <2> QED
    BY <2>3 DEF S
<1>5. \E q \in U!Quantities : \A x \in U!Quantities : x <= q
  <2>1. U!Quantities # {} /\ U!Quantities \subseteq Int
    <3>1. Tokens # {}
      BY FiniteUsage
    <3>2. U!Quantities # {}
      BY <3>1 DEF U!Quantities
    <3> QED
      BY <1>3, <3>2
  <2> QED
    BY <1>2, <2>1, Largest
<1>6. TopGrant \in U!Grants \cup {0} /\ \A x \in U!Grants \cup {0} : x <= TopGrant
  BY <1>4 DEF TopGrant
<1>7. TopPart \in U!Quantities /\ \A x \in U!Quantities : x <= TopPart
  BY <1>5 DEF TopPart
<1>8. TopGrant \in Nat /\ TopPart \in Nat
  BY <1>3, <1>6, <1>7
<1>9. Cardinality(Sessions) \in Nat \ {0}
  BY FS_CardinalityType, FS_EmptySet, FiniteUsage
<1>10. (Cardinality(Sessions) - 1) * TopPart \in Nat
  <2>1. Cardinality(Sessions) - 1 \in Nat
    BY <1>9
  <2> QED
    BY <1>8, <2>1
<1> QED
  BY <1>6, <1>7, <1>8, <1>9, <1>10 DEF Most

LEMMA PartFacts ==
  ASSUME U!Setting, NEW r \in U!SessionRow, NEW p
  PROVE  Part(r, p) \in Nat /\ Part(r, p) <= TopPart
<1>1. r.qty \in {0} \cup U!Quantities /\ r.qty \in Nat
  BY UsageRows DEF U!SessionRow
<1> QED
  BY <1>1, TopFacts DEF Part

LEMMA RoomInit == U!Setting /\ U!Init => Room
<1> SUFFICES ASSUME U!Setting, U!Init, NEW p \in 0..MaxPeriod, NEW h, Adds(h, Load(p), Sessions)
             PROVE  used[p] - waived[p] + h[Sessions] <= Most
  BY DEF Room
<1>1. \A t \in Sessions : Load(p)[t] = 0
  BY DEF Load, Part, U!Init, U!Idle
<1>2. \A W \in SUBSET Sessions : h[W] \in Nat /\ h[W] <= 0 * Cardinality(W)
  BY <1>1, SumBound, SumType, FiniteUsage
<1>3. h[Sessions] = 0
  <2>1. h[Sessions] \in Nat /\ h[Sessions] <= 0 * Cardinality(Sessions)
    BY <1>2
  <2>2. 0 * Cardinality(Sessions) = 0
    BY TopFacts
  <2> QED
    BY <2>1, <2>2
<1>4. used[p] = 0 /\ waived[p] = 0
  BY DEF U!Init
<1> QED
  BY <1>3, <1>4, TopFacts

(* One request moves: its part is recorded or dropped, or it has just seen   *)
(* room for it.                                                              *)
LEMMA RoomStep ==
  ASSUME U!Setting, U!TypeOK, Room, NEW s \in Sessions, NEW row \in U!SessionRow, U!Move(s, row),
         used' \in [0..MaxPeriod -> Nat], waived' \in [0..MaxPeriod -> Nat],
         \A p \in 0..MaxPeriod :
           \/ used'[p] - waived'[p] + Part(row, p) <= used[p] - waived[p] + Part(usageTx[s], p)
           \/ used'[p] - waived'[p] + Part(row, p) <= TopGrant
  PROVE  Room'
<1>1. /\ usageTx' \in [Sessions -> U!SessionRow] /\ usageTx'[s] = row
      /\ \A t \in Sessions : t # s => usageTx'[t] = usageTx[t]
  BY UsageMoves
<1> SUFFICES ASSUME NEW p \in 0..MaxPeriod, NEW h, Adds(h, Load(p)', Sessions)
             PROVE  used'[p] - waived'[p] + h[Sessions] <= Most
  BY DEF Room
<1> DEFINE g == Load(p)'
           f == Load(p)
           Rest == Sessions \ {s}
           before == used[p] - waived[p]
           after == used'[p] - waived'[p]
<1>2. /\ \A t \in Sessions : g[t] \in Nat /\ g[t] <= TopPart
      /\ \A t \in Sessions : f[t] \in Nat /\ f[t] <= TopPart
  BY <1>1, PartFacts DEF Load, U!TypeOK
<1>3. /\ g[s] = Part(row, p) /\ f[s] = Part(usageTx[s], p)
      /\ \A t \in Rest : f[t] = g[t]
  BY <1>1 DEF Load
<1> HIDE DEF g, f
<1>4. Adds(h, g, Sessions)
  BY DEF g
<1>5. PICK k : Adds(k, f, Sessions)
  BY SumExists, FiniteUsage
<1>6. before + k[Sessions] <= Most
  BY <1>5 DEF Room, f
<1>7. IsFiniteSet(Sessions) /\ IsFiniteSet(Rest) /\ Rest \subseteq Sessions
  BY FS_Subset, FiniteUsage
<1>8. h[Rest] = k[Rest]
  <2>1. \A t \in Rest : g[t] = f[t]
    BY <1>3
  <2> HIDE DEF Rest
  <2> QED
    BY <1>4, <1>5, <1>7, <2>1, SumsAgree
<1>9. h[Sessions] = g[s] + h[Rest] /\ k[Sessions] = f[s] + k[Rest]
  <2>1. Sessions \in SUBSET Sessions /\ Rest = Sessions \ {s}
    OBVIOUS
  <2>2. (\A t \in Sessions : g[t] \in Nat) /\ (\A t \in Sessions : f[t] \in Nat)
    BY <1>2
  <2> HIDE DEF Rest
  <2>3. h[Sessions] = g[s] + h[Rest]
    BY <1>4, <1>7, <2>1, <2>2, SumRemove
  <2>4. k[Sessions] = f[s] + k[Rest]
    BY <1>5, <1>7, <2>1, <2>2, SumRemove
  <2> QED
    BY <2>3, <2>4
<1>10. h[Rest] \in Nat /\ k[Rest] \in Nat /\ h[Rest] <= TopPart * Cardinality(Rest)
  <2>1. TopPart \in Nat
    BY TopFacts
  <2>2. Rest \in SUBSET Sessions
    OBVIOUS
  <2> HIDE DEF Rest
  <2>3. h[Rest] \in Nat /\ k[Rest] \in Nat
    BY <1>2, <1>4, <1>5, <1>7, <2>2, SumType
  <2>4. h[Rest] <= TopPart * Cardinality(Rest)
    BY <1>2, <1>4, <1>7, <2>1, <2>2, SumBound
  <2> QED
    BY <2>3, <2>4
<1>11. TopPart * Cardinality(Rest) = (Cardinality(Sessions) - 1) * TopPart
       /\ (Cardinality(Sessions) - 1) * TopPart \in Nat
  <2>1. Cardinality(Rest) = Cardinality(Sessions) - 1 /\ Cardinality(Rest) \in Nat
    BY <1>7, FS_RemoveElement, FS_CardinalityType
  <2>2. TopPart \in Nat
    BY TopFacts
  <2> QED
    BY <2>1, <2>2
<1>12. before \in Int /\ after \in Int
  BY DEF U!TypeOK
<1> HIDE DEF Rest, before, after
<1>13. \/ after + g[s] <= before + f[s]
       \/ after + g[s] <= TopGrant
  BY <1>3 DEF after, before
<1>14. g[s] \in Nat /\ f[s] \in Nat /\ TopGrant \in Nat /\ Most \in Nat
  BY <1>2, TopFacts
<1>15. CASE after + g[s] <= before + f[s]
  BY <1>6, <1>8, <1>9, <1>10, <1>12, <1>14, <1>15 DEF after
<1>16. CASE after + g[s] <= TopGrant
  BY <1>9, <1>10, <1>11, <1>12, <1>14, <1>16 DEF after, Most
<1> QED
  BY <1>13, <1>15, <1>16

(* A request with nothing measured leaves the room to the others.            *)
LEMMA RoomLeft ==
  ASSUME U!Setting, U!TypeOK, Room, NEW s \in Sessions, NEW row \in U!SessionRow, U!Move(s, row),
         row.pc # "checked", UNCHANGED <<used, waived>>
  PROVE  Room'
<1>1. usageTx[s] \in U!SessionRow
  BY DEF U!TypeOK
<1>2. \A p \in 0..MaxPeriod : /\ Part(row, p) = 0 /\ Part(usageTx[s], p) \in Nat
                              /\ used'[p] = used[p] /\ waived'[p] = waived[p]
                              /\ used[p] \in Nat /\ waived[p] \in Nat
  BY <1>1, PartFacts DEF Part, U!TypeOK
<1>3. used' \in [0..MaxPeriod -> Nat] /\ waived' \in [0..MaxPeriod -> Nat]
  BY DEF U!TypeOK
<1> QED
  BY <1>2, <1>3, RoomStep

LEMMA RoomMeasured ==
  ASSUME U!Setting, UsageInv, Room, NEW s \in Sessions, U!MeasureUsage(s)
  PROVE  Room'
<1> DEFINE row  == usageTx[s]
           over == U!Exceeds(row, used[row.period])
           next == [row EXCEPT !.pc = "checked", !.current = used[row.period],
                               !.waived = over \/ row.limit = -1]
<1>1. row \in U!SessionRow /\ row.pc = "measuring" /\ row.limit \in U!Grants /\ UNCHANGED <<used, waived>>
  BY DEF U!MeasureUsage, UsageInv, U!TypeOK, SumsTrusted
<1>2. /\ row.period \in 0..MaxPeriod /\ used[row.period] \in Nat /\ row.qty \in Nat
      /\ row.limit \in {-1} \cup Nat
  BY <1>1, UsageRows DEF UsageInv, U!TypeOK
<1>3. U!Leave(s) \/ U!Move(s, next)
  BY DEF U!MeasureUsage
<1>4. /\ next \in U!SessionRow /\ next.pc = "checked" /\ next.qty = row.qty /\ next.period = row.period
      /\ next.waived = (over \/ row.limit = -1)
  <2>1. (over \/ row.limit = -1) \in BOOLEAN
    BY Zenon DEF U!Exceeds
  <2> QED
    BY <1>1, <1>2, <2>1 DEF U!SessionRow
<1>5. U!TypeOK /\ used' \in [0..MaxPeriod -> Nat] /\ waived' \in [0..MaxPeriod -> Nat]
  BY <1>1 DEF UsageInv, U!TypeOK
<1> HIDE DEF next
<1>6. CASE U!Leave(s)
  <2>1. U!Idle \in U!SessionRow /\ U!Idle.pc = "idle" /\ U!Move(s, U!Idle)
    BY <1>6, UsageIdle DEF U!Leave
  <2> HIDE DEF U!Idle
  <2> QED
    BY <1>1, <1>5, <2>1, RoomLeft
<1>7. CASE U!Move(s, next)
  <2>1. ASSUME NEW p \in 0..MaxPeriod
        PROVE  \/ used'[p] - waived'[p] + Part(next, p) <= used[p] - waived[p] + Part(row, p)
               \/ used'[p] - waived'[p] + Part(next, p) <= TopGrant
    <3>1. used'[p] = used[p] /\ waived'[p] = waived[p] /\ used[p] \in Nat /\ waived[p] \in Nat
      BY <1>1, <1>5 DEF U!TypeOK
    <3>2. Part(row, p) = 0
      BY <1>1 DEF Part
    <3>3. CASE Part(next, p) = 0
      BY <3>1, <3>2, <3>3
    <3>4. CASE Part(next, p) # 0
      <4>1. p = row.period /\ ~ next.waived /\ Part(next, p) = row.qty
        BY <1>4, <3>4 DEF Part
      <4>2. row.limit # -1 /\ ~ over
        BY <1>4, <4>1
      <4>3. used[p] + row.qty <= row.limit
        BY <1>2, <4>1, <4>2 DEF U!Exceeds
      <4>4. row.limit <= TopGrant /\ TopGrant \in Nat
        BY <1>1, TopFacts
      <4> QED
        BY <1>2, <3>1, <4>1, <4>3, <4>4
    <3> QED
      BY <3>3, <3>4
  <2> HIDE DEF over
  <2> QED
    BY <1>4, <1>5, <1>7, <2>1, RoomStep
<1> QED
  BY <1>3, <1>6, <1>7

LEMMA RoomRecorded ==
  ASSUME U!Setting, UsageInv, Room, NEW s \in Sessions, U!RecordUsage(s)
  PROVE  Room'
<1> DEFINE row  == usageTx[s]
           next == [row EXCEPT !.pc = "recorded"]
<1>1. row \in U!SessionRow /\ row.pc = "checked" /\ U!TypeOK
  BY DEF U!RecordUsage, UsageInv, U!TypeOK
<1>2. row.period \in 0..MaxPeriod /\ row.qty \in Nat
  BY <1>1, UsageRows
<1>3. /\ used' = [used EXCEPT ![row.period] = @ + row.qty] /\ U!Move(s, next)
      /\ waived' = IF row.waived THEN [waived EXCEPT ![row.period] = @ + row.qty] ELSE waived
  BY DEF U!RecordUsage
<1>4. next \in U!SessionRow /\ next.pc = "recorded"
  BY <1>1 DEF U!SessionRow
<1> HIDE DEF next, row
<1>5. used' \in [0..MaxPeriod -> Nat] /\ waived' \in [0..MaxPeriod -> Nat]
  BY <1>1, <1>2, <1>3 DEF U!TypeOK
<1>6. ASSUME NEW p \in 0..MaxPeriod
      PROVE  used'[p] - waived'[p] + Part(next, p) <= used[p] - waived[p] + Part(row, p)
  <2>1. Part(next, p) = 0 /\ used[p] \in Nat /\ waived[p] \in Nat
    BY <1>1, <1>4 DEF Part, U!TypeOK
  <2>2. CASE p # row.period
    <3>1. used'[p] = used[p] /\ waived'[p] = waived[p] /\ Part(row, p) = 0
      BY <1>1, <1>3, <2>2 DEF Part, U!TypeOK
    <3> QED
      BY <2>1, <3>1
  <2>3. CASE p = row.period /\ row.waived
    <3>1. used'[p] = used[p] + row.qty /\ waived'[p] = waived[p] + row.qty /\ Part(row, p) = 0
      BY <1>1, <1>2, <1>3, <2>3 DEF Part, U!TypeOK
    <3> QED
      BY <1>2, <2>1, <3>1
  <2>4. CASE p = row.period /\ ~ row.waived
    <3>1. used'[p] = used[p] + row.qty /\ waived'[p] = waived[p] /\ Part(row, p) = row.qty
      BY <1>1, <1>2, <1>3, <2>4 DEF Part, U!TypeOK
    <3> QED
      BY <1>2, <2>1, <3>1
  <2> QED
    BY <2>2, <2>3, <2>4
<1> QED
  BY <1>1, <1>3, <1>4, <1>5, <1>6, RoomStep DEF row

LEMMA RoomKept == U!Setting /\ UsageInv /\ Room /\ [U!Next]_(U!vars) => Room'
<1> SUFFICES ASSUME U!Setting, UsageInv, Room, [U!Next]_(U!vars) PROVE Room'
  OBVIOUS
<1>0. U!TypeOK
  BY DEF UsageInv
<1>1. ASSUME NEW s \in Sessions, NEW tokens \in Tokens, NEW policy \in U!Policy,
             U!ReadEntitlement(s, tokens, policy)
      PROVE  Room'
  <2> DEFINE row == [U!Idle EXCEPT !.pc = "measuring", !.period = period, !.limit = U!get_limit(plan),
                                 !.qty = U!calculate_ai_credits(tokens), !.policy = policy]
  <2>1. U!Move(s, row) /\ UNCHANGED <<used, waived>> /\ row.pc = "measuring"
    BY <1>1 DEF U!ReadEntitlement, U!Idle
  <2>2. row \in U!SessionRow
    <3>1. U!get_limit(plan) \in U!Grants /\ U!calculate_ai_credits(tokens) \in U!Quantities
      BY DEF U!Grants, U!Quantities, UsageInv, PlanKnown
    <3>2. U!Idle \in U!SessionRow /\ period \in 0..MaxPeriod
      BY UsageIdle DEF UsageInv, U!TypeOK
    <3> HIDE DEF U!Idle
    <3> QED
      BY <3>1, <3>2 DEF U!SessionRow
  <2> HIDE DEF row
  <2> QED
    BY <1>0, <2>1, <2>2, RoomLeft
<1>2. ASSUME NEW s \in Sessions, U!MeasureUsage(s) PROVE Room'
  BY <1>2, RoomMeasured
<1>3. ASSUME NEW s \in Sessions, U!RecordUsage(s) PROVE Room'
  BY <1>3, RoomRecorded
<1>4. ASSUME NEW s \in Sessions, U!AnnounceThresholds(s) \/ U!Drop(s) PROVE Room'
  <2>1. U!Idle \in U!SessionRow /\ U!Idle.pc = "idle" /\ U!Move(s, U!Idle) /\ UNCHANGED <<used, waived>>
    BY <1>4, UsageIdle DEF U!AnnounceThresholds, U!Drop, U!Leave
  <2> HIDE DEF U!Idle
  <2> QED
    BY <1>0, <2>1, RoomLeft
<1>5. ASSUME UNCHANGED <<usageTx, used, waived>> PROVE Room'
  <2>1. \A p : Load(p)' = Load(p)
    BY <1>5 DEF Load
  <2> QED
    BY <1>5, <2>1 DEF Room
<1>6. ASSUME NEW x \in Plans, U!ChangeEntitlement(x) PROVE Room'
  BY <1>5, <1>6 DEF U!ChangeEntitlement
<1>7. CASE U!RenewPeriod
  BY <1>5, <1>7 DEF U!RenewPeriod
<1>8. CASE UNCHANGED U!vars
  BY <1>5, <1>8 DEF U!vars
<1> QED
  BY <1>1, <1>2, <1>3, <1>4, <1>6, <1>7, <1>8 DEF U!Next

LEMMA RoomLimits == U!Setting /\ U!TypeOK /\ Room => U!OverLimitByOverlap
<1> SUFFICES ASSUME U!Setting, U!TypeOK, Room, NEW p \in 0..MaxPeriod
             PROVE  \E g \in U!Grants \cup {0}, q \in U!Quantities :
                      used[p] - waived[p] <= g + (Cardinality(Sessions) - 1) * q
  BY SameCardinality DEF U!OverLimitByOverlap
<1>1. PICK h : Adds(h, Load(p), Sessions)
  BY SumExists, FiniteUsage
<1>2. used[p] - waived[p] + h[Sessions] <= Most
  BY <1>1 DEF Room
<1>3. h[Sessions] \in Nat
  <2>1. \A t \in Sessions : Load(p)[t] \in Nat
    BY PartFacts DEF Load, U!TypeOK
  <2>2. Sessions \in SUBSET Sessions
    OBVIOUS
  <2> QED
    BY <1>1, <2>1, <2>2, SumType, FiniteUsage
<1>4. used[p] \in Nat /\ waived[p] \in Nat /\ Most \in Nat
  BY TopFacts DEF U!TypeOK
<1>5. used[p] - waived[p] <= TopGrant + (Cardinality(Sessions) - 1) * TopPart
  BY <1>2, <1>3, <1>4 DEF Most
<1> QED
  BY <1>5, TopFacts

LEMMA OverlapLimited == ASSUME U!Setting PROVE U!Spec => []U!OverLimitByOverlap
<1>1. U!Init => UsageInv /\ Room
  BY UsageInit, RoomInit
<1>2. UsageInv /\ Room /\ [U!Next]_(U!vars) => UsageInv' /\ Room'
  BY UsageStep, RoomKept
<1>3. UsageInv /\ Room => U!OverLimitByOverlap
  BY RoomLimits DEF UsageInv
<1> QED
  BY <1>1, <1>2, <1>3, PTL DEF U!Spec
-----------------------------------------------------------------------------
(***************************************************************************)
(* THE ASSISTANT.  A run that has not ended is the work of one request     *)
(* (RunsAssigned, OneWorker), which holds, flushed and not committed, what *)
(* its agents have asked for (ApprovalsKept): the commit that ends the run *)
(* stores it with the status.                                              *)
(***************************************************************************)

(* The requests at work on a run, and the states that a run goes through.    *)
Working == {"created", "planning", "delegating", "waiting", "answered"}
Ongoing == {"CREATED", "PLANNING", "DELEGATING"}

(* A request is at work on the run that it has started, which has not ended; *)
(* while an agent is at work there is a task for it.                         *)
RunsAssigned ==
  \A s \in Sessions :
    /\ runTx[s].pc \in Working => runTx[s].run \in Runs /\ run[runTx[s].run] \in Ongoing
    /\ runTx[s].pc \notin Working => runTx[s].run = None
    /\ runTx[s].pc \in {"waiting", "answered"} => /\ runTx[s].plan # <<>> /\ runTx[s].task \in Tasks
                                               /\ runTx[s].copy = "ASSIGNED"
    /\ runTx[s].pc = "answered" => runTx[s].answer \in A!Answer
    /\ runTx[s].pc = "editing" => runTx[s].task \in Tasks /\ runTx[s].copy \in A!TaskStatus

OneWorker == \A s, o \in Sessions : runTx[s].pc \in Working /\ runTx[s].run = runTx[o].run => s = o

(* What the agents of a run have asked for waits with the request, or is     *)
(* stored.                                                                   *)
ApprovalsKept ==
  /\ \A s \in Sessions, a \in A!Approval : a \in runTx[s].pending => a.run = runTx[s].run
  /\ \A a \in asked : a \in runApprovals \/ \E s \in Sessions : a \in runTx[s].pending

AgentInv == A!TypeOK /\ RunsAssigned /\ OneWorker /\ ApprovalsKept /\ A!NoRunForgotten
-----------------------------------------------------------------------------
PlanRests == {SubSeq(p, i, Len(p)) : p \in A!target_agents, i \in 1..4} \cup {<<>>}

LEMMA AgentStatus ==
  /\ A!TaskStatus = {"CREATED", "ASSIGNED", "IN_PROGRESS", "WAITING_DATA", "WAITING_APPROVAL",
                   "COMPLETED", "FAILED", "BLOCKED", "CANCELLED"}
  /\ \A answer \in A!Answer : A!TaskFor(answer) \in A!TaskStatus
<1>1. A!TaskStatus = {"CREATED", "ASSIGNED", "IN_PROGRESS", "WAITING_DATA", "WAITING_APPROVAL",
                    "COMPLETED", "FAILED", "BLOCKED", "CANCELLED"}
  BY DEF A!TaskStatus, A!ALLOWED_TASK_TRANSITIONS
<1> QED
  BY <1>1 DEF A!Answer, A!TaskFor

(* The rest of a sequence, without its first element, is the rest from the   *)
(* next position on.                                                         *)
LEMMA TailOfRest ==
  ASSUME NEW S, NEW p \in Seq(S), NEW i \in 1..Len(p)
  PROVE  Tail(SubSeq(p, i, Len(p))) = SubSeq(p, i + 1, Len(p))
<1> DEFINE r == SubSeq(p, i, Len(p))
           q == SubSeq(p, i + 1, Len(p))
<1>1. /\ r \in Seq(S) /\ Len(r) = Len(p) - i + 1 /\ \A j \in 1..(Len(p) - i + 1) : r[j] = p[i + j - 1]
  BY SubSeqProperties
<1>2. /\ q \in Seq(S) /\ Len(q) = Len(p) - i /\ \A j \in 1..(Len(p) - i) : q[j] = p[i + j]
  <2>1. CASE i < Len(p)
    BY <2>1, SubSeqProperties
  <2>2. CASE i = Len(p)
    BY <2>2, SubSeqProperties
  <2> QED
    BY <2>1, <2>2
<1> HIDE DEF r, q
<1>3. /\ Tail(r) \in Seq(S) /\ Len(Tail(r)) = Len(p) - i
      /\ \A j \in 1..(Len(p) - i) : Tail(r)[j] = r[j + 1]
  <2>1. r # <<>>
    BY <1>1
  <2> QED
    BY <1>1, <2>1, HeadTailProperties
<1>4. ASSUME NEW j \in 1..(Len(p) - i) PROVE Tail(r)[j] = q[j]
  <2>1. j + 1 \in 1..(Len(p) - i + 1) /\ i + (j + 1) - 1 = i + j
    OBVIOUS
  <2>2. r[j + 1] = p[i + (j + 1) - 1]
    BY <1>1, <2>1
  <2> QED
    BY <1>2, <1>3, <2>1, <2>2
<1> QED
  BY <1>2, <1>3, <1>4, SeqEqual DEF r, q

LEMMA RestInPlans ==
  ASSUME NEW x \in A!target_agents, NEW j \in 1..4
  PROVE  SubSeq(x, j, Len(x)) \in PlanRests
<1>1. SubSeq(x, j, Len(x)) \in {SubSeq(p, i, Len(p)) : p \in A!target_agents, i \in 1..4}
  OBVIOUS
<1> QED
  BY <1>1 DEF PlanRests

LEMMA PlanFacts ==
  /\ A!target_agents \subseteq PlanRests
  /\ \A p \in PlanRests : p # <<>> => Tail(p) \in PlanRests
<1> DEFINE S == {"ai_analyst", "ai_sales", "ai_client_manager", "ai_support"}
<1>1. \A p \in A!target_agents : p \in Seq(S) /\ Len(p) \in 1..4
  <2>1. /\ <<"ai_analyst", "ai_sales", "ai_client_manager", "ai_support">> \in Seq(S)
        /\ Len(<<"ai_analyst", "ai_sales", "ai_client_manager", "ai_support">>) = 4
    OBVIOUS
  <2>2. /\ <<"ai_client_manager", "ai_support">> \in Seq(S)
        /\ Len(<<"ai_client_manager", "ai_support">>) = 2
    OBVIOUS
  <2>3. /\ <<"ai_support", "ai_analyst">> \in Seq(S)
        /\ Len(<<"ai_support", "ai_analyst">>) = 2
    OBVIOUS
  <2>4. /\ <<"ai_analyst", "ai_sales", "ai_client_manager">> \in Seq(S)
        /\ Len(<<"ai_analyst", "ai_sales", "ai_client_manager">>) = 3
    OBVIOUS
  <2> HIDE DEF S
  <2>5. ASSUME NEW p \in A!target_agents
        PROVE  \/ p = <<"ai_analyst", "ai_sales", "ai_client_manager", "ai_support">>
               \/ p = <<"ai_client_manager", "ai_support">>
               \/ p = <<"ai_support", "ai_analyst">>
               \/ p = <<"ai_analyst", "ai_sales", "ai_client_manager">>
    BY Zenon DEF A!target_agents
  <2>6. ASSUME NEW p \in A!target_agents
        PROVE  p \in Seq(S) /\ Len(p) \in {4, 2, 3}
    BY <2>1, <2>2, <2>3, <2>4, <2>5, Zenon
  <2> QED
    BY <2>6
<1>2. ASSUME NEW p \in A!target_agents PROVE p = SubSeq(p, 1, Len(p))
  <2> HIDE DEF S
  <2>1. p \in Seq(S) /\ Len(p) \in 1..4
    BY <1>1
  <2>2. /\ SubSeq(p, 1, Len(p)) \in Seq(S) /\ Len(SubSeq(p, 1, Len(p))) = Len(p)
        /\ \A j \in 1..Len(p) : SubSeq(p, 1, Len(p))[j] = p[j]
    BY <2>1, SubSeqProperties
  <2> QED
    BY <2>1, <2>2, SeqEqual
<1>3. A!target_agents \subseteq PlanRests
  BY <1>2 DEF PlanRests
<1>4. ASSUME NEW p \in PlanRests, p # <<>> PROVE Tail(p) \in PlanRests
  <2>1. PICK q \in A!target_agents, i \in 1..4 : p = SubSeq(q, i, Len(q))
    BY <1>4 DEF PlanRests
  <2> HIDE DEF S
  <2>2. q \in Seq(S) /\ Len(q) \in 1..4
    BY <1>1
  <2>3. i <= Len(q)
    BY <1>4, <2>1, <2>2
  <2>4. Tail(p) = SubSeq(q, i + 1, Len(q))
    BY <2>1, <2>2, <2>3, TailOfRest
  <2>5. CASE i < Len(q)
    <3>1. i + 1 \in 1..4
      BY <2>1, <2>2, <2>5
    <3>2. \A j \in 1..4 : SubSeq(q, j, Len(q)) \in PlanRests
      BY RestInPlans
    <3> HIDE DEF PlanRests
    <3> QED
      BY <2>4, <3>1, <3>2
  <2>6. CASE i = Len(q)
    <3>1. SubSeq(q, i + 1, Len(q)) = <<>>
      BY <2>2, <2>6
    <3> QED
      BY <2>4, <3>1 DEF PlanRests
  <2> QED
    BY <2>2, <2>3, <2>5, <2>6
<1> QED
  BY <1>3, <1>4
-----------------------------------------------------------------------------
LEMMA RowForm ==
  A!SessionRow = [pc      : {"idle", "created", "planning", "delegating", "waiting", "answered", "editing"},
                run     : Runs \cup {None},
                plan    : PlanRests,
                task    : Tasks \cup {None},
                copy    : {"NONE"} \cup A!TaskStatus,
                answer  : A!Answer \cup {"NONE"},
                pending : SUBSET A!Approval,
                helped  : BOOLEAN,
                failed  : BOOLEAN]
  BY DEF A!SessionRow, PlanRests

LEMMA AgentRows ==
  ASSUME A!TypeOK, NEW s \in Sessions
  PROVE  /\ runTx[s] \in A!SessionRow
         /\ runTx[s].plan \in PlanRests /\ runTx[s].pending \subseteq A!Approval
         /\ runTx[s].run \in Runs \cup {None} /\ runTx[s].task \in Tasks \cup {None}
  BY DEF A!TypeOK, A!SessionRow, PlanRests

LEMMA AgentIdle == A!Idle \in A!SessionRow /\ A!Idle.pc = "idle" /\ A!Idle.run = None /\ A!Idle.pending = {}
  BY DEF A!Idle, A!SessionRow

LEMMA AgentInit == A!Setting /\ A!Init => AgentInv
<1> SUFFICES ASSUME A!Setting, A!Init PROVE AgentInv
  OBVIOUS
<1>1. \A s \in Sessions : runTx[s] = A!Idle
  BY DEF A!Init
<1>2. A!TypeOK
  BY AgentIdle DEF A!Init, A!TypeOK
<1>3. RunsAssigned /\ OneWorker /\ ApprovalsKept
  <2> USE AgentIdle
  <2>1. RunsAssigned
    BY <1>1 DEF RunsAssigned, Working
  <2>2. OneWorker
    BY <1>1 DEF OneWorker, Working
  <2>3. ApprovalsKept
    BY <1>1 DEF ApprovalsKept, A!Init
  <2> QED
    BY <2>1, <2>2, <2>3
<1>4. A!NoRunForgotten
  BY DEF A!Init, A!NoRunForgotten
<1> QED
  BY <1>2, <1>3, <1>4 DEF AgentInv

(* A request goes on with its run, or works on a task by itself.             *)
LEMMA AgentGoesOn ==
  ASSUME A!Setting, AgentInv, NEW s \in Sessions, NEW row \in A!SessionRow, A!Move(s, row),
         run' \in [Runs -> {"NONE"} \cup A!RunStatus],
         task' \in [Tasks -> {"NONE"} \cup A!TaskStatus],
         runApprovals' \subseteq A!Approval, runApprovals \subseteq runApprovals', asked' \subseteq A!Approval,
         UNCHANGED <<advice, lost>>,
         row.run = runTx[s].run, row.pc \in Working <=> runTx[s].pc \in Working,
         \A r \in Runs : r # runTx[s].run => run'[r] = run[r],
         row.pc \in Working => run'[row.run] \in Ongoing,
         row.pc \in {"waiting", "answered"} => row.plan # <<>> /\ row.task \in Tasks /\ row.copy = "ASSIGNED",
         row.pc = "answered" => row.answer \in A!Answer,
         row.pc = "editing" => row.task \in Tasks /\ row.copy \in A!TaskStatus,
         \A a \in A!Approval : a \in row.pending => a.run = row.run,
         runTx[s].pending \subseteq row.pending \cup runApprovals',
         asked' \subseteq asked \cup row.pending
  PROVE  AgentInv'
<1>1. runTx' \in [Sessions -> A!SessionRow] /\ runTx'[s] = row /\ \A o \in Sessions \ {s} : runTx'[o] = runTx[o]
  BY DEF AgentInv, A!TypeOK, A!Move
<1>2. A!TypeOK'
  BY <1>1 DEF AgentInv, A!TypeOK
<1>3. RunsAssigned'
  <2>1. ASSUME NEW o \in Sessions, o # s, runTx[o].pc \in Working PROVE run'[runTx[o].run] \in Ongoing
    BY <2>1 DEF AgentInv, RunsAssigned, OneWorker
  <2> QED
    BY <1>1, <2>1 DEF AgentInv, RunsAssigned, A!Setting
<1>4. OneWorker'
  BY <1>1 DEF AgentInv, OneWorker
<1>5. ApprovalsKept'
  <2>1. ASSUME NEW a \in asked' PROVE a \in runApprovals' \/ \E o \in Sessions : a \in runTx'[o].pending
    <3>1. CASE a \in row.pending
      BY <1>1, <3>1
    <3>2. CASE a \in asked
      BY <1>1, <3>2 DEF AgentInv, ApprovalsKept
    <3> QED
      BY <3>1, <3>2
  <2> QED
    BY <1>1, <2>1 DEF AgentInv, ApprovalsKept
<1>6. A!NoRunForgotten'
  <2>1. ASSUME NEW r \in Runs, NEW o \in Sessions, runTx[o].run = r
        PROVE  \E w \in Sessions : runTx'[w].run = r
    BY <1>1, <2>1
  <2>2. \A r \in Runs : r = runTx[s].run => \E w \in Sessions : runTx'[w].run = r
    BY <1>1
  <2> QED
    BY <2>1, <2>2 DEF AgentInv, A!NoRunForgotten
<1> QED
  BY <1>2, <1>3, <1>4, <1>5, <1>6 DEF AgentInv

(* A request leaves its run, which has ended with what was asked for in it   *)
(* stored, or is lost with it.                                               *)
LEMMA AgentLeaves ==
  ASSUME A!Setting, AgentInv, NEW s \in Sessions, A!Leave(s),
         run' \in [Runs -> {"NONE"} \cup A!RunStatus],
         task' \in [Tasks -> {"NONE"} \cup A!TaskStatus],
         runApprovals' \subseteq A!Approval, runApprovals \subseteq runApprovals', asked' \subseteq asked,
         advice' \subseteq Runs, lost' \subseteq Runs, lost \subseteq lost',
         \A r \in Runs : r # runTx[s].run => run'[r] = run[r],
         runTx[s].run \in Runs => run'[runTx[s].run] \in A!Ended \/ runTx[s].run \in lost',
         \A a \in runTx[s].pending : a \in runApprovals' \/ a \notin asked'
  PROVE  AgentInv'
<1>0. runTx' = [runTx EXCEPT ![s] = A!Idle]
  BY DEF A!Leave, A!Move
<1>1. runTx' \in [Sessions -> A!SessionRow] /\ runTx'[s] = A!Idle /\ \A o \in Sessions \ {s} : runTx'[o] = runTx[o]
  BY <1>0, AgentIdle DEF AgentInv, A!TypeOK
<1>2. A!TypeOK'
  BY <1>1 DEF AgentInv, A!TypeOK
<1>3. RunsAssigned'
  <2>1. ASSUME NEW o \in Sessions, o # s, runTx[o].pc \in Working PROVE run'[runTx[o].run] \in Ongoing
    BY <2>1 DEF AgentInv, RunsAssigned, OneWorker
  <2> QED
    BY <1>1, <2>1, AgentIdle DEF AgentInv, RunsAssigned, A!Setting, Working
<1>4. OneWorker'
  <2>1. runTx'[s].pc \notin Working /\ runTx'[s].run = None
    BY <1>1, AgentIdle DEF Working
  <2>2. \A o \in Sessions : runTx'[o].pc \in Working => runTx'[o].run # None
    BY <1>1, <2>1 DEF AgentInv, RunsAssigned, A!Setting
  <2> QED
    BY <1>1, <2>1, <2>2 DEF AgentInv, OneWorker
<1>5. ApprovalsKept'
  <2>1. ASSUME NEW a \in asked' PROVE a \in runApprovals' \/ \E o \in Sessions : a \in runTx'[o].pending
    BY <1>1 DEF AgentInv, ApprovalsKept
  <2> QED
    BY <1>1, <2>1, AgentIdle DEF AgentInv, ApprovalsKept
<1>6. A!NoRunForgotten'
  <2>1. ASSUME NEW r \in Runs, r # runTx[s].run, NEW o \in Sessions, runTx[o].run = r
        PROVE  \E w \in Sessions : runTx'[w].run = r
    BY <1>1, <2>1
  <2> QED
    BY <2>1 DEF AgentInv, A!NoRunForgotten
<1> QED
  BY <1>2, <1>3, <1>4, <1>5, <1>6 DEF AgentInv

LEMMA RunStarts ==
  ASSUME A!Setting, AgentInv, NEW s \in Sessions, NEW r \in Runs, A!StartRun(s, r)
  PROVE  AgentInv'
<1> DEFINE row == [A!Idle EXCEPT !.pc = "created", !.run = r]
<1>1. row \in A!SessionRow /\ row.pc = "created" /\ row.run = r /\ row.pending = {}
  BY AgentIdle, RowForm
<1>2. /\ runTx[s].pc = "idle" /\ run[r] = "NONE" /\ runTx' = [runTx EXCEPT ![s] = row]
      /\ run' = [run EXCEPT ![r] = "CREATED"]
      /\ UNCHANGED <<advice, task, runApprovals, asked, lost>>
  BY DEF A!StartRun, A!Move, A!ghosts
<1> HIDE DEF row
<1>3. runTx' \in [Sessions -> A!SessionRow] /\ runTx'[s] = row /\ \A o \in Sessions \ {s} : runTx'[o] = runTx[o]
  BY <1>1, <1>2 DEF AgentInv, A!TypeOK
<1>4. /\ run' \in [Runs -> {"NONE"} \cup A!RunStatus]
      /\ run'[r] = "CREATED" /\ \A q \in Runs : q # r => run'[q] = run[q]
  BY <1>2 DEF AgentInv, A!TypeOK, A!RunStatus
<1>5. \A o \in Sessions : runTx[o].pc \in Working => runTx[o].run # r
  BY <1>2 DEF AgentInv, RunsAssigned, Ongoing
<1>6. runTx[s].run = None /\ \A a \in A!Approval : a \notin runTx[s].pending
  BY <1>2 DEF AgentInv, RunsAssigned, Working, ApprovalsKept, A!Approval, A!Setting
<1>7. A!TypeOK'
  BY <1>2, <1>3, <1>4 DEF AgentInv, A!TypeOK
<1>8. RunsAssigned'
  <2>1. ASSUME NEW o \in Sessions, o # s, runTx[o].pc \in Working PROVE run'[runTx[o].run] \in Ongoing
    BY <1>4, <1>5, <2>1 DEF AgentInv, RunsAssigned
  <2> QED
    BY <1>1, <1>3, <1>4, <2>1 DEF AgentInv, RunsAssigned, Working, Ongoing
<1>9. OneWorker'
  <2>1. \A o \in Sessions \ {s} : runTx'[o].run # r
    BY <1>3, <1>5 DEF AgentInv, RunsAssigned, A!Setting
  <2> QED
    BY <1>1, <1>3, <2>1 DEF AgentInv, OneWorker
<1>10. ApprovalsKept'
  <2>1. ASSUME NEW a \in asked' PROVE a \in runApprovals' \/ \E o \in Sessions : a \in runTx'[o].pending
    <3>1. a \in asked /\ a \in A!Approval
      BY <1>2 DEF AgentInv, A!TypeOK
    <3> QED
      BY <1>2, <1>3, <1>6, <3>1 DEF AgentInv, ApprovalsKept
  <2> QED
    BY <1>1, <1>3, <2>1 DEF AgentInv, ApprovalsKept
<1>11. A!NoRunForgotten'
  <2>1. ASSUME NEW q \in Runs, NEW o \in Sessions, runTx[o].run = q
        PROVE  \E w \in Sessions : runTx'[w].run = q
    BY <1>3, <1>6, <2>1 DEF A!Setting
  <2>2. \E w \in Sessions : runTx'[w].run = r
    BY <1>1, <1>3
  <2> QED
    BY <1>2, <1>4, <2>1, <2>2 DEF AgentInv, A!NoRunForgotten
<1> QED
  BY <1>7, <1>8, <1>9, <1>10, <1>11 DEF AgentInv

(* What a commit leaves of the run and of its approvals.                     *)
LEMMA RunCommits ==
  ASSUME AgentInv, NEW s \in Sessions, NEW status \in A!RunStatus, A!CommitRun(s, status), runTx[s].pc \in Working
  PROVE  /\ run' \in [Runs -> {"NONE"} \cup A!RunStatus]
         /\ run'[runTx[s].run] = status /\ \A r \in Runs : r # runTx[s].run => run'[r] = run[r]
         /\ runApprovals' \subseteq A!Approval /\ runApprovals \subseteq runApprovals'
         /\ runTx[s].pending \subseteq runApprovals'
<1>1. runTx[s].run \in Runs /\ runTx[s].pending \subseteq A!Approval
  BY AgentRows DEF AgentInv, RunsAssigned
<1> QED
  BY <1>1 DEF AgentInv, A!TypeOK, A!CommitRun

LEMMA AgentTypes ==
  ASSUME AgentInv
  PROVE  /\ run \in [Runs -> {"NONE"} \cup A!RunStatus] /\ task \in [Tasks -> {"NONE"} \cup A!TaskStatus]
         /\ runApprovals \subseteq A!Approval /\ asked \subseteq A!Approval
         /\ advice \subseteq Runs /\ lost \subseteq Runs
  BY DEF AgentInv, A!TypeOK

LEMMA RunDelegates ==
  ASSUME A!Setting, AgentInv, NEW s \in Sessions,
         A!PlanRun(s) \/ \E chosen \in A!target_agents : A!ChooseAgents(s, chosen)
  PROVE  AgentInv'
<1>1. CASE A!PlanRun(s)
  <2> DEFINE row == [runTx[s] EXCEPT !.pc = "planning"]
  <2>1. /\ runTx[s].pc = "created" /\ A!CommitRun(s, "PLANNING") /\ A!Move(s, row)
        /\ UNCHANGED <<advice, task, asked, lost>>
    BY <1>1 DEF A!PlanRun, A!ghosts
  <2>2. runTx[s].pc \in Working
    BY <2>1 DEF Working
  <2>3. row \in A!SessionRow /\ row.pc = "planning" /\ row.run = runTx[s].run /\ row.pending = runTx[s].pending
    BY AgentRows, RowForm DEF AgentInv
  <2>4. /\ run' \in [Runs -> {"NONE"} \cup A!RunStatus]
        /\ run'[runTx[s].run] = "PLANNING" /\ \A r \in Runs : r # runTx[s].run => run'[r] = run[r]
        /\ runApprovals' \subseteq A!Approval /\ runApprovals \subseteq runApprovals'
        /\ runTx[s].pending \subseteq runApprovals'
    BY <2>1, <2>2, RunCommits DEF A!RunStatus
  <2>5. \A a \in A!Approval : a \in row.pending => a.run = row.run
    BY <2>3 DEF AgentInv, ApprovalsKept
  <2>6. row.pc \in Working /\ run'[row.run] \in Ongoing
    BY <2>3, <2>4 DEF Working, Ongoing
  <2> HIDE DEF row
  <2> QED
    BY <2>1, <2>2, <2>3, <2>4, <2>5, <2>6, AgentTypes, AgentGoesOn
<1>2. CASE \E chosen \in A!target_agents : A!ChooseAgents(s, chosen)
  <2>1. PICK chosen \in A!target_agents : A!ChooseAgents(s, chosen)
    BY <1>2
  <2> DEFINE row == [runTx[s] EXCEPT !.pc = "delegating", !.plan = chosen]
  <2>2. /\ runTx[s].pc = "planning" /\ A!CommitRun(s, "DELEGATING") /\ A!Move(s, row)
        /\ UNCHANGED <<advice, task, asked, lost>>
    BY <2>1 DEF A!ChooseAgents, A!ghosts
  <2>3. runTx[s].pc \in Working
    BY <2>2 DEF Working
  <2>4. row \in A!SessionRow /\ row.pc = "delegating" /\ row.run = runTx[s].run /\ row.pending = runTx[s].pending
    <3>1. chosen \in PlanRests
      BY PlanFacts
    <3> QED
      BY <3>1, AgentRows, RowForm DEF AgentInv
  <2>5. /\ run' \in [Runs -> {"NONE"} \cup A!RunStatus]
        /\ run'[runTx[s].run] = "DELEGATING" /\ \A r \in Runs : r # runTx[s].run => run'[r] = run[r]
        /\ runApprovals' \subseteq A!Approval /\ runApprovals \subseteq runApprovals'
        /\ runTx[s].pending \subseteq runApprovals'
    BY <2>2, <2>3, RunCommits DEF A!RunStatus
  <2>6. \A a \in A!Approval : a \in row.pending => a.run = row.run
    BY <2>4 DEF AgentInv, ApprovalsKept
  <2>7. row.pc \in Working /\ run'[row.run] \in Ongoing
    BY <2>4, <2>5 DEF Working, Ongoing
  <2> HIDE DEF row
  <2> QED
    BY <2>2, <2>3, <2>4, <2>5, <2>6, <2>7, AgentTypes, AgentGoesOn
<1> QED
  BY <1>1, <1>2

LEMMA NewTaskFacts ==
  ASSUME AgentInv, NEW t \in Tasks, NEW status \in A!TaskStatus, A!NewTask(t, status)
  PROVE  task' \in [Tasks -> {"NONE"} \cup A!TaskStatus]
  BY DEF AgentInv, A!TypeOK, A!NewTask

LEMMA TaskSteps ==
  ASSUME A!Setting, AgentInv, NEW s \in Sessions, NEW t \in Tasks,
         A!CreateTask(s, t) \/ A!AgentCreatesTask(s, t) \/ A!ReadTask(s, t)
  PROVE  AgentInv'
<1>0. /\ \A a \in A!Approval : a \in runTx[s].pending => a.run = runTx[s].run
      /\ runTx[s].pc \in Working => run[runTx[s].run] \in Ongoing
      /\ runTx[s].pc \notin Working => runTx[s].run = None
      /\ "ASSIGNED" \in A!TaskStatus
  BY AgentStatus DEF AgentInv, ApprovalsKept, RunsAssigned
<1>1. CASE A!CreateTask(s, t)
  <2> DEFINE row == [runTx[s] EXCEPT !.pc = "waiting", !.task = t, !.copy = "ASSIGNED"]
  <2>1. /\ runTx[s].pc = "delegating" /\ runTx[s].plan # <<>> /\ A!NewTask(t, "ASSIGNED") /\ A!Move(s, row)
        /\ UNCHANGED <<run, advice, runApprovals, asked, lost>>
    BY <1>1 DEF A!CreateTask, A!ghosts
  <2>2. /\ row \in A!SessionRow /\ row.pc = "waiting" /\ row.run = runTx[s].run /\ row.pending = runTx[s].pending
        /\ row.plan = runTx[s].plan /\ row.task = t /\ row.copy = "ASSIGNED"
    BY <1>0, AgentRows, RowForm DEF AgentInv
  <2>3. runTx[s].pc \in Working /\ row.pc \in Working
    BY <2>1, <2>2 DEF Working
  <2>4. task' \in [Tasks -> {"NONE"} \cup A!TaskStatus]
    BY <1>0, <2>1, NewTaskFacts
  <2> HIDE DEF row
  <2> QED
    BY <1>0, <2>1, <2>2, <2>3, <2>4, AgentTypes, AgentGoesOn
<1>2. CASE A!AgentCreatesTask(s, t)
  <2> DEFINE row == [runTx[s] EXCEPT !.helped = TRUE]
  <2>1. /\ runTx[s].pc = "waiting" /\ A!NewTask(t, "ASSIGNED") /\ A!Move(s, row)
        /\ UNCHANGED <<run, advice, runApprovals, asked, lost>>
    BY <1>2 DEF A!AgentCreatesTask, A!ghosts
  <2>2. /\ row \in A!SessionRow /\ row.pc = runTx[s].pc /\ row.run = runTx[s].run /\ row.pending = runTx[s].pending
        /\ row.plan = runTx[s].plan /\ row.task = runTx[s].task /\ row.copy = runTx[s].copy
    BY AgentRows, RowForm DEF AgentInv
  <2>3. runTx[s].plan # <<>> /\ runTx[s].task \in Tasks /\ runTx[s].copy = "ASSIGNED"
    BY <2>1 DEF AgentInv, RunsAssigned
  <2>4. runTx[s].pc \in Working
    BY <2>1 DEF Working
  <2>5. task' \in [Tasks -> {"NONE"} \cup A!TaskStatus]
    BY <1>0, <2>1, NewTaskFacts
  <2> HIDE DEF row
  <2> QED
    BY <1>0, <2>1, <2>2, <2>3, <2>4, <2>5, AgentTypes, AgentGoesOn
<1>3. CASE A!ReadTask(s, t)
  <2> DEFINE row == [A!Idle EXCEPT !.pc = "editing", !.task = t, !.copy = task[t]]
  <2>1. /\ runTx[s].pc = "idle" /\ task[t] \in A!TaskStatus /\ A!Move(s, row)
        /\ UNCHANGED <<run, advice, task, runApprovals, asked, lost>>
    BY <1>3, AgentTypes DEF A!ReadTask, A!ghosts
  <2>2. /\ row \in A!SessionRow /\ row.pc = "editing" /\ row.run = None /\ row.pending = {}
        /\ row.task = t /\ row.copy = task[t]
    BY <2>1, AgentIdle, RowForm
  <2>3. runTx[s].pc \notin Working /\ row.pc \notin Working /\ runTx[s].run = None
    BY <1>0, <2>1, <2>2 DEF Working
  <2>4. runTx[s].pending = {}
    BY <1>0, <2>3, AgentRows DEF AgentInv, A!Approval, A!Setting
  <2> HIDE DEF row
  <2> QED
    BY <1>0, <2>1, <2>2, <2>3, <2>4, AgentTypes, AgentGoesOn
<1> QED
  BY <1>1, <1>2, <1>3

LEMMA AgentAnswered ==
  ASSUME A!Setting, AgentInv, NEW s \in Sessions, NEW answer \in A!Answer, A!AgentAnswers(s, answer)
  PROVE  AgentInv'
<1> DEFINE new == IF answer = "WAITING_APPROVAL" THEN {[run |-> runTx[s].run, task |-> runTx[s].task]} ELSE {}
           row == [runTx[s] EXCEPT !.pc = "answered", !.answer = answer, !.pending = @ \cup new]
<1>1. /\ runTx[s].pc = "waiting" /\ A!Move(s, row) /\ asked' = asked \cup new
      /\ UNCHANGED <<run, advice, task, runApprovals, lost>>
  BY DEF A!AgentAnswers
<1>2. /\ runTx[s].plan # <<>> /\ runTx[s].task \in Tasks /\ runTx[s].copy = "ASSIGNED"
      /\ runTx[s].run \in Runs /\ run[runTx[s].run] \in Ongoing /\ runTx[s].pc \in Working
  BY <1>1 DEF AgentInv, RunsAssigned, Working
<1>3. new \subseteq A!Approval /\ \A a \in new : a.run = runTx[s].run
  BY <1>2 DEF A!Approval
<1> HIDE DEF new
<1>4. row \in A!SessionRow
  BY <1>3, AgentRows, RowForm DEF AgentInv
<1>5. /\ row.pc = "answered" /\ row.run = runTx[s].run /\ row.pending = runTx[s].pending \cup new
      /\ row.plan = runTx[s].plan /\ row.task = runTx[s].task /\ row.copy = runTx[s].copy /\ row.answer = answer
  BY AgentRows DEF AgentInv, A!SessionRow
<1>6. asked' \subseteq A!Approval
  BY <1>1, <1>2, <1>3, AgentTypes
<1>7. \A a \in A!Approval : a \in row.pending => a.run = row.run
  BY <1>3, <1>5 DEF AgentInv, ApprovalsKept
<1>8. row.pc \in Working
  BY <1>5 DEF Working
<1> HIDE DEF row
<1> QED
  BY <1>1, <1>2, <1>4, <1>5, <1>6, <1>7, <1>8, AgentTypes, AgentGoesOn

(* The run has failed; what it flushed is stored with its status.            *)
LEMMA RunEnded ==
  ASSUME A!Setting, AgentInv, NEW s \in Sessions, runTx[s].pc \in Working,
         NEW status \in A!Ended, A!CommitRun(s, status), A!Leave(s),
         advice' \subseteq Runs, UNCHANGED <<task, asked, lost>>
  PROVE  AgentInv'
<1>1. /\ run' \in [Runs -> {"NONE"} \cup A!RunStatus]
      /\ run'[runTx[s].run] = status /\ \A r \in Runs : r # runTx[s].run => run'[r] = run[r]
      /\ runApprovals' \subseteq A!Approval /\ runApprovals \subseteq runApprovals'
      /\ runTx[s].pending \subseteq runApprovals'
  <2>1. status \in A!RunStatus
    BY DEF A!Ended, A!RunStatus
  <2> QED
    BY <2>1, RunCommits
<1> QED
  BY <1>1, AgentTypes, AgentLeaves

LEMMA AnswerRecorded ==
  ASSUME A!Setting, AgentInv, NEW s \in Sessions, A!RecordAnswer(s)
  PROVE  AgentInv'
<1> DEFINE old == runTx[s]
           first == A!TaskFor(old.answer)
           failed == old.failed \/ first = "FAILED" \/ ~ A!ValidTaskMove(old.copy, first)
           status == IF A!ValidTaskMove(old.copy, first) THEN first ELSE "FAILED"
           row == [old EXCEPT !.pc = "delegating", !.plan = Tail(@), !.task = None, !.copy = "NONE",
                              !.answer = "NONE", !.pending = {}, !.helped = FALSE, !.failed = failed]
<1>1. /\ old.pc = "answered" /\ old.plan # <<>> /\ old.task \in Tasks /\ old.answer \in A!Answer
      /\ old.run \in Runs /\ run[old.run] \in Ongoing /\ old.pc \in Working
  BY DEF A!RecordAnswer, AgentInv, RunsAssigned, Working
<1>2. /\ UNCHANGED <<advice, asked, lost>>
      /\ \/ /\ task' = [task EXCEPT ![old.task] = status]
            /\ runApprovals' = runApprovals \cup old.pending
            /\ A!Move(s, row)
            /\ UNCHANGED run
         \/ A!FailRun(s) /\ UNCHANGED task
  BY DEF A!RecordAnswer, A!ghosts
<1>3. status \in A!TaskStatus
  BY <1>1, AgentStatus
<1>4. failed \in BOOLEAN
  <2>1. old.failed \in BOOLEAN
    BY AgentRows, RowForm DEF AgentInv
  <2> QED
    BY <2>1
<1>5. row \in A!SessionRow
  <2>1. Tail(old.plan) \in PlanRests
    BY <1>1, AgentRows, PlanFacts DEF AgentInv
  <2> HIDE DEF failed
  <2> QED
    BY <1>4, <2>1, AgentRows, RowForm DEF AgentInv
<1>6. row.pc = "delegating" /\ row.run = old.run /\ row.pending = {}
  BY AgentRows, RowForm DEF AgentInv
<1> HIDE DEF row, status
<1>7. CASE /\ task' = [task EXCEPT ![old.task] = status]
           /\ runApprovals' = runApprovals \cup old.pending
           /\ A!Move(s, row)
           /\ UNCHANGED run
  <2>1. task' \in [Tasks -> {"NONE"} \cup A!TaskStatus]
    BY <1>3, <1>7, AgentTypes
  <2>2. runApprovals' \subseteq A!Approval /\ runApprovals \subseteq runApprovals' /\ old.pending \subseteq runApprovals'
    BY <1>7, AgentTypes, AgentRows DEF AgentInv
  <2>3. row.pc \in Working
    BY <1>6 DEF Working
  <2> QED
    BY <1>1, <1>2, <1>5, <1>6, <1>7, <2>1, <2>2, <2>3, AgentTypes, AgentGoesOn
<1>8. CASE A!FailRun(s) /\ UNCHANGED task
  <2>1. A!CommitRun(s, "FAILED") /\ A!Leave(s) /\ "FAILED" \in A!Ended
    BY <1>8 DEF A!FailRun, A!Ended
  <2> QED
    BY <1>1, <1>2, <1>8, <2>1, AgentTypes, RunEnded
<1> QED
  BY <1>2, <1>7, <1>8

LEMMA RunEnds ==
  ASSUME A!Setting, AgentInv, NEW s \in Sessions, A!EndRun(s) \/ A!Lose(s)
  PROVE  AgentInv'
<1>1. CASE A!EndRun(s)
  <2>1. runTx[s].pc \in Working
    BY <1>1 DEF A!EndRun, Working
  <2>2. runTx[s].run \in Runs
    BY <2>1 DEF AgentInv, RunsAssigned
  <2>3. \E status \in A!Ended : A!CommitRun(s, status)
    BY <1>1 DEF A!EndRun, A!Trouble, A!FailRun, A!Conclude, A!Ended
  <2>4. /\ A!Leave(s) /\ UNCHANGED <<task, asked, lost>>
        /\ advice' = advice \/ advice' = advice \cup {runTx[s].run}
    BY <1>1 DEF A!EndRun, A!Trouble, A!FailRun, A!Conclude, A!CreateRecommendation
  <2>5. advice' \subseteq Runs
    BY <2>2, <2>4, AgentTypes
  <2> QED
    BY <2>1, <2>3, <2>4, <2>5, RunEnded
<1>2. CASE A!Lose(s)
  <2>1. /\ runTx[s].run # None /\ lost' = lost \cup {runTx[s].run} /\ asked' = asked \ runTx[s].pending
        /\ A!Leave(s) /\ UNCHANGED <<run, advice, task, runApprovals>>
    BY <1>2 DEF A!Lose
  <2>2. runTx[s].run \in Runs
    BY <2>1 DEF AgentInv, RunsAssigned
  <2> QED
    BY <2>1, <2>2, AgentTypes, AgentLeaves
<1> QED
  BY <1>1, <1>2

LEMMA TaskEdited ==
  ASSUME A!Setting, AgentInv, NEW s \in Sessions, NEW target \in {"ASSIGNED", "COMPLETED", "CANCELLED"},
         A!CommitTask(s, target)
  PROVE  AgentInv'
<1>1. runTx[s].pc = "editing" /\ runTx[s].task \in Tasks /\ runTx[s].run = None
  BY DEF A!CommitTask, AgentInv, RunsAssigned, Working
<1>2. runTx[s].pending = {}
  BY <1>1, AgentRows DEF AgentInv, ApprovalsKept, A!Approval, A!Setting
<1>3. A!Leave(s) /\ UNCHANGED <<run, advice, runApprovals, asked, lost>>
  BY DEF A!CommitTask, A!ghosts
<1>4. task' \in [Tasks -> {"NONE"} \cup A!TaskStatus]
  <2>1. task' = task \/ task' = [task EXCEPT ![runTx[s].task] = target]
    BY DEF A!CommitTask
  <2>2. target \in A!TaskStatus
    BY AgentStatus
  <2> QED
    BY <1>1, <2>1, <2>2, AgentTypes
<1> QED
  BY <1>1, <1>2, <1>3, <1>4, AgentTypes, AgentLeaves DEF A!Setting

LEMMA RunsRest ==
  ASSUME AgentInv, UNCHANGED <<run, advice, runApprovals, runTx, A!ghosts>>,
         task' \in [Tasks -> {"NONE"} \cup A!TaskStatus]
  PROVE  AgentInv'
<1>1. A!TypeOK'
  BY DEF AgentInv, A!TypeOK, A!ghosts
<1>2. RunsAssigned' /\ OneWorker'
  BY DEF AgentInv, RunsAssigned, OneWorker
<1>3. ApprovalsKept' /\ A!NoRunForgotten'
  BY DEF AgentInv, ApprovalsKept, A!NoRunForgotten, A!ghosts
<1> QED
  BY <1>1, <1>2, <1>3 DEF AgentInv

LEMMA AgentStep == A!Setting /\ AgentInv /\ [A!Next]_(A!vars) => AgentInv'
<1> SUFFICES ASSUME A!Setting, AgentInv, [A!Next]_(A!vars) PROVE AgentInv'
  OBVIOUS
<1>1. CASE UNCHANGED A!vars
  <2>1. UNCHANGED <<run, advice, runApprovals, runTx, A!ghosts>> /\ task' = task
    BY <1>1 DEF A!vars, A!ghosts
  <2> QED
    BY <2>1, AgentTypes, RunsRest
<1>2. CASE \E s \in Sessions, r \in Runs : A!StartRun(s, r)
  BY <1>2, RunStarts
<1>3. CASE \E s \in Sessions, chosen \in A!target_agents : A!ChooseAgents(s, chosen)
  BY <1>3, RunDelegates
<1>4. CASE \E s \in Sessions, t \in Tasks : A!CreateTask(s, t) \/ A!AgentCreatesTask(s, t) \/ A!ReadTask(s, t)
  BY <1>4, TaskSteps
<1>5. CASE \E s \in Sessions, answer \in A!Answer : A!AgentAnswers(s, answer)
  BY <1>5, AgentAnswered
<1>6. CASE \E s \in Sessions : A!PlanRun(s) \/ A!RecordAnswer(s) \/ A!EndRun(s) \/ A!Lose(s)
  BY <1>6, RunDelegates, AnswerRecorded, RunEnds
<1>7. CASE \E s \in Sessions, target \in {"ASSIGNED", "COMPLETED", "CANCELLED"} : A!CommitTask(s, target)
  BY <1>7, TaskEdited
<1>8. CASE \E t \in Tasks, status \in {"CREATED", "ASSIGNED"} : A!PostTask(t, status)
  <2>1. PICK t \in Tasks, status \in {"CREATED", "ASSIGNED"} : A!PostTask(t, status)
    BY <1>8
  <2>2. task' \in [Tasks -> {"NONE"} \cup A!TaskStatus]
    BY <2>1, NewTaskFacts, AgentStatus DEF A!PostTask
  <2> QED
    BY <2>1, <2>2, RunsRest DEF A!PostTask
<1> QED
  BY <1>1, <1>2, <1>3, <1>4, <1>5, <1>6, <1>7, <1>8 DEF A!Next, A!Quiet

(* No approval that an agent asked for is lost with a run that failed.       *)
LEMMA SurviveFacts == A!Setting /\ AgentInv => A!ApprovalsSurvive
<1> SUFFICES ASSUME A!Setting, AgentInv, NEW a \in asked, run[a.run] \in A!Ended, a \notin runApprovals
             PROVE  FALSE
  BY DEF A!ApprovalsSurvive
<1>1. a \in A!Approval /\ a.run \in Runs
  BY AgentTypes DEF A!Approval
<1>2. PICK s \in Sessions : a \in runTx[s].pending
  BY DEF AgentInv, ApprovalsKept
<1>3. a.run = runTx[s].run
  BY <1>1, <1>2 DEF AgentInv, ApprovalsKept
<1>4. run[a.run] \in Ongoing
  BY <1>1, <1>3 DEF AgentInv, RunsAssigned, A!Setting
<1> QED
  BY <1>4 DEF Ongoing, A!Ended

LEMMA AgentsKept == ASSUME A!Setting PROVE A!Spec => []AgentInv
<1>1. AgentInv /\ [A!Next]_(A!vars) => AgentInv'
  BY AgentStep
<1>2. A!Init => AgentInv
  BY AgentInit
<1> QED
  BY <1>1, <1>2, PTL DEF A!Spec
-----------------------------------------------------------------------------
(***************************************************************************)
(* THE SERVICES TOGETHER.                                                  *)
(***************************************************************************)

all == <<scene, vars, knowledge, tenant, usage, assistant>>

LEMMA EachBegins ==
  ServicesInit => Init /\ K!Init /\ T!Init /\ U!Init /\ A!Init
  BY DEF ServicesInit

LEMMA OrdersMove == [ServicesNext]_all => [Next]_vars
  BY DEF ServicesNext, all

LEMMA KnowledgeMoves == [ServicesNext]_all => [K!Next]_(K!vars)
  BY DEF ServicesNext, all, knowledge, K!vars

LEMMA TenantsMove == [ServicesNext]_all => [T!Next]_(T!vars)
  BY DEF ServicesNext, all, tenant, T!vars, T!world, T!ghosts

LEMMA UsageMovesAlong == [ServicesNext]_all => [U!Next]_(U!vars)
  BY DEF ServicesNext, all, usage, U!vars

LEMMA AssistantMoves == [ServicesNext]_all => [A!Next]_(A!vars)
  BY DEF ServicesNext, all, assistant, A!vars

(* A behaviour of the services is one of each of them.                       *)
LEMMA EachRuns ==
  /\ ServicesSpec => Spec
  /\ ServicesSpec => K!Spec
  /\ ServicesSpec => T!Spec
  /\ ServicesSpec => U!Spec
  /\ ServicesSpec => A!Spec
<1>1. ServicesSpec => Spec
  BY EachBegins, OrdersMove, PTL DEF ServicesSpec, Spec, all
<1>2. ServicesSpec => K!Spec
  BY EachBegins, KnowledgeMoves, PTL DEF ServicesSpec, K!Spec, all
<1>3. ServicesSpec => T!Spec
  BY EachBegins, TenantsMove, PTL DEF ServicesSpec, T!Spec, all
<1>4. ServicesSpec => U!Spec
  BY EachBegins, UsageMovesAlong, PTL DEF ServicesSpec, U!Spec, all
<1>5. ServicesSpec => A!Spec
  BY EachBegins, AssistantMoves, PTL DEF ServicesSpec, A!Spec, all
<1> QED
  BY <1>1, <1>2, <1>3, <1>4, <1>5

(* All rows, copies and requests of all services keep their types.           *)
THEOREM ServicesTyped == ServicesSpec => []ServicesTypeOK
<1>1. StockInv => TypeOK
  BY DEF StockInv
<1>2. KnowledgeInv => K!TypeOK
  BY DEF KnowledgeInv
<1>3. TenantInv => T!TypeOK
  BY DEF TenantInv
<1>4. UsageInv => U!TypeOK
  BY DEF UsageInv
<1>5. AgentInv => A!TypeOK
  BY DEF AgentInv
<1>6. T!Spec => []TenantInv
  BY TenantKept, ServicesAssumption
<1>7. U!Spec => []UsageInv
  BY UsageKept, ServicesAssumption
<1>8. A!Spec => []AgentInv
  BY AgentsKept, ServicesAssumption
<1>9. TypeOK /\ K!TypeOK /\ T!TypeOK /\ U!TypeOK /\ A!TypeOK => ServicesTypeOK
  BY DEF ServicesTypeOK
<1> QED
  BY <1>1, <1>2, <1>3, <1>4, <1>5, <1>6, <1>7, <1>8, <1>9, EachRuns, StockKept, KnowledgeKept, PTL

(* A request that finds a knowledge item as it has read it never lets agents *)
(* and the message router (list_active_and_approved) find content that was   *)
(* not approved, except for an edit of an OUTDATED item.                     *)
THEOREM OnlyReviewedIsHeard == ServicesSpec => OnlyReviewedIsTold
<1>1. KnowledgeInv /\ [K!Next]_(K!vars) =>
        [\A s \in Sessions, i \in Items :
           /\ itemTx[s].item = i /\ itemTx'[s].item = None
           /\ itemTx[s].copy = item[i] /\ K!Reviewed(i)
           /\ item[i].status = "OUTDATED" => item'[i].content = item[i].content
           => K!Reviewed(i)']_(K!vars)
  BY KnowledgeReviewed, ServicesAssumption
<1>2. K!Spec => OnlyReviewedIsTold
  BY <1>1, KnowledgeKept, PTL DEF K!Spec, OnlyReviewedIsTold, K!OnlyReviewedIsTold
<1> QED
  BY <1>2, EachRuns

(* A tenant is ACTIVE only if the gate (check_production_ready) has found    *)
(* its configuration complete at some time.                                  *)
THEOREM ActiveTenantsWereReady == ServicesSpec => []ActiveWasReady
<1>1. TenantInv => ActiveWasReady
  BY DEF TenantInv, ActiveWasReady
<1>2. T!Spec => []TenantInv
  BY TenantKept, ServicesAssumption
<1> QED
  BY <1>1, <1>2, EachRuns, PTL

(* ... and only if it has had a subscription that is paid or costs nothing,  *)
(* whichever of the ways to ACTIVE it took.                                  *)
THEOREM ActiveTenantsWerePaidFor == ServicesSpec => []ActivePaidFor
<1>1. TenantInv => ActivePaidFor
  BY DEF TenantInv, ActivePaidFor
<1>2. T!Spec => []TenantInv
  BY TenantKept, ServicesAssumption
<1> QED
  BY <1>1, <1>2, EachRuns, PTL

(* The pipeline of a paying plan (advance_pipeline) stops at WAITING_PAYMENT *)
(* until there is a payment or an owner goes past it.                        *)
THEOREM ThePipelineWaits == ServicesSpec => []PipelineWaitsForPayment
<1>1. TenantInv => PipelineWaitsForPayment
  BY DEF TenantInv, PipelineWaitsForPayment
<1>2. T!Spec => []TenantInv
  BY TenantKept, ServicesAssumption
<1> QED
  BY <1>1, <1>2, EachRuns, PTL

(* The check and the record of a use are apart (check_and_increment_usage),  *)
(* so requests that overlap may pass a limit: by no more than what each but  *)
(* one of them may use at once.                                              *)
THEOREM OverlapIsBounded == ServicesSpec => []OverLimitByOverlap
<1>1. U!Spec => []U!OverLimitByOverlap
  BY OverlapLimited, ServicesAssumption
<1>2. U!OverLimitByOverlap => OverLimitByOverlap
  BY DEF OverLimitByOverlap
<1> QED
  BY <1>1, <1>2, EachRuns, PTL

(* check_and_increment_usage announces no threshold that was not reached,    *)
(* though the sum it compares may be stale.                                  *)
THEOREM NoAlarmIsFalse == ServicesSpec => []NoFalseAlarm
<1>1. UsageInv => NoFalseAlarm
  BY DEF UsageInv, NoFalseAlarm
<1>2. U!Spec => []UsageInv
  BY UsageKept, ServicesAssumption
<1> QED
  BY <1>1, <1>2, EachRuns, PTL

(* What an agent has asked approval for is stored when its run has ended,    *)
(* also when the run failed after the question (orchestrator.py).            *)
THEOREM QuestionsSurvive == ServicesSpec => []ApprovalsSurvive
<1>1. AgentInv => ApprovalsSurvive
  BY SurviveFacts, ServicesAssumption DEF ApprovalsSurvive
<1>2. A!Spec => []AgentInv
  BY AgentsKept, ServicesAssumption
<1> QED
  BY <1>1, <1>2, EachRuns, PTL

(* A run that has not ended is the work of a request, unless that request    *)
(* was lost: no error of an agent or of the plan leaves a run unfinished.    *)
THEOREM RunsAreNotForgotten == ServicesSpec => []NoRunForgotten
<1>1. AgentInv => NoRunForgotten
  BY DEF AgentInv, NoRunForgotten
<1>2. A!Spec => []AgentInv
  BY AgentsKept, ServicesAssumption
<1> QED
  BY <1>1, <1>2, EachRuns, PTL
=============================================================================
