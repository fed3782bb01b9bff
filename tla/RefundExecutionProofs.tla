------------------------ MODULE RefundExecutionProofs ------------------------
(***************************************************************************)
(* What the two row locks of RefundService guarantee, for any number of     *)
(* sessions, requests, retries and crashes.  The argument is the lock of    *)
(* the payment: the session between LockPayment and CommitRefund holds it,  *)
(* so the total it computed is still above what is recorded.                *)
(***************************************************************************)
EXTENDS RefundExecution, FiniteSums, TLAPS

LEMMA Constants ==
  /\ Amount \in Nat /\ Amounts \subseteq Int
  /\ None \notin Sessions \cup Requests
  /\ MaxTries \in Nat /\ MaxCrashes \in Nat
BY AmountAssumption, NoneAssumption, BoundAssumption

(* The rows of sessions that have passed the checks of refunds.py:103-129.  *)
Holds(s) == tx[s].pc \in {"checked", "refunded"}

Started(s) == tx[s].pc \in {"authorised", "locked", "checked", "refunded"}

(* A session that works on a request has one, and it is a row by then.      *)
Working ==
  \A s \in Sessions :
    /\ tx[s].pc # "idle" => tx[s].req \in Requests
    /\ tx[s].pc = "asking" => tx[s].sum \in Amounts
    /\ tx[s].pc = "deciding" => tx[s].op \in DecisionType
    /\ Started(s) => request[tx[s].req].status # "NONE"
    /\ tx[s].pc = "deciding" => request[tx[s].req].status # "NONE"

(* What is refunded of the payment is only written under its lock.          *)
Guarded ==
  \A s \in Sessions : Holds(s) => lockPay = s /\ tx[s].sum <= Amount

(* Between provider.refund and the commit the money is out.                 *)
PaidFirst == \A s \in Sessions : tx[s].pc = "refunded" => paidOut[tx[s].req] >= 1

IInv ==
  /\ TypeOK /\ Working /\ Guarded /\ PaidFirst
  /\ RefundWithinAmount /\ StatusTellsRefunded /\ ExecutedWasPaidOut
-----------------------------------------------------------------------------
(* A session moves; the others keep what they have read.                    *)
LEMMA MoveFacts ==
  ASSUME TypeOK, NEW s \in Sessions, NEW row \in SessionRow, Move(s, row)
  PROVE  /\ tx' \in [Sessions -> SessionRow]
         /\ tx'[s] = row
         /\ \A t \in Sessions : t # s => tx'[t] = tx[t]
  BY DEF TypeOK, Move

LEMMA LeaveFacts ==
  ASSUME TypeOK, NEW s \in Sessions, Leave(s)
  PROVE  /\ tx' \in [Sessions -> SessionRow]
         /\ tx'[s].pc = "idle"
         /\ \A t \in Sessions : t # s => tx'[t] = tx[t]
         /\ lockReq' \in [Requests -> Sessions \cup {None}]
         /\ lockPay' \in Sessions \cup {None}
         /\ \A t \in Sessions : t # s /\ lockPay = t => lockPay' = t
<1>1. Idle \in SessionRow
  BY DEF Idle, SessionRow
<1>2. Move(s, Idle)
  BY DEF Leave
<1>3. tx' \in [Sessions -> SessionRow] /\ tx'[s] = Idle /\ \A t \in Sessions : t # s => tx'[t] = tx[t]
  BY <1>1, <1>2, MoveFacts
<1> QED
  BY <1>3 DEF TypeOK, Leave, Idle

(* The status that is written with a total within the amount.               *)
LEMMA NewStatusFacts ==
  ASSUME NEW sum \in Int, sum <= Amount
  PROVE  /\ NewStatus(sum) \in PaymentStatus \ {"SUCCEEDED"}
         /\ NewStatus(sum) = "REFUNDED" => sum = Amount
         /\ NewStatus(sum) = "PARTIALLY_REFUNDED" => sum < Amount
  BY Constants DEF NewStatus, PaymentStatus

(* A step that leaves the payment, its lock and the provider alone.         *)
LEMMA SessionStep ==
  ASSUME IInv, NEW s \in Sessions, NEW row \in SessionRow, Move(s, row),
         UNCHANGED <<rows, lockPay, paidOut, crashes>>,
         lockReq' \in [Requests -> Sessions \cup {None}],
         row.pc # "idle" => row.req \in Requests,
         row.pc = "asking" => row.sum \in Amounts,
         row.pc = "deciding" => row.op \in DecisionType,
         row.pc \in {"authorised", "locked", "deciding"} => request[row.req].status # "NONE",
         row.pc \in {"asking", "deciding", "authorised", "locked"}
  PROVE  IInv'
<1>1. tx' \in [Sessions -> SessionRow] /\ tx'[s] = row /\ \A t \in Sessions : t # s => tx'[t] = tx[t]
  BY MoveFacts DEF IInv
<1>2. TypeOK'
  BY <1>1 DEF IInv, TypeOK, rows
<1>3. Working'
  BY <1>1 DEF IInv, Working, Started, rows
<1>4. Guarded' /\ PaidFirst'
  BY <1>1 DEF IInv, Guarded, Holds, PaidFirst, rows
<1> QED
  BY <1>2, <1>3, <1>4 DEF IInv, RefundWithinAmount, StatusTellsRefunded,
     ExecutedWasPaidOut, Executed, rows

(* A transaction ends that has not written, or has only given its request a *)
(* status other than EXECUTED.                                              *)
LEMMA EndStep ==
  ASSUME IInv, NEW s \in Sessions, Leave(s), UNCHANGED <<payment, paidOut>>,
         crashes' \in Nat,
         request' \in [Requests -> RequestRow],
         \A r \in Requests :
           /\ request[r].status # "NONE" => request'[r].status # "NONE"
           /\ request'[r].status = "EXECUTED" => request[r].status = "EXECUTED"
  PROVE  IInv'
<1>1. /\ tx' \in [Sessions -> SessionRow]
      /\ tx'[s].pc = "idle"
      /\ \A t \in Sessions : t # s => tx'[t] = tx[t]
      /\ lockReq' \in [Requests -> Sessions \cup {None}]
      /\ lockPay' \in Sessions \cup {None}
      /\ \A t \in Sessions : t # s /\ lockPay = t => lockPay' = t
  BY LeaveFacts DEF IInv
<1>2. TypeOK'
  BY <1>1 DEF IInv, TypeOK
<1>3. Working'
  BY <1>1 DEF IInv, Working, Started
<1>4. Guarded' /\ PaidFirst'
  BY <1>1 DEF IInv, Guarded, Holds, PaidFirst
<1>5. ExecutedWasPaidOut'
  BY DEF IInv, ExecutedWasPaidOut, Executed
<1> QED
  BY <1>2, <1>3, <1>4, <1>5 DEF IInv, RefundWithinAmount, StatusTellsRefunded
-----------------------------------------------------------------------------
LEMMA InitOK == Init => IInv
  BY Constants DEF Init, IInv, TypeOK, Working, Started, Guarded, Holds, PaidFirst,
     RefundWithinAmount, StatusTellsRefunded, ExecutedWasPaidOut, Executed,
     RequestRow, PaymentRow, SessionRow, Idle, PaymentStatus, RequestStatus

LEMMA StepOK == IInv /\ [Next]_vars => IInv'
<1> SUFFICES ASSUME IInv, [Next]_vars PROVE IInv'
  OBVIOUS
<1> USE DEF SessionRow, RequestRow, RequestStatus, DecisionType
<1>1. ASSUME NEW s \in Sessions, NEW r \in Requests, NEW amount \in Amounts,
             CheckRequest(s, r, amount)
      PROVE  IInv'
  <2> DEFINE row == [tx[s] EXCEPT !.pc = "asking", !.req = r, !.sum = amount]
  <2>1. row \in SessionRow /\ row.pc = "asking" /\ row.req = r /\ row.sum \in Amounts
    <3>1. amount \in Int
      BY Constants
    <3> QED
      BY <3>1 DEF IInv, TypeOK
  <2> QED
    BY <1>1, <2>1, SessionStep DEF CheckRequest, IInv, TypeOK
<1>2. ASSUME NEW s \in Sessions, InsertRequest(s)
      PROVE  IInv'
  BY <1>2, EndStep DEF InsertRequest, IInv, TypeOK, Working
<1>3. ASSUME NEW s \in Sessions, NEW r \in Requests, NEW op \in DecisionType,
             LoadToDecide(s, r, op)
      PROVE  IInv'
  <2> DEFINE row == [tx[s] EXCEPT !.pc = "deciding", !.req = r, !.op = op]
  <2>1. row \in SessionRow /\ row.pc = "deciding" /\ row.req = r /\ row.op = op
    BY <1>3 DEF IInv, TypeOK
  <2> QED
    BY <1>3, <2>1, SessionStep DEF LoadToDecide, IInv, TypeOK
<1>4. ASSUME NEW s \in Sessions, CommitDecision(s)
      PROVE  IInv'
  BY <1>4, EndStep DEF CommitDecision, Decision, IInv, TypeOK, Working
<1>5. ASSUME NEW s \in Sessions, NEW r \in Requests, Authorise(s, r)
      PROVE  IInv'
  <2> DEFINE row == [tx[s] EXCEPT !.pc = "authorised", !.req = r, !.seen = request[r].status]
  <2>1. row \in SessionRow /\ row.pc = "authorised" /\ row.req = r
    BY <1>5 DEF IInv, TypeOK
  <2> QED
    BY <1>5, <2>1, SessionStep DEF Authorise, IInv, TypeOK
<1>6. ASSUME NEW s \in Sessions, NEW r \in Requests, CallService(s, r)
      PROVE  IInv'
  <2> DEFINE row == [tx[s] EXCEPT !.pc = "authorised", !.req = r]
  <2>1. row \in SessionRow /\ row.pc = "authorised" /\ row.req = r
    BY <1>6 DEF IInv, TypeOK
  <2> QED
    BY <1>6, <2>1, SessionStep DEF CallService, IInv, TypeOK
<1>7. ASSUME NEW s \in Sessions, LockRequest(s)
      PROVE  IInv'
  <2> DEFINE seen == IF tx[s].seen = "NONE" THEN request[tx[s].req].status ELSE tx[s].seen
             row  == [tx[s] EXCEPT !.pc = "locked", !.seen = seen]
  <2>1. tx[s].pc = "authorised" /\ tx[s].req \in Requests /\ request[tx[s].req].status # "NONE"
    BY <1>7 DEF LockRequest, IInv, Working, Started
  <2>2. CASE seen = "APPROVED"
    <3>1. row \in SessionRow /\ row.pc = "locked" /\ row.req = tx[s].req
      BY <2>1, <2>2 DEF IInv, TypeOK
    <3>2. /\ Move(s, row) /\ UNCHANGED <<rows, lockPay, paidOut, crashes>>
          /\ lockReq' = [lockReq EXCEPT ![tx[s].req] = s]
      BY <1>7, <2>2 DEF LockRequest
    <3> QED
      BY <2>1, <3>1, <3>2, SessionStep DEF IInv, TypeOK
  <2>3. CASE seen # "APPROVED"
    BY <1>7, <2>3, EndStep DEF LockRequest, rows, IInv, TypeOK
  <2> QED
    BY <2>2, <2>3
<1>8. ASSUME NEW s \in Sessions, LockPayment(s)
      PROVE  IInv'
  <2> DEFINE r   == tx[s].req
             sum == payment.refunded + request[r].amount
             row == [tx[s] EXCEPT !.pc = "checked", !.sum = sum]
  <2>1. /\ r \in Requests /\ request[r].status # "NONE"
        /\ request[r].amount \in Int /\ payment.refunded \in Int
    BY <1>8 DEF LockPayment, IInv, Working, Started, TypeOK, PaymentRow
  <2>2. sum \in Int /\ sum <= Amount
    BY <1>8, <2>1, Constants DEF LockPayment, Affordable, Remaining
  <2> HIDE DEF sum
  <2>3. row \in SessionRow /\ row.pc = "checked" /\ row.req = r /\ row.sum = sum
    BY <2>2 DEF IInv, TypeOK
  <2>4. Move(s, row) /\ lockPay = None /\ lockPay' = s /\ UNCHANGED <<rows, lockReq, paidOut, crashes>>
    BY <1>8 DEF LockPayment, sum
  <2>5. tx' \in [Sessions -> SessionRow] /\ tx'[s] = row /\ \A t \in Sessions : t # s => tx'[t] = tx[t]
    BY <2>3, <2>4, MoveFacts DEF IInv
  <2>6. TypeOK'
    BY <2>4, <2>5 DEF IInv, TypeOK, rows
  <2>7. Working' /\ PaidFirst'
    <3> HIDE DEF row
    <3>1. Working'
      BY <2>1, <2>3, <2>4, <2>5 DEF IInv, Working, Started, rows
    <3>2. PaidFirst'
      BY <2>3, <2>4, <2>5 DEF IInv, PaidFirst
    <3> QED
      BY <3>1, <3>2
  <2>8. Guarded'
    BY <2>2, <2>3, <2>4, <2>5, Constants DEF IInv, Guarded, Holds, rows
  <2> QED
    BY <2>4, <2>6, <2>7, <2>8 DEF IInv, RefundWithinAmount, StatusTellsRefunded,
       ExecutedWasPaidOut, Executed, rows
<1>9. ASSUME NEW s \in Sessions, RefuseAmount(s)
      PROVE  IInv'
  BY <1>9, EndStep DEF RefuseAmount, IInv, TypeOK, Working, Started
<1>10. ASSUME NEW s \in Sessions, Refund(s)
       PROVE  IInv'
  <2> DEFINE row == [tx[s] EXCEPT !.pc = "refunded"]
  <2>1. row \in SessionRow /\ row.pc = "refunded" /\ row.req = tx[s].req /\ row.sum = tx[s].sum
    BY DEF IInv, TypeOK
  <2>2. /\ Move(s, row) /\ tx[s].pc = "checked" /\ tx[s].req \in Requests
        /\ request[tx[s].req].status # "NONE"
        /\ paidOut' = [paidOut EXCEPT ![tx[s].req] = @ + 1]
        /\ UNCHANGED <<rows, lockReq, lockPay, crashes>>
    BY <1>10 DEF Refund, IInv, Working, Started
  <2>3. tx' \in [Sessions -> SessionRow] /\ tx'[s] = row /\ \A t \in Sessions : t # s => tx'[t] = tx[t]
    BY <2>1, <2>2, MoveFacts DEF IInv
  <2>4. /\ paidOut' \in [Requests -> Nat]
        /\ paidOut'[tx[s].req] >= 1
        /\ \A r \in Requests : paidOut[r] >= 1 => paidOut'[r] >= 1
    BY <2>2 DEF IInv, TypeOK
  <2>5. TypeOK'
    BY <2>2, <2>3, <2>4 DEF IInv, TypeOK, rows
  <2>6. Working'
    BY <2>1, <2>2, <2>3 DEF IInv, Working, Started, rows
  <2>7. Guarded'
    BY <2>1, <2>2, <2>3 DEF IInv, Guarded, Holds, rows
  <2>8. PaidFirst'
    <3> SUFFICES ASSUME NEW t \in Sessions, tx'[t].pc = "refunded" PROVE paidOut'[tx'[t].req] >= 1
      BY DEF PaidFirst
    <3>1. CASE t = s
      BY <2>1, <2>3, <2>4, <3>1
    <3>2. CASE t # s
      BY <2>3, <2>4, <3>2 DEF IInv, PaidFirst, Working
    <3> QED
      BY <3>1, <3>2
  <2>9. ExecutedWasPaidOut'
    BY <2>2, <2>4 DEF IInv, ExecutedWasPaidOut, Executed, rows
  <2> QED
    BY <2>2, <2>5, <2>6, <2>7, <2>8, <2>9 DEF IInv, RefundWithinAmount,
       StatusTellsRefunded, rows
<1>11. ASSUME NEW s \in Sessions, RefundFails(s)
       PROVE  IInv'
  BY <1>11, EndStep DEF RefundFails, IInv, TypeOK, Working, Started
<1>12. ASSUME NEW s \in Sessions, CommitRefund(s)
       PROVE  IInv'
  <2> DEFINE r   == tx[s].req
             sum == tx[s].sum
  <2>1. /\ r \in Requests /\ request[r].status # "NONE" /\ paidOut[r] >= 1
        /\ lockPay = s /\ sum <= Amount /\ sum \in Int
    BY <1>12 DEF CommitRefund, IInv, Working, Started, PaidFirst, Guarded, Holds, TypeOK, PaymentRow
  <2>2. /\ Leave(s) /\ UNCHANGED <<paidOut, crashes>>
        /\ request' = [request EXCEPT ![r].status = "EXECUTED"]
        /\ payment' = [status |-> NewStatus(sum), refunded |-> sum]
    BY <1>12 DEF CommitRefund
  <2> HIDE DEF r, sum
  <2>3. /\ payment' \in PaymentRow /\ RefundWithinAmount' /\ StatusTellsRefunded'
    BY <2>1, <2>2, NewStatusFacts DEF PaymentRow, RefundWithinAmount, StatusTellsRefunded
  <2>4. /\ tx' \in [Sessions -> SessionRow]
        /\ tx'[s].pc = "idle"
        /\ \A t \in Sessions : t # s => tx'[t] = tx[t]
        /\ lockReq' \in [Requests -> Sessions \cup {None}]
        /\ lockPay' \in Sessions \cup {None}
    BY <2>2, LeaveFacts DEF IInv
  <2>5. TypeOK'
    <3>1. request' \in [Requests -> RequestRow]
      BY <2>1, <2>2 DEF IInv, TypeOK
    <3> QED
      BY <2>2, <2>3, <2>4, <3>1 DEF IInv, TypeOK
  <2>6. Working' /\ PaidFirst'
    BY <2>1, <2>2, <2>4 DEF IInv, TypeOK, Working, Started, PaidFirst
  <2>7. Guarded'
    <3> SUFFICES ASSUME NEW t \in Sessions, t # s, Holds(t) PROVE FALSE
      BY <2>4 DEF Guarded, Holds
    <3> QED
      BY <2>1 DEF IInv, Guarded
  <2>8. ExecutedWasPaidOut'
    BY <2>1, <2>2 DEF IInv, TypeOK, ExecutedWasPaidOut, Executed
  <2> QED
    BY <2>3, <2>5, <2>6, <2>7, <2>8 DEF IInv
<1>13. ASSUME NEW s \in Sessions, Crash(s)
       PROVE  IInv'
  BY <1>13, EndStep DEF Crash, rows, IInv, TypeOK
<1>14. ASSUME UNCHANGED vars
       PROVE  IInv'
  BY <1>14 DEF vars, IInv, TypeOK, Working, Started, Guarded, Holds, PaidFirst,
     RefundWithinAmount, StatusTellsRefunded, ExecutedWasPaidOut, Executed
<1>15. ASSUME NEW s \in Sessions, RefuseMove(s)
       PROVE  IInv'
  BY <1>15, EndStep DEF RefuseMove, rows, IInv, TypeOK
<1>16. ASSUME CancelPayment
       PROVE  IInv'
  <2>1. /\ payment' \in PaymentRow /\ payment'.refunded = payment.refunded
        /\ payment'.status = "CANCELLED"
        /\ UNCHANGED <<request, lockReq, lockPay, tx, paidOut, crashes>>
    BY <1>16 DEF CancelPayment, IInv, TypeOK, PaymentRow, PaymentStatus
  <2>2. TypeOK' /\ Working'
    BY <2>1 DEF IInv, TypeOK, Working, Started
  <2>3. Guarded' /\ PaidFirst'
    BY <2>1 DEF IInv, Guarded, Holds, PaidFirst
  <2> QED
    BY <2>1, <2>2, <2>3 DEF IInv, RefundWithinAmount, StatusTellsRefunded, ExecutedWasPaidOut, Executed
<1> QED
  BY <1>1, <1>2, <1>3, <1>4, <1>5, <1>6, <1>7, <1>8, <1>9, <1>10, <1>11, <1>12, <1>13, <1>14,
     <1>15, <1>16 DEF Next, Step, Quiet

(* The invariant holds in every reachable state.                            *)
THEOREM Inductive == Spec => []IInv
  BY InitOK, StepOK, PTL DEF Spec

(* The rows of approvals and of the payment, the locks and the sessions     *)
(* keep their types.                                                        *)
THEOREM TypeCorrect == Spec => []TypeOK
<1>1. IInv => TypeOK
  BY DEF IInv
<1> QED
  BY <1>1, Inductive, PTL

(* execute_approved_refund never records more as refunded than was paid,    *)
(* whichever requests were approved for the payment and however they race.  *)
THEOREM WithinAmount == Spec => []RefundWithinAmount
<1>1. IInv => RefundWithinAmount
  BY DEF IInv
<1> QED
  BY <1>1, Inductive, PTL

(* REFUNDED is only said of a payment that was given back entirely,         *)
(* PARTIALLY_REFUNDED of one that was not, SUCCEEDED of one of which nothing *)
(* was, with amounts of any sign and a cancellation at any moment.          *)
THEOREM StatusIsRight == Spec => []StatusTellsRefunded
<1>1. IInv => StatusTellsRefunded
  BY DEF IInv
<1> QED
  BY <1>1, Inductive, PTL

(* No approval is EXECUTED before the provider has made its refund.         *)
THEOREM PaidBeforeExecuted == Spec => []ExecutedWasPaidOut
<1>1. IInv => ExecutedWasPaidOut
  BY DEF IInv
<1> QED
  BY <1>1, Inductive, PTL
-----------------------------------------------------------------------------
(* No refund is lost: the second argument.  The total that a session has    *)
(* computed under the payment's lock is what is recorded and its own amount *)
(* on top, and the amount of a request that exists is never written again.  *)
Reserved ==
  \A s \in Sessions : Holds(s) =>
    tx[s].sum = payment.refunded + request[tx[s].req].amount

(* A request that is being asked for has no row yet, and no other session   *)
(* works on it; without a row it asks for nothing.                          *)
Fresh ==
  /\ \A s \in Sessions : tx[s].pc = "asking" =>
       /\ request[tx[s].req].status = "NONE"
       /\ \A t \in Sessions \ {s} : tx[t].req # tx[s].req
  /\ \A r \in Requests : request[r].status = "NONE" => request[r].amount = 0

(* What a step writes of the books: it inserts a request, decides or fails  *)
(* one, records a refund, or pays out, and nothing of another request.  A    *)
(* cancelled payment keeps what was refunded of it.                         *)
Inserts(r) ==
  /\ request[r].status = "NONE" /\ request'[r].status = "PENDING"
  /\ request[r].amount = 0 /\ request'[r].amount \in Amounts
  /\ UNCHANGED <<payment, paidOut>>

Decides(r) ==
  /\ request[r].status # "NONE" /\ request'[r].status # "NONE"
  /\ request'[r].amount = request[r].amount
  /\ request'[r].status # "EXECUTED"
  /\ UNCHANGED <<payment, paidOut>>

Records(r) ==
  /\ request[r].status # "NONE"
  /\ request'[r].amount = request[r].amount
  /\ request'[r].status = "EXECUTED"
  /\ paidOut[r] > 0
  /\ payment'.refunded = payment.refunded + request[r].amount
  /\ payment'.refunded <= Amount
  /\ UNCHANGED paidOut

Pays(r) ==
  /\ request[r].status # "NONE"
  /\ payment.refunded + request[r].amount <= Amount
  /\ paidOut' = [paidOut EXCEPT ![r] = @ + 1]
  /\ UNCHANGED rows

Written ==
  \/ UNCHANGED <<request, paidOut>> /\ payment'.refunded = payment.refunded
  \/ \E r \in Requests :
       /\ \A q \in Requests \ {r} : request'[q] = request[q]
       /\ Inserts(r) \/ Decides(r) \/ Records(r) \/ Pays(r)

Asked == [r \in Requests |-> request[r].amount]

NoneNegative == \A r \in Requests : request[r].amount >= 0

(* The sum that ExecutedIsRecorded speaks of is any sum of the amounts.     *)
SumIs ==
  \A h : Adds(h, Asked, Requests) =>
    (ExecutedIsRecorded <=> (NoneNegative => h[Executed] <= payment.refunded))

LEMMA SumOfExecuted == IsFiniteSet(Requests) => SumIs
<1> SUFFICES ASSUME IsFiniteSet(Requests), NEW h, Adds(h, Asked, Requests)
             PROVE  ExecutedIsRecorded <=> (NoneNegative => h[Executed] <= payment.refunded)
  BY DEF SumIs
<1> DEFINE S == Executed
           first(U) == CHOOSE x \in U : TRUE
           def(g) == [U \in SUBSET S |->
                        IF U = {} THEN 0 ELSE request[first(U)].amount + g[U \ {first(U)}]]
           iter == CHOOSE g : g = def(g)
<1>1. IsFiniteSet(S) /\ S \subseteq Requests
  BY FS_Subset DEF Executed
<1>2. ASSUME NEW g
      PROVE  Adds(g, Asked, S) <=> g = def(g)
  <2> DEFINE e == [U \in SUBSET S |-> IF U = {} THEN 0 ELSE Asked[Pick(U)] + g[U \ {Pick(U)}]]
  <2>1. ASSUME NEW U \in SUBSET S
        PROVE  e[U] = def(g)[U]
    <3>1. CASE U = {}
      BY <3>1
    <3>2. CASE U # {}
      <4>1. Pick(U) = first(U)
        BY DEF Pick
      <4>2. Pick(U) \in Requests
        BY <3>2, <1>1, PickFacts
      <4>3. Asked[Pick(U)] = request[first(U)].amount
        BY <4>1, <4>2 DEF Asked
      <4> QED
        BY <3>2, <4>1, <4>3
    <3> QED
      BY <3>1, <3>2
  <2>2. e = def(g)
    BY <2>1
  <2> QED
    BY <2>2 DEF Adds
<1>3. Adds(iter, Asked, S)
  <2>1. PICK g : Adds(g, Asked, S)
    BY <1>1, SumExists
  <2>2. g = def(g)
    BY <2>1, <1>2
  <2> HIDE DEF def
  <2>3. iter = def(iter)
    BY <2>2
  <2> QED
    BY <2>3, <1>2
<1> HIDE DEF S
<1>4. iter[S] = h[S]
  <2> HIDE DEF iter
  <2> QED
    BY <1>1, <1>3, SumsAgree
<1>5. ExecutedIsRecorded <=> (NoneNegative => iter[S] <= payment.refunded)
  BY DEF ExecutedIsRecorded, NoneNegative, MapThenSumSet, MapThenFoldSet, S
<1> QED
  BY <1>4, <1>5 DEF S

(* One request is written, and the payment grows by its amount at least     *)
(* when it becomes EXECUTED.                                                *)
LEMMA RecordedStep ==
  ASSUME IsFiniteSet(Requests), TypeOK, TypeOK', ExecutedIsRecorded, NEW r \in Requests,
         NoneNegative, NoneNegative',
         \A q \in Requests \ {r} : request'[q] = request[q],
         request[r].status = "EXECUTED" => request'[r].amount = request[r].amount,
         payment'.refunded >= payment.refunded,
         request'[r].status = "EXECUTED" =>
           \/ request[r].status = "EXECUTED"
           \/ payment'.refunded >= payment.refunded + request'[r].amount
  PROVE  ExecutedIsRecorded'
<1>1. SumIs /\ SumIs'
  <2>1. SumIs
    BY SumOfExecuted
  <2>2. SumIs'
    BY SumOfExecuted, PTL
  <2> QED
    BY <2>1, <2>2
<1>2. PICK h : Adds(h, Asked, Requests)
  BY SumExists
<1>3. PICK k : Adds(k, Asked', Requests)
  BY SumExists
<1> DEFINE W == Executed \ {r}
<1>4. /\ \A x \in Requests : Asked[x] \in Nat /\ Asked'[x] \in Nat
      /\ \A x \in W : Asked[x] = Asked'[x]
  BY DEF Asked, TypeOK, RequestRow, Executed, NoneNegative
<1>5. W \subseteq Requests /\ IsFiniteSet(W) /\ Executed \subseteq Requests /\ Executed' \subseteq Requests
  BY FS_Subset DEF Executed
<1>6. W = Executed' \ {r}
  BY DEF Executed
<1> HIDE DEF W
<1>7. h[W] = k[W]
  BY <1>2, <1>3, <1>4, <1>5, SumsAgree
<1>8. h[Executed] = IF r \in Executed THEN Asked[r] + h[W] ELSE h[W]
  <2>1. CASE r \in Executed
    BY <1>2, <1>4, <1>5, <2>1, SumRemove DEF W
  <2>2. CASE r \notin Executed
    <3>1. W = Executed
      BY <2>2 DEF W
    <3> QED
      BY <2>2, <3>1
  <2> QED
    BY <2>1, <2>2
<1>9. k[Executed'] = IF r \in Executed' THEN Asked'[r] + k[W] ELSE k[W]
  <2>1. CASE r \in Executed'
    <3> DEFINE g == Asked'
               E == Executed'
    <3>1. Adds(k, g, Requests) /\ E \in SUBSET Requests /\ r \in E /\ \A x \in Requests : g[x] \in Nat
      BY <1>3, <1>4, <1>5, <2>1
    <3> HIDE DEF g, E
    <3>2. k[E] = g[r] + k[E \ {r}]
      BY <3>1, SumRemove
    <3> QED
      BY <1>6, <2>1, <3>2 DEF g, E
  <2>2. CASE r \notin Executed'
    <3>1. W = Executed'
      BY <1>6, <2>2
    <3> QED
      BY <2>2, <3>1
  <2> QED
    BY <2>1, <2>2
<1>10. h[W] \in Nat
  BY <1>2, <1>4, <1>5, SumType
<1>11. h[Executed] <= payment.refunded
  BY <1>1, <1>2 DEF SumIs
<1>12. k[Executed'] <= payment'.refunded
  <2>1. /\ Asked[r] = request[r].amount /\ Asked'[r] = request'[r].amount
        /\ Asked[r] \in Nat /\ Asked'[r] \in Nat
        /\ payment.refunded \in Int /\ payment'.refunded \in Int
        /\ r \in Executed <=> request[r].status = "EXECUTED"
        /\ r \in Executed' <=> request'[r].status = "EXECUTED"
    BY <1>4 DEF Asked, Executed, TypeOK, PaymentRow
  <2>2. r \in Executed => Asked'[r] = Asked[r]
    BY <2>1
  <2>3. r \in Executed' => r \in Executed \/ payment'.refunded >= payment.refunded + Asked'[r]
    BY <2>1
  <2> HIDE DEF W
  <2> QED
    BY <1>7, <1>8, <1>9, <1>10, <1>11, <2>1, <2>2, <2>3
<1> QED
  BY <1>1, <1>3, <1>12 DEF SumIs

LEMMA BooksInit == Init => Reserved /\ Fresh
  BY DEF Init, Reserved, Fresh, Holds, Idle

(* Only a session that commits writes a request, and only the refund that   *)
(* is recorded writes the payment.                                          *)
LEMMA BooksKept ==
  ASSUME IInv, IInv', Reserved, Fresh, [Next]_vars
  PROVE  Reserved' /\ Fresh' /\ Written
<1> USE DEF SessionRow, RequestRow
<1>0. TypeOK /\ TypeOK' /\ Working /\ Guarded /\ PaidFirst
  BY DEF IInv
<1>1. ASSUME NEW s \in Sessions, NEW r \in Requests, NEW amount \in Amounts,
             CheckRequest(s, r, amount)
      PROVE  Reserved' /\ Fresh' /\ UNCHANGED <<rows, paidOut>>
  <2>1. /\ tx'[s].pc = "asking" /\ tx'[s].req = r /\ request[r].status = "NONE"
        /\ \A t \in Sessions : tx[t].req # r
        /\ \A t \in Sessions \ {s} : tx'[t] = tx[t]
        /\ UNCHANGED <<rows, paidOut>>
    BY <1>0, <1>1 DEF CheckRequest, Move, TypeOK
  <2> QED
    BY <1>0, <2>1 DEF Reserved, Fresh, Holds, rows
<1>2. ASSUME NEW s \in Sessions, InsertRequest(s)
      PROVE  Reserved' /\ Fresh' /\ Written
  <2> DEFINE r == tx[s].req
  <2>1. /\ tx[s].pc = "asking" /\ r \in Requests /\ request[r].status = "NONE"
        /\ request[r].amount = 0
        /\ tx'[s].pc = "idle" /\ tx'[s].req = None
        /\ \A t \in Sessions \ {s} : tx'[t] = tx[t] /\ tx[t].req # r
        /\ \A q \in Requests \ {r} : request'[q] = request[q]
        /\ request'[r].status = "PENDING" /\ request'[r].amount = tx[s].sum
        /\ UNCHANGED <<payment, paidOut>>
    BY <1>0, <1>2 DEF InsertRequest, Leave, Move, Idle, TypeOK, Working, Fresh
  <2>2. tx[s].sum \in Amounts
    BY <1>0, <2>1 DEF Working
  <2> HIDE DEF r
  <2>3. Reserved'
    BY <1>0, <2>1 DEF Reserved, Holds, Working
  <2>4. Fresh'
    BY <1>0, <2>1, Constants DEF Fresh, Working
  <2> QED
    BY <2>1, <2>2, <2>3, <2>4 DEF Written, Inserts
<1>3. ASSUME NEW s \in Sessions, NEW r \in Requests, NEW op \in DecisionType,
             LoadToDecide(s, r, op)
      PROVE  Reserved' /\ Fresh' /\ UNCHANGED <<rows, paidOut>>
  <2>1. /\ tx'[s].pc = "deciding" /\ tx'[s].req = r /\ request[r].status # "NONE"
        /\ \A t \in Sessions \ {s} : tx'[t] = tx[t]
        /\ UNCHANGED <<rows, paidOut>>
    BY <1>0, <1>3 DEF LoadToDecide, Move, TypeOK
  <2> QED
    BY <1>0, <2>1 DEF Reserved, Fresh, Holds, rows
<1>4. ASSUME NEW s \in Sessions, NEW r \in Requests, Authorise(s, r) \/ CallService(s, r)
      PROVE  Reserved' /\ Fresh' /\ UNCHANGED <<rows, paidOut>>
  <2>1. /\ tx'[s].pc = "authorised" /\ tx'[s].req = r /\ request[r].status # "NONE"
        /\ \A t \in Sessions \ {s} : tx'[t] = tx[t]
        /\ UNCHANGED <<rows, paidOut>>
    <3>1. CASE Authorise(s, r)
      BY <1>0, <3>1 DEF Authorise, Move, TypeOK
    <3>2. CASE CallService(s, r)
      BY <1>0, <3>2 DEF CallService, Move, TypeOK
    <3> QED
      BY <1>4, <3>1, <3>2
  <2> QED
    BY <1>0, <2>1 DEF Reserved, Fresh, Holds, rows
<1>5. ASSUME NEW s \in Sessions, LockRequest(s)
      PROVE  Reserved' /\ Fresh' /\ UNCHANGED <<rows, paidOut>>
  <2>1. /\ tx'[s].pc \in {"locked", "idle"} /\ tx'[s].req \in {tx[s].req, None}
        /\ request[tx[s].req].status # "NONE" /\ tx[s].req \in Requests
        /\ \A t \in Sessions \ {s} : tx'[t] = tx[t]
        /\ UNCHANGED <<rows, paidOut>>
    <3>1. tx[s].pc = "authorised" /\ UNCHANGED <<rows, paidOut>>
      BY <1>5 DEF LockRequest
    <3> DEFINE seen == IF tx[s].seen = "NONE" THEN request[tx[s].req].status ELSE tx[s].seen
    <3>2. ASSUME seen = "APPROVED"
          PROVE  /\ tx'[s].pc = "locked" /\ tx'[s].req = tx[s].req
                 /\ \A t \in Sessions \ {s} : tx'[t] = tx[t]
      <4>1. tx' = [tx EXCEPT ![s] = [tx[s] EXCEPT !.pc = "locked", !.seen = seen]]
        BY <1>5, <3>2 DEF LockRequest, Move
      <4> HIDE DEF seen
      <4> QED
        BY <1>0, <4>1 DEF TypeOK
    <3>4. ASSUME seen # "APPROVED"
          PROVE  /\ tx'[s].pc = "idle" /\ tx'[s].req = None
                 /\ \A t \in Sessions \ {s} : tx'[t] = tx[t]
      BY <1>0, <1>5, <3>4 DEF LockRequest, Leave, Move, Idle, TypeOK
    <3>3. /\ tx'[s].pc \in {"locked", "idle"} /\ tx'[s].req \in {tx[s].req, None}
          /\ \A t \in Sessions \ {s} : tx'[t] = tx[t]
      BY <3>2, <3>4
    <3> QED
      BY <1>0, <3>1, <3>3 DEF Working, Started
  <2> QED
    BY <1>0, <2>1, Constants DEF Reserved, Fresh, Holds, rows, Working
<1>6. ASSUME NEW s \in Sessions, LockPayment(s)
      PROVE  Reserved' /\ Fresh' /\ UNCHANGED <<rows, paidOut>>
  <2>1. /\ tx'[s].pc = "checked" /\ tx'[s].req = tx[s].req /\ tx[s].req \in Requests
        /\ tx'[s].sum = payment.refunded + request[tx[s].req].amount
        /\ request[tx[s].req].status # "NONE"
        /\ \A t \in Sessions \ {s} : tx'[t] = tx[t]
        /\ UNCHANGED <<rows, paidOut>>
    BY <1>0, <1>6 DEF LockPayment, Move, TypeOK, Working, Started
  <2> QED
    BY <1>0, <2>1 DEF Reserved, Fresh, Holds, rows
<1>7. ASSUME NEW s \in Sessions, Refund(s)
      PROVE  Reserved' /\ Fresh' /\ Written
  <2> DEFINE r == tx[s].req
  <2>1. /\ tx[s].pc = "checked" /\ tx'[s].pc = "refunded" /\ tx'[s].req = r
        /\ tx'[s].sum = tx[s].sum /\ r \in Requests
        /\ request[r].status # "NONE"
        /\ \A t \in Sessions \ {s} : tx'[t] = tx[t]
        /\ paidOut' = [paidOut EXCEPT ![r] = @ + 1]
        /\ UNCHANGED rows
    BY <1>0, <1>7 DEF Refund, Move, TypeOK, Working, Started
  <2>2. payment.refunded + request[r].amount <= Amount
    BY <1>0, <2>1 DEF Reserved, Holds, Guarded
  <2>3. Reserved' /\ Fresh'
    BY <1>0, <2>1 DEF Reserved, Fresh, Holds, rows
  <2> HIDE DEF r
  <2> QED
    BY <2>1, <2>2, <2>3 DEF Written, Pays, rows
<1>8. ASSUME NEW s \in Sessions,
             CommitDecision(s) \/ RefuseAmount(s) \/ RefundFails(s)
      PROVE  Reserved' /\ Fresh' /\ Written
  <2> DEFINE r == tx[s].req
  <2>1. /\ tx'[s].pc = "idle" /\ tx'[s].req = None
        /\ \A t \in Sessions \ {s} : tx'[t] = tx[t]
        /\ UNCHANGED <<payment, paidOut>>
    BY <1>0, <1>8 DEF CommitDecision, RefuseAmount, RefundFails, Leave, Move, Idle, TypeOK
  <2>2. /\ r \in Requests
        /\ \A q \in Requests \ {r} : request'[q] = request[q]
        /\ request'[r].amount = request[r].amount
        /\ request'[r].status # "NONE" /\ request[r].status # "NONE"
        /\ request'[r].status # "EXECUTED"
    <3>1. CASE CommitDecision(s)
      BY <1>0, <3>1 DEF CommitDecision, Working, TypeOK, Decision, DecisionType
    <3>2. CASE RefuseAmount(s) \/ RefundFails(s)
      BY <1>0, <3>2 DEF RefuseAmount, RefundFails, Working, Started, TypeOK
    <3> QED
      BY <1>8, <3>1, <3>2
  <2> HIDE DEF r
  <2>3. Reserved' /\ Fresh'
    BY <1>0, <2>1, <2>2, Constants DEF Reserved, Fresh, Holds, Working, Started
  <2> QED
    BY <2>1, <2>2, <2>3 DEF Written, Decides
<1>9. ASSUME NEW s \in Sessions, Crash(s)
      PROVE  Reserved' /\ Fresh' /\ UNCHANGED <<rows, paidOut>>
  <2>1. /\ tx'[s].pc = "idle" /\ tx'[s].req = None
        /\ \A t \in Sessions \ {s} : tx'[t] = tx[t]
        /\ UNCHANGED <<rows, paidOut>>
    BY <1>0, <1>9 DEF Crash, Leave, Move, Idle, TypeOK
  <2> QED
    BY <1>0, <2>1, Constants DEF Reserved, Fresh, Holds, Working, rows
<1>10. ASSUME NEW s \in Sessions, CommitRefund(s)
       PROVE  Reserved' /\ Fresh' /\ Written
  <2> DEFINE r == tx[s].req
  <2>1. /\ Holds(s) /\ r \in Requests /\ request[r].status # "NONE"
        /\ tx[s].sum = payment.refunded + request[r].amount
        /\ tx'[s].pc = "idle" /\ tx'[s].req = None
        /\ \A t \in Sessions \ {s} : tx'[t] = tx[t]
        /\ \A q \in Requests \ {r} : request'[q] = request[q]
        /\ request'[r].status = "EXECUTED" /\ request'[r].amount = request[r].amount
        /\ payment'.refunded = tx[s].sum
        /\ UNCHANGED paidOut
    BY <1>0, <1>10 DEF CommitRefund, Leave, Move, Idle, TypeOK, Working, Started, Reserved, Holds
  <2>2. \A t \in Sessions \ {s} : ~ Holds(t)
    BY <1>0, <2>1 DEF Guarded
  <2>3. paidOut[r] > 0 /\ payment'.refunded <= Amount
    BY <1>0, <1>10, <2>1 DEF CommitRefund, PaidFirst, Guarded, TypeOK
  <2> HIDE DEF r
  <2>4. Reserved' /\ Fresh'
    BY <1>0, <2>1, <2>2, Constants DEF Reserved, Fresh, Holds, Working
  <2> QED
    BY <2>1, <2>3, <2>4 DEF Written, Records
<1>11. ASSUME UNCHANGED vars
       PROVE  Reserved' /\ Fresh' /\ UNCHANGED <<rows, paidOut>>
  BY <1>11 DEF vars, rows, Reserved, Fresh, Holds
<1>12. UNCHANGED <<rows, paidOut>> => Written
  BY DEF Written, rows
<1>13. ASSUME NEW s \in Sessions, RefuseMove(s)
       PROVE  Reserved' /\ Fresh' /\ UNCHANGED <<rows, paidOut>>
  <2>1. /\ tx'[s].pc = "idle" /\ tx'[s].req = None
        /\ \A t \in Sessions \ {s} : tx'[t] = tx[t]
        /\ UNCHANGED <<rows, paidOut>>
    BY <1>0, <1>13 DEF RefuseMove, Leave, Move, Idle, TypeOK
  <2> QED
    BY <1>0, <2>1, Constants DEF Reserved, Fresh, Holds, Working, rows
<1>14. ASSUME CancelPayment
       PROVE  Reserved' /\ Fresh' /\ Written
  <2>1. payment'.refunded = payment.refunded /\ UNCHANGED <<request, tx, paidOut>>
    BY <1>0, <1>14 DEF CancelPayment, TypeOK, PaymentRow
  <2> QED
    BY <2>1 DEF Reserved, Fresh, Holds, Written
<1> QED
  BY <1>13, <1>14, <1>1, <1>2, <1>3, <1>4, <1>5, <1>6, <1>7, <1>8, <1>9, <1>10, <1>11, <1>12 DEF Next, Step, Quiet

LEMMA RecordInit == Init /\ IsFiniteSet(Requests) => ExecutedIsRecorded
<1> SUFFICES ASSUME Init, IsFiniteSet(Requests) PROVE ExecutedIsRecorded
  OBVIOUS
<1>1. Executed = {} /\ payment.refunded = 0
  BY DEF Init, Executed
<1>2. PICK h : Adds(h, Asked, Requests)
  BY SumExists
<1>3. h[{}] = 0
  BY <1>2, AddsFacts
<1>4. h[Executed] <= payment.refunded
  BY <1>1, <1>3
<1> QED
  BY <1>2, <1>4, SumOfExecuted DEF SumIs

LEMMA RecordStep ==
  ASSUME IsFiniteSet(Requests), TypeOK, TypeOK', ExecutedIsRecorded, Written
  PROVE  ExecutedIsRecorded'
<1>1. CASE UNCHANGED request /\ payment'.refunded = payment.refunded
  <2>1. SumIs /\ SumIs'
    <3>1. SumIs
      BY SumOfExecuted
    <3>2. SumIs'
      BY SumOfExecuted, PTL
    <3> QED
      BY <3>1, <3>2
  <2>2. PICK h : Adds(h, Asked, Requests)
    BY SumExists
  <2>3. /\ Asked' = Asked /\ Executed' = Executed
        /\ payment'.refunded = payment.refunded
        /\ NoneNegative' <=> NoneNegative
    BY <1>1 DEF Asked, Executed, NoneNegative
  <2>4. ExecutedIsRecorded <=> (NoneNegative => h[Executed] <= payment.refunded)
    BY <2>1, <2>2 DEF SumIs
  <2>5. ExecutedIsRecorded' <=> (NoneNegative' => h[Executed'] <= payment'.refunded)
    <3>1. Adds(h, Asked', Requests)
      BY <2>2, <2>3
    <3> HIDE DEF ExecutedIsRecorded, NoneNegative
    <3> QED
      BY <2>1, <3>1 DEF SumIs
  <2> QED
    BY <2>3, <2>4, <2>5
<1>2. ASSUME NEW r \in Requests, \A q \in Requests \ {r} : request'[q] = request[q],
             Inserts(r) \/ Decides(r) \/ Records(r)
      PROVE  ExecutedIsRecorded'
  <2> SUFFICES ASSUME NoneNegative' PROVE ExecutedIsRecorded'
    BY DEF ExecutedIsRecorded, NoneNegative
  <2>3. NoneNegative
    <3> SUFFICES ASSUME NEW q \in Requests PROVE request[q].amount >= 0
      BY DEF NoneNegative
    <3>1. request'[q].amount >= 0
      BY DEF NoneNegative
    <3>2. request[q].amount = request'[q].amount \/ request[q].amount = 0
      BY <1>2 DEF Inserts, Decides, Records
    <3> QED
      BY <3>1, <3>2
  <2>1. /\ payment.refunded \in Int /\ payment'.refunded \in Int
        /\ request[r].amount \in Int /\ request[r].amount >= 0
    BY <2>3 DEF TypeOK, PaymentRow, RequestRow, NoneNegative
  <2>2. /\ request[r].status = "EXECUTED" => request'[r].amount = request[r].amount
        /\ payment'.refunded >= payment.refunded
        /\ request'[r].status = "EXECUTED" =>
             payment'.refunded >= payment.refunded + request'[r].amount
    BY <1>2, <2>1 DEF Inserts, Decides, Records
  <2> QED
    BY <1>2, <2>2, <2>3, RecordedStep
<1> QED
  BY <1>1, <1>2 DEF Written, Pays, rows

(* However refunds of one payment interleave, fail and are retried, the     *)
(* payment's refunded_amount covers every request that is EXECUTED, while no *)
(* amount is negative.                                                      *)
THEOREM NothingUnrecorded == ASSUME IsFiniteSet(Requests) PROVE Spec => []ExecutedIsRecorded
<1>1. Init => IInv /\ Reserved /\ Fresh /\ ExecutedIsRecorded
  BY InitOK, BooksInit, RecordInit
<1>2. /\ IInv /\ Reserved /\ Fresh /\ ExecutedIsRecorded
      /\ [Next]_vars
      => (IInv /\ Reserved /\ Fresh /\ ExecutedIsRecorded)'
  <2> SUFFICES ASSUME IInv, Reserved, Fresh, ExecutedIsRecorded, [Next]_vars
               PROVE  IInv' /\ Reserved' /\ Fresh' /\ ExecutedIsRecorded'
    OBVIOUS
  <2>1. IInv'
    BY StepOK
  <2>2. Reserved' /\ Fresh' /\ Written
    BY <2>1, BooksKept
  <2> QED
    BY <2>1, <2>2, RecordStep DEF IInv
<1> QED
  BY <1>1, <1>2, PTL DEF Spec
-----------------------------------------------------------------------------
(* The refinement of RefundLedger: what a step writes of the books is a step *)
(* of the ledger, or nothing that the ledger shows.                          *)
LEMMA LedgerInit == Init => Ledger!Init
<1> SUFFICES ASSUME Init PROVE Ledger!Init
  OBVIOUS
<1>1. Executed = {}
  BY DEF Init, Executed
<1> QED
  BY <1>1 DEF Init, Ledger!Init

LEMMA LedgerStep ==
  ASSUME TypeOK, TypeOK', Written
  PROVE  Ledger!Next \/ UNCHANGED Ledger!ledger
<1>1. CASE UNCHANGED <<request, paidOut>> /\ payment'.refunded = payment.refunded
  BY <1>1 DEF Ledger!ledger, Executed
<1>2. ASSUME NEW r \in Requests, \A q \in Requests \ {r} : request'[q] = request[q],
             Inserts(r) \/ Decides(r) \/ Records(r) \/ Pays(r)
      PROVE  Ledger!Next
  <2> DEFINE sums == [q \in Requests |-> request[q].amount]
             after == [q \in Requests |-> request'[q].amount]
             made  == {q \in Requests : request[q].status # "NONE"}
             now   == {q \in Requests : request'[q].status # "NONE"}
  <2>1. \A q \in Requests \ {r} : /\ request'[q].amount = request[q].amount
                                  /\ q \in Executed' <=> q \in Executed
    BY <1>2 DEF Executed
  <2>2. Executed \subseteq Requests /\ Executed' \subseteq Requests
    BY DEF Executed
  <2>3. request'[r].amount = request[r].amount => after = sums
    BY <2>1
  <2>4. r \in Executed' <=> request'[r].status = "EXECUTED"
    BY DEF Executed
  <2>9. r \in made /\ r \in now => now = made
    BY <1>2
  <2>5. CASE Inserts(r)
    <3>1. request'[r].amount \in Amounts /\ r \notin made /\ now = made \cup {r}
      BY <1>2, <2>5 DEF Inserts
    <3>2. after = [sums EXCEPT ![r] = request'[r].amount]
      BY <2>1
    <3>3. Executed' = Executed
      BY <2>1, <2>2, <2>5 DEF Inserts, Executed
    <3>4. PICK n \in Amounts : n = request'[r].amount
      BY <3>1
    <3>5. Ledger!Ask(r, n)
      BY <2>5, <3>1, <3>2, <3>3, <3>4 DEF Inserts, Ledger!Ask
    <3> QED
      BY <3>5 DEF Ledger!Next
  <2>6. CASE Decides(r)
    <3>1. after = sums /\ now = made
      BY <2>3, <2>6, <2>9 DEF Decides
    <3>2. Executed' = Executed \ {r}
      BY <2>1, <2>2, <2>4, <2>6 DEF Decides
    <3>3. Ledger!Overwrite(r)
      BY <2>6, <3>1, <3>2 DEF Decides, Ledger!Overwrite
    <3> QED
      BY <3>3 DEF Ledger!Next
  <2>7. CASE Records(r)
    <3>1. after = sums /\ now = made
      BY <2>3, <2>7, <2>9 DEF Records
    <3>2. Executed' = Executed \cup {r}
      BY <2>1, <2>2, <2>4, <2>7 DEF Records
    <3>3. Ledger!Execute(r)
      BY <2>7, <3>1, <3>2 DEF Records, Ledger!Execute
    <3> QED
      BY <3>3 DEF Ledger!Next
  <2>8. CASE Pays(r)
    <3>1. r \in made
      BY <2>8 DEF Pays
    <3>2. after = sums /\ now = made /\ Executed' = Executed /\ payment' = payment
      BY <2>8 DEF Pays, rows, Executed
    <3>3. Ledger!PayOut(r)
      BY <2>8, <3>1, <3>2 DEF Pays, Ledger!PayOut
    <3> QED
      BY <3>3 DEF Ledger!Next
  <2> QED
    BY <1>2, <2>5, <2>6, <2>7, <2>8
<1> QED
  BY <1>1, <1>2 DEF Written

(* The refund service implements the ledger, for any number of requests,    *)
(* sessions, decisions and crashes.                                         *)
THEOREM ImplementsLedger == Spec => RefundLedgerSpec
<1>1. Init => IInv /\ Reserved /\ Fresh /\ Ledger!Init
  BY InitOK, BooksInit, LedgerInit
<1>2. /\ IInv /\ Reserved /\ Fresh
      /\ [Next]_vars
      => /\ (IInv /\ Reserved /\ Fresh)'
         /\ [Ledger!Next]_(Ledger!ledger)
  <2> SUFFICES ASSUME IInv, Reserved, Fresh, [Next]_vars
               PROVE  IInv' /\ Reserved' /\ Fresh' /\ [Ledger!Next]_(Ledger!ledger)
    OBVIOUS
  <2>1. IInv'
    BY StepOK
  <2>2. Reserved' /\ Fresh' /\ Written
    BY <2>1, BooksKept
  <2> QED
    BY <2>1, <2>2, LedgerStep DEF IInv
<1> QED
  BY <1>1, <1>2, PTL DEF Spec, RefundLedgerSpec, Ledger!Spec
=============================================================================
