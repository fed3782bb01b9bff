-------------------- MODULE IntegrationConnectionsProofs --------------------
(***************************************************************************)
(* What an idempotency key promises, and that what is disconnected is      *)
(* revoked, for any number of requests, connections and keys.  The         *)
(* argument for the key: one request at a time holds it and only while it  *)
(* has no record, so that what the provider has performed is the attempts  *)
(* of that request and of those that were lost.                            *)
(***************************************************************************)
EXTENDS IntegrationConnections, TLAPS

Bounds == MaxGrants \in Nat /\ MaxCrashes \in Nat

Holding == {"running", "done"}
AtKey   == {"checked"} \cup Holding

(* What a request holds at each point.                                       *)
AtPoint ==
  \A s \in Sessions :
    /\ tx[s].pc # "idle" => tx[s].conn \in Conns
    /\ tx[s].pc \in AtKey => tx[s].key \in Keys
    /\ tx[s].acted => tx[s].pc \in Holding
    /\ tx[s].pc = "done" => tx[s].result # "NONE"
    /\ tx[s].pc = "checked" => tx[s].tries = 0

(* One request holds a key, before there is a record of it.                  *)
OneHolder ==
  \A s, t \in Sessions :
    tx[s].pc \in Holding /\ tx[t].pc \in Holding /\ tx[s].key = tx[t].key => s = t

Unrecorded == \A s \in Sessions : tx[s].pc \in Holding => exec[tx[s].key] = "NONE"

(* What one request may do, and what the lost ones may have done.            *)
Limit == [k \in Keys |-> Attempts(OperationOf[provider][k])]
Past  == [k \in Keys |-> Limit[k] * unsaved[k]]

Counted ==
  /\ \A k \in Keys :
       /\ performed[k] <= Past[k] + Limit[k]
       /\ exec[k] = "NONE" /\ (\A s \in Sessions : ~ (tx[s].pc \in Holding /\ tx[s].key = k)) =>
            performed[k] <= Past[k]
  /\ \A s \in Sessions : tx[s].pc \in Holding =>
       /\ tx[s].tries + 1 <= Limit[tx[s].key]
       /\ performed[tx[s].key] <= Past[tx[s].key] + tx[s].tries + (IF tx[s].pc = "done" THEN 1 ELSE 0)
       /\ ~ tx[s].acted => performed[tx[s].key] <= Past[tx[s].key]

IInv == TypeOK /\ AtPoint /\ OneHolder /\ Unrecorded /\ Counted /\ DisconnectedIsRevoked
-----------------------------------------------------------------------------
LEMMA Values ==
  /\ NoCred \in CredRow /\ Idle \in SessionRow
  /\ Idle.pc = "idle" /\ Idle.acted = FALSE /\ Idle.tries = 0
  /\ {"CONNECTING", "DISCONNECTED", "ACTIVE", "ERROR"} \subseteq ConnectionStatus
<1>1. NoCred \in CredRow
  BY DEF NoCred, CredRow
<1>2. {"CONNECTING", "DISCONNECTED", "ACTIVE", "ERROR"} \subseteq ConnectionStatus
  BY DEF ConnectionStatus, ALLOWED_INTEGRATION_TRANSITIONS
<1> QED
  BY <1>1, <1>2 DEF Idle, SessionRow

LEMMA Limits ==
  ASSUME TypeOK
  PROVE  /\ \A k \in Keys : Limit[k] \in {1, 3} /\ Past[k] \in Nat
         /\ \A k \in Keys : Limit[k] = IF OperationOf[provider][k] \in TriedOnce THEN 1 ELSE 3
<1>1. \A k \in Keys : Limit[k] = IF OperationOf[provider][k] \in TriedOnce THEN 1 ELSE 3
  BY DEF Limit, Attempts
<1>2. ASSUME NEW k \in Keys PROVE Past[k] \in Nat
  <2>1. Limit[k] \in {1, 3} /\ unsaved[k] \in Nat
    BY <1>1 DEF TypeOK
  <2>2. Past[k] = Limit[k] * unsaved[k]
    BY DEF Past
  <2>3. CASE Limit[k] = 1
    BY <2>1, <2>2, <2>3
  <2>4. CASE Limit[k] = 3
    BY <2>1, <2>2, <2>4
  <2> QED
    BY <2>1, <2>3, <2>4
<1> QED
  BY <1>1, <1>2

LEMMA MoveFacts ==
  ASSUME TypeOK, NEW s \in Sessions, NEW row \in SessionRow, Move(s, row)
  PROVE  /\ tx' \in [Sessions -> SessionRow]
         /\ tx'[s] = row
         /\ \A t \in Sessions : t # s => tx'[t] = tx[t]
  BY DEF TypeOK, Move

LEMMA LeaveFacts ==
  ASSUME TypeOK, NEW s \in Sessions, Leave(s)
  PROVE  Move(s, Idle) /\ lock' \in [Conns -> Sessions \cup {None}]
  BY DEF TypeOK, Leave

(* Types, and what a request holds.                                          *)
LEMMA PointStep ==
  ASSUME IInv, NEW s \in Sessions, NEW row \in SessionRow, Move(s, row),
         row.pc # "idle" => row.conn \in Conns,
         row.pc \in AtKey => row.key \in Keys,
         row.acted => row.pc \in Holding,
         row.pc = "done" => row.result # "NONE",
         row.pc = "checked" => row.tries = 0,
         UNCHANGED provider,
         conn' \in [Conns -> {"NONE"} \cup ConnectionStatus], cred' \in [Conns -> CredRow],
         exec' \in [Keys -> {"NONE", "COMPLETED", "FAILED"}],
         lock' \in [Conns -> Sessions \cup {None}],
         performed' \in [Keys -> Nat], unsaved' \in [Keys -> Nat],
         grants' \in 0..MaxGrants, crashes' \in 0..MaxCrashes
  PROVE  TypeOK' /\ AtPoint'
<1>1. /\ tx' \in [Sessions -> SessionRow] /\ tx'[s] = row
      /\ \A t \in Sessions : t # s => tx'[t] = tx[t]
  BY MoveFacts DEF IInv
<1>2. TypeOK'
  BY <1>1 DEF IInv, TypeOK
<1>3. AtPoint'
  <2> SUFFICES ASSUME NEW t \in Sessions
               PROVE  /\ tx'[t].pc # "idle" => tx'[t].conn \in Conns
                      /\ tx'[t].pc \in AtKey => tx'[t].key \in Keys
                      /\ tx'[t].acted => tx'[t].pc \in Holding
                      /\ tx'[t].pc = "done" => tx'[t].result # "NONE"
                      /\ tx'[t].pc = "checked" => tx'[t].tries = 0
    BY DEF AtPoint
  <2>1. CASE t = s
    BY <1>1, <2>1
  <2>2. CASE t # s
    BY <1>1, <2>2 DEF IInv, AtPoint
  <2> QED
    BY <2>1, <2>2
<1> QED
  BY <1>2, <1>3

(* Steps that take no key, give none back, and perform nothing.              *)
LEMMA CalmStep ==
  ASSUME IInv, NEW s \in Sessions, NEW row \in SessionRow, Move(s, row),
         UNCHANGED <<provider, exec, performed, unsaved>>,
         tx[s].pc \in Holding <=> row.pc \in Holding,
         row.pc \in Holding => /\ row.pc = tx[s].pc /\ row.key = tx[s].key
                               /\ row.tries = tx[s].tries /\ row.acted = tx[s].acted
  PROVE  OneHolder' /\ Unrecorded' /\ Counted'
<1>1. /\ tx'[s] = row
      /\ \A t \in Sessions : t # s => tx'[t] = tx[t]
  BY MoveFacts DEF IInv
<1>2. Limit' = Limit /\ Past' = Past
  BY DEF Limit, Past
<1>3. OneHolder' /\ Unrecorded'
  BY <1>1 DEF IInv, OneHolder, Unrecorded
<1>4. \A k \in Keys : (\A t \in Sessions : ~ (tx'[t].pc \in Holding /\ tx'[t].key = k)) =>
                      (\A t \in Sessions : ~ (tx[t].pc \in Holding /\ tx[t].key = k))
  BY <1>1
<1>5. \A k \in Keys :
        /\ performed[k] <= Past[k] + Limit[k]
        /\ exec[k] = "NONE" /\ (\A t \in Sessions : ~ (tx'[t].pc \in Holding /\ tx'[t].key = k)) =>
             performed[k] <= Past[k]
  BY <1>4 DEF IInv, Counted
<1>6. ASSUME NEW t \in Sessions, tx'[t].pc \in Holding
      PROVE  /\ tx'[t].tries + 1 <= Limit[tx'[t].key]
             /\ performed[tx'[t].key] <= Past[tx'[t].key] + tx'[t].tries + (IF tx'[t].pc = "done" THEN 1 ELSE 0)
             /\ ~ tx'[t].acted => performed[tx'[t].key] <= Past[tx'[t].key]
  BY <1>1, <1>6 DEF IInv, Counted
<1>7. Counted'
  BY <1>2, <1>5, <1>6 DEF Counted
<1> QED
  BY <1>3, <1>7

(* A request goes on, or ends, without holding a key: what it reads and      *)
(* writes of a connection.                                                   *)
LEMMA OtherStep ==
  ASSUME Bounds, IInv, NEW s \in Sessions, NEW row \in SessionRow, Move(s, row),
         UNCHANGED <<provider, exec, performed, unsaved>>,
         tx[s].pc \notin Holding, row.pc \notin Holding, ~ row.acted,
         row.pc # "idle" => row.conn \in Conns, row.pc = "checked" => row.key \in Keys /\ row.tries = 0,
         conn' \in [Conns -> {"NONE"} \cup ConnectionStatus], cred' \in [Conns -> CredRow],
         lock' \in [Conns -> Sessions \cup {None}],
         grants' \in 0..MaxGrants, crashes' \in 0..MaxCrashes,
         DisconnectedIsRevoked'
  PROVE  IInv'
<1>1. TypeOK' /\ AtPoint'
  <2>1. exec' \in [Keys -> {"NONE", "COMPLETED", "FAILED"}]
        /\ performed' \in [Keys -> Nat] /\ unsaved' \in [Keys -> Nat]
    BY DEF IInv, TypeOK
  <2>2. (row.pc \in AtKey => row.key \in Keys) /\ (row.pc = "done" => row.result # "NONE")
        /\ (row.pc = "checked" => row.tries = 0)
    BY DEF AtKey, Holding
  <2> QED
    BY <2>1, <2>2, PointStep
<1>2. OneHolder' /\ Unrecorded' /\ Counted'
  BY CalmStep
<1> QED
  BY <1>1, <1>2 DEF IInv

LEMMA Ended ==
  ASSUME Bounds, IInv, NEW s \in Sessions, Leave(s), tx[s].pc \notin Holding,
         UNCHANGED <<provider, conn, cred, exec, performed, unsaved, grants>>,
         crashes' \in 0..MaxCrashes
  PROVE  IInv'
<1>1. /\ Idle \in SessionRow /\ Idle.pc = "idle" /\ Idle.acted = FALSE
      /\ Move(s, Idle) /\ lock' \in [Conns -> Sessions \cup {None}]
  BY Values, LeaveFacts DEF IInv
<1> HIDE DEF Idle
<1>2. DisconnectedIsRevoked' /\ conn' \in [Conns -> {"NONE"} \cup ConnectionStatus]
      /\ cred' \in [Conns -> CredRow] /\ grants' \in 0..MaxGrants
  BY DEF IInv, TypeOK, DisconnectedIsRevoked
<1> QED
  BY <1>1, <1>2, OtherStep DEF Holding

(* The rows with which a request begins, or goes on.                         *)
LEMMA Begun ==
  ASSUME Bounds, IInv, NEW s \in Sessions, tx[s].pc \notin Holding, NEW c \in Conns,
         NEW pc \in {"connecting", "disconnecting", "verifying"},
         Move(s, [Idle EXCEPT !.pc = pc, !.conn = c, !.status = conn[c]]),
         UNCHANGED <<provider, conn, cred, exec, lock, grants, performed, unsaved, crashes>>
  PROVE  IInv'
<1> DEFINE row == [Idle EXCEPT !.pc = pc, !.conn = c, !.status = conn[c]]
<1>1. row \in SessionRow /\ row.pc = pc /\ row.conn = c /\ row.acted = FALSE
  <2>1. conn[c] \in {"NONE"} \cup ConnectionStatus
    BY DEF IInv, TypeOK
  <2> HIDE DEF Idle
  <2>2. \A r \in SessionRow : LET n == [r EXCEPT !.pc = pc, !.conn = c, !.status = conn[c]] IN
          n \in SessionRow /\ n.pc = pc /\ n.conn = c /\ n.acted = r.acted
    BY <2>1 DEF SessionRow
  <2> QED
    BY <2>2, Values
<1>2. Move(s, row)
  OBVIOUS
<1> HIDE DEF row
<1>3. DisconnectedIsRevoked' /\ conn' \in [Conns -> {"NONE"} \cup ConnectionStatus]
      /\ cred' \in [Conns -> CredRow] /\ grants' \in 0..MaxGrants /\ crashes' \in 0..MaxCrashes
      /\ lock' \in [Conns -> Sessions \cup {None}]
  BY DEF IInv, TypeOK, DisconnectedIsRevoked
<1>4. row.pc \notin Holding /\ row.pc # "checked"
  BY <1>1 DEF Holding
<1> QED
  BY <1>1, <1>2, <1>3, <1>4, OtherStep

LEMMA Connecting ==
  ASSUME Bounds, IInv, NEW s \in Sessions, ReadCredential(s) \/ FlushConnection(s)
  PROVE  IInv'
<1> DEFINE c == tx[s].conn
           staged    == [tx[s] EXCEPT !.pc = "staging", !.cred = cred[c]]
           connected == [tx[s] EXCEPT !.pc = "connected"]
<1>1. /\ tx[s] \in SessionRow /\ tx[s].pc \in {"connecting", "staging"} /\ c \in Conns /\ ~ tx[s].acted
      /\ UNCHANGED <<provider, conn, cred, exec, grants, performed, unsaved, crashes>>
  BY DEF ReadCredential, FlushConnection, IInv, TypeOK, AtPoint, Holding
<1>2. PICK row \in {staged, connected} : Move(s, row)
  BY DEF ReadCredential, FlushConnection
<1>3. lock' \in [Conns -> Sessions \cup {None}]
  BY <1>1 DEF ReadCredential, FlushConnection, IInv, TypeOK
<1>4. row \in SessionRow /\ row.pc \in {"staging", "connected"} /\ row.conn = c /\ row.acted = tx[s].acted
  <2>1. cred[c] \in CredRow
    BY <1>1 DEF IInv, TypeOK
  <2>2. CASE row = staged
    BY <1>1, <2>1, <2>2 DEF SessionRow
  <2>3. CASE row = connected
    BY <1>1, <2>3 DEF SessionRow
  <2> QED
    BY <2>2, <2>3
<1>5. DisconnectedIsRevoked' /\ conn' \in [Conns -> {"NONE"} \cup ConnectionStatus]
      /\ cred' \in [Conns -> CredRow] /\ grants' \in 0..MaxGrants /\ crashes' \in 0..MaxCrashes
  BY <1>1 DEF IInv, TypeOK, DisconnectedIsRevoked
<1> QED
  BY <1>1, <1>2, <1>3, <1>4, <1>5, OtherStep DEF Holding

(* The commits that write a connection: none leaves it disconnected with a   *)
(* credential that is not revoked.                                           *)
LEMMA Stored ==
  ASSUME Bounds, IInv, NEW s \in Sessions, NEW status \in {"ACTIVE", "ERROR"},
         CommitConnection(s, status) \/ CommitDisconnection(s) \/ CommitVerification(s, status)
  PROVE  IInv'
<1> DEFINE c == tx[s].conn
<1>1. /\ tx[s].pc \in {"connected", "disconnecting", "verifying"} /\ c \in Conns /\ tx[s].cred \in CredRow
      /\ UNCHANGED <<provider, exec, performed, unsaved, crashes>> /\ Leave(s)
  BY DEF CommitConnection, CommitDisconnection, CommitVerification, IInv, TypeOK, AtPoint, SessionRow
<1>2. /\ Idle \in SessionRow /\ Idle.pc = "idle" /\ Idle.acted = FALSE
      /\ Move(s, Idle) /\ lock' \in [Conns -> Sessions \cup {None}]
  BY <1>1, Values, LeaveFacts DEF IInv
<1> HIDE DEF Idle
<1>3. /\ conn \in [Conns -> {"NONE"} \cup ConnectionStatus] /\ cred \in [Conns -> CredRow]
      /\ grants \in 0..MaxGrants /\ crashes \in 0..MaxCrashes
      /\ \A d \in Conns : conn[d] = "DISCONNECTED" => cred[d].revoked
  BY DEF IInv, TypeOK, DisconnectedIsRevoked
<1>4. /\ conn' \in [Conns -> {"NONE"} \cup ConnectionStatus] /\ cred' \in [Conns -> CredRow]
      /\ grants' \in 0..MaxGrants /\ DisconnectedIsRevoked'
  <2>1. CASE CommitConnection(s, status)
    <3> DEFINE new == [grant |-> grants + 1, revoked |-> cred[c].revoked /\ ~ tx[s].cred.revoked]
    <3>1. /\ grants < MaxGrants /\ grants' = grants + 1
          /\ conn' = [conn EXCEPT ![c] = status] /\ cred' = [cred EXCEPT ![c] = new]
      BY <2>1 DEF CommitConnection
    <3>2. new \in CredRow
      <4>1. (cred[c].revoked /\ ~ tx[s].cred.revoked) \in BOOLEAN
        BY Zenon
      <4> QED
        BY <1>3, <4>1 DEF CredRow
    <3>3. grants' \in 0..MaxGrants
      BY <1>3, <3>1 DEF Bounds
    <3> HIDE DEF new
    <3>4. conn' \in [Conns -> {"NONE"} \cup ConnectionStatus] /\ cred' \in [Conns -> CredRow]
      BY <1>1, <1>3, <3>1, <3>2, Values
    <3>5. DisconnectedIsRevoked'
      BY <1>1, <1>3, <3>1 DEF DisconnectedIsRevoked
    <3> QED
      BY <3>3, <3>4, <3>5
  <2>2. CASE CommitDisconnection(s)
    <3> DEFINE new == [cred[c] EXCEPT !.revoked = TRUE]
    <3>1. /\ grants' = grants
          /\ \A d \in Conns : d # c => conn'[d] = conn[d]
          /\ conn' \in [Conns -> {"NONE"} \cup ConnectionStatus]
          /\ cred' = [cred EXCEPT ![c] = new]
      BY <1>1, <1>3, <2>2, Values DEF CommitDisconnection
    <3>2. new \in CredRow /\ new.revoked = TRUE
      BY <1>1, <1>3 DEF CredRow
    <3> HIDE DEF new
    <3>3. cred' \in [Conns -> CredRow] /\ cred'[c] = new /\ \A d \in Conns : d # c => cred'[d] = cred[d]
      BY <1>1, <1>3, <3>1, <3>2
    <3>4. DisconnectedIsRevoked'
      BY <1>3, <3>1, <3>2, <3>3 DEF DisconnectedIsRevoked
    <3> QED
      BY <1>3, <3>1, <3>3, <3>4
  <2>3. CASE CommitVerification(s, status)
    <3>1. /\ UNCHANGED <<cred, grants>>
          /\ conn' = conn \/ conn' = [conn EXCEPT ![c] = status]
      BY <1>1, <1>3, <2>3 DEF CommitVerification
    <3>2. conn' \in [Conns -> {"NONE"} \cup ConnectionStatus]
      BY <1>3, <3>1, Values
    <3>3. DisconnectedIsRevoked'
      BY <1>1, <1>3, <3>1 DEF DisconnectedIsRevoked
    <3> QED
      BY <1>3, <3>1, <3>2, <3>3
  <2> QED
    BY <2>1, <2>2, <2>3
<1> QED
  BY <1>1, <1>2, <1>3, <1>4, OtherStep DEF Holding

LEMMA OperationStarted ==
  ASSUME Bounds, IInv, NEW s \in Sessions, NEW k \in Keys, NEW c \in Conns, StartOperation(s, k, c)
  PROVE  IInv'
<1> DEFINE row == [Idle EXCEPT !.pc = "checked", !.conn = c, !.status = conn[c], !.cred = cred[c], !.key = k]
<1>1. row \in SessionRow /\ row.pc = "checked" /\ row.conn = c /\ row.key = k /\ row.acted = FALSE /\ row.tries = 0
  <2>1. conn[c] \in {"NONE"} \cup ConnectionStatus /\ cred[c] \in CredRow
    BY DEF IInv, TypeOK
  <2> HIDE DEF Idle
  <2>2. \A r \in SessionRow :
          LET n == [r EXCEPT !.pc = "checked", !.conn = c, !.status = conn[c], !.cred = cred[c], !.key = k] IN
          n \in SessionRow /\ n.pc = "checked" /\ n.conn = c /\ n.key = k /\ n.acted = r.acted /\ n.tries = r.tries
    BY <2>1 DEF SessionRow
  <2> QED
    BY <2>2, Values
<1>2. /\ tx[s].pc = "idle" /\ Move(s, row)
      /\ UNCHANGED <<provider, conn, cred, exec, lock, grants, performed, unsaved, crashes>>
  BY DEF StartOperation
<1> HIDE DEF row
<1>3. DisconnectedIsRevoked' /\ conn' \in [Conns -> {"NONE"} \cup ConnectionStatus]
      /\ cred' \in [Conns -> CredRow] /\ grants' \in 0..MaxGrants /\ crashes' \in 0..MaxCrashes
      /\ lock' \in [Conns -> Sessions \cup {None}]
  BY <1>2 DEF IInv, TypeOK, DisconnectedIsRevoked
<1>4. row.pc \notin Holding /\ tx[s].pc \notin Holding
  BY <1>1, <1>2 DEF Holding
<1> QED
  BY <1>1, <1>2, <1>3, <1>4, OtherStep

(* The requests that hold a key after a step of s, which keeps its own.      *)
LEMMA Attempted ==
  ASSUME IInv, NEW s \in Sessions, NEW row \in SessionRow, Move(s, row), tx[s].pc = "running",
         UNCHANGED <<provider, conn, cred, exec, lock, grants, unsaved, crashes>>,
         row.conn = tx[s].conn, row.key = tx[s].key,
         \/ row.pc = "running" /\ row.tries = tx[s].tries + 1 /\ row.tries + 1 <= Limit[row.key]
         \/ row.pc = "done" /\ row.tries = tx[s].tries /\ row.result # "NONE",
         \/ performed' = performed /\ row.acted = tx[s].acted
         \/ performed' = [performed EXCEPT ![tx[s].key] = @ + 1] /\ row.acted
  PROVE  IInv'
<1> DEFINE k == tx[s].key
<1>1. /\ tx[s] \in SessionRow /\ tx[s].conn \in Conns /\ k \in Keys /\ tx[s].tries \in Nat
      /\ performed \in [Keys -> Nat] /\ unsaved \in [Keys -> Nat]
  BY DEF IInv, TypeOK, AtPoint, AtKey, Holding, SessionRow
<1>2. /\ performed' \in [Keys -> Nat]
      /\ performed'[k] \in {performed[k], performed[k] + 1}
      /\ \A j \in Keys : j # k => performed'[j] = performed[j]
      /\ ~ row.acted => performed'[k] = performed[k] /\ ~ tx[s].acted
  BY <1>1
<1>3. TypeOK' /\ AtPoint'
  <2>1. /\ row.pc # "idle" => row.conn \in Conns
        /\ row.pc \in AtKey => row.key \in Keys
        /\ row.acted => row.pc \in Holding
        /\ row.pc = "done" => row.result # "NONE"
        /\ row.pc = "checked" => row.tries = 0
    BY <1>1 DEF Holding
  <2>2. /\ conn' \in [Conns -> {"NONE"} \cup ConnectionStatus] /\ cred' \in [Conns -> CredRow]
        /\ exec' \in [Keys -> {"NONE", "COMPLETED", "FAILED"}]
        /\ lock' \in [Conns -> Sessions \cup {None}] /\ unsaved' \in [Keys -> Nat]
        /\ grants' \in 0..MaxGrants /\ crashes' \in 0..MaxCrashes
    BY DEF IInv, TypeOK
  <2> QED
    BY <1>2, <2>1, <2>2, PointStep
<1>4. /\ tx'[s] = row /\ tx[s].pc \in Holding /\ row.pc \in Holding
      /\ \A t \in Sessions : t # s => tx'[t] = tx[t]
  BY MoveFacts DEF IInv, Holding
<1>5. OneHolder' /\ Unrecorded'
  BY <1>4 DEF IInv, OneHolder, Unrecorded
<1>6. /\ Limit' = Limit /\ Past' = Past
      /\ \A j \in Keys : Limit[j] \in {1, 3} /\ Past[j] \in Nat
  BY Limits DEF IInv, Limit, Past
<1> HIDE DEF k
<1>7. /\ tx[s].tries + 1 <= Limit[k] /\ performed[k] <= Past[k] + tx[s].tries
      /\ ~ tx[s].acted => performed[k] <= Past[k]
  BY <1>1, <1>4, <1>6 DEF IInv, Counted, k
<1>8. ASSUME NEW j \in Keys
      PROVE  /\ performed'[j] <= Past[j] + Limit[j]
             /\ exec[j] = "NONE" /\ (\A t \in Sessions : ~ (tx'[t].pc \in Holding /\ tx'[t].key = j)) =>
                  performed'[j] <= Past[j]
  <2>1. CASE j = k
    BY <1>1, <1>2, <1>4, <1>6, <1>7, <2>1 DEF k
  <2>2. CASE j # k
    <3>1. (\A t \in Sessions : ~ (tx'[t].pc \in Holding /\ tx'[t].key = j)) =>
            (\A t \in Sessions : ~ (tx[t].pc \in Holding /\ tx[t].key = j))
      BY <1>4, <2>2 DEF k
    <3> QED
      BY <1>2, <2>2, <3>1 DEF IInv, Counted
  <2> QED
    BY <2>1, <2>2
<1>9. ASSUME NEW t \in Sessions, tx'[t].pc \in Holding
      PROVE  /\ tx'[t].tries + 1 <= Limit[tx'[t].key]
             /\ performed'[tx'[t].key] <= Past[tx'[t].key] + tx'[t].tries + (IF tx'[t].pc = "done" THEN 1 ELSE 0)
             /\ ~ tx'[t].acted => performed'[tx'[t].key] <= Past[tx'[t].key]
  <2>1. CASE t = s
    BY <1>1, <1>2, <1>4, <1>6, <1>7, <2>1 DEF k
  <2>2. CASE t # s
    <3>1. tx'[t] = tx[t] /\ tx[t].pc \in Holding /\ tx[t].key # k /\ tx[t].key \in Keys
      BY <1>4, <1>9, <2>2 DEF IInv, OneHolder, AtPoint, AtKey, k
    <3> QED
      BY <1>2, <3>1 DEF IInv, Counted
  <2> QED
    BY <2>1, <2>2
<1>10. Counted'
  BY <1>6, <1>8, <1>9 DEF Counted
<1>11. DisconnectedIsRevoked'
  BY DEF IInv, DisconnectedIsRevoked
<1> QED
  BY <1>3, <1>5, <1>10, <1>11 DEF IInv

(* An attempt at the operation, whatever comes of it.                        *)
LEMMA OperationTried ==
  ASSUME IInv, NEW s \in Sessions, OperationSucceeds(s) \/ OperationFails(s) \/ OperationRefused(s)
  PROVE  IInv'
<1>1. /\ tx[s].pc = "running" /\ tx[s] \in SessionRow /\ tx[s].key \in Keys /\ tx[s].tries \in 0..3
      /\ UNCHANGED <<provider, conn, cred, exec, lock, grants, unsaved, crashes>>
  BY DEF OperationSucceeds, OperationFails, OperationRefused, IInv, TypeOK, AtPoint, AtKey, Holding, SessionRow
<1>2. CASE OperationSucceeds(s) \/ OperationRefused(s)
  <2>1. PICK result \in {"COMPLETED", "FAILED"}, acted \in BOOLEAN :
          /\ Finish(s, result, acted)
          /\ \/ performed' = performed /\ acted = FALSE
             \/ performed' = [performed EXCEPT ![tx[s].key] = @ + 1] /\ acted = TRUE
    BY <1>2 DEF OperationSucceeds, OperationRefused, Perform
  <2> DEFINE row == [tx[s] EXCEPT !.pc = "done", !.result = result, !.acted = @ \/ acted]
  <2>2. row.acted = (tx[s].acted \/ acted) /\ tx[s].acted \in BOOLEAN
    BY <1>1 DEF SessionRow
  <2>3. row.acted \in BOOLEAN /\ (acted = TRUE => row.acted) /\ (acted = FALSE => row.acted = tx[s].acted)
    BY <2>1, <2>2, Zenon
  <2>4. /\ row \in SessionRow /\ row.conn = tx[s].conn /\ row.key = tx[s].key
        /\ row.pc = "done" /\ row.tries = tx[s].tries /\ row.result # "NONE"
    BY <1>1, <2>1, <2>3 DEF SessionRow
  <2>5. Move(s, row)
    BY <2>1 DEF Finish
  <2> HIDE DEF row
  <2> QED
    BY <1>1, <2>1, <2>3, <2>4, <2>5, Attempted
<1>3. CASE OperationFails(s)
  <2> DEFINE tried == [tx[s] EXCEPT !.tries = @ + 1]
             acted == [tx[s] EXCEPT !.tries = @ + 1, !.acted = TRUE]
  <2>1. tx[s].tries + 1 < Limit[tx[s].key] /\ Limit[tx[s].key] \in {1, 3}
    BY <1>1, <1>3, Limits DEF OperationFails, Asked, Limit, IInv
  <2>2. \/ performed' = performed /\ Move(s, tried)
        \/ performed' = [performed EXCEPT ![tx[s].key] = @ + 1] /\ Move(s, acted)
    BY <1>3 DEF OperationFails, Perform
  <2>3. \A row \in {tried, acted} :
          /\ row \in SessionRow /\ row.conn = tx[s].conn /\ row.key = tx[s].key /\ row.pc = "running"
          /\ row.tries = tx[s].tries + 1 /\ row.tries + 1 <= Limit[row.key]
    <3>1. tx[s].tries + 1 \in 0..3
      BY <1>1, <2>1
    <3>2. \A r \in SessionRow : \A n \in {[r EXCEPT !.tries = tx[s].tries + 1],
                                        [r EXCEPT !.tries = tx[s].tries + 1, !.acted = TRUE]} :
            /\ n \in SessionRow /\ n.conn = r.conn /\ n.key = r.key /\ n.pc = r.pc
            /\ n.tries = tx[s].tries + 1
      BY <3>1 DEF SessionRow
    <3>3. \A row \in {tried, acted} :
            /\ row \in SessionRow /\ row.conn = tx[s].conn /\ row.key = tx[s].key /\ row.pc = "running"
            /\ row.tries = tx[s].tries + 1
      BY <1>1, <3>2
    <3>4. tx[s].tries + 1 + 1 <= Limit[tx[s].key]
      BY <1>1, <2>1
    <3> HIDE DEF tried, acted
    <3> QED
      BY <3>3, <3>4
  <2>4. tried.acted = tx[s].acted /\ acted.acted
    BY <1>1 DEF SessionRow
  <2> HIDE DEF tried, acted
  <2>5. CASE performed' = performed /\ Move(s, tried)
    BY <1>1, <2>3, <2>4, <2>5, Attempted
  <2>6. CASE performed' = [performed EXCEPT ![tx[s].key] = @ + 1] /\ Move(s, acted)
    BY <1>1, <2>3, <2>4, <2>6, Attempted
  <2> QED
    BY <2>2, <2>5, <2>6
<1> QED
  BY <1>2, <1>3

(* The key is taken when no request holds it and there is no record of it.   *)
LEMMA KeyReserved ==
  ASSUME Bounds, IInv, NEW s \in Sessions, ReserveKey(s)
  PROVE  IInv'
<1> DEFINE k == tx[s].key
           row == [tx[s] EXCEPT !.pc = "running"]
<1>1. /\ tx[s].pc = "checked" /\ tx[s] \in SessionRow /\ tx[s].conn \in Conns /\ k \in Keys
      /\ tx[s].tries = 0 /\ ~ tx[s].acted /\ tx[s].pc \notin Holding
      /\ \A t \in Sessions : tx[t].key = k => tx[t].pc \notin Holding
      /\ UNCHANGED <<provider, conn, cred, exec, grants, performed, unsaved, crashes>>
  BY DEF ReserveKey, IInv, TypeOK, AtPoint, AtKey, Holding
<1>2. CASE exec[k] # "NONE"
  <2>1. Leave(s) /\ crashes' \in 0..MaxCrashes
    BY <1>1, <1>2 DEF ReserveKey, IInv, TypeOK
  <2> QED
    BY <1>1, <2>1, Ended
<1>3. CASE exec[k] = "NONE"
  <2>1. Move(s, row) /\ UNCHANGED lock
    BY <1>3 DEF ReserveKey
  <2>2. /\ row \in SessionRow /\ row.pc = "running" /\ row.conn = tx[s].conn /\ row.key = k
        /\ row.tries = 0 /\ ~ row.acted
    BY <1>1 DEF SessionRow
  <2> HIDE DEF row
  <2>3. /\ tx'[s] = row /\ row.pc \in Holding /\ row.pc # "done"
        /\ \A t \in Sessions : t # s => tx'[t] = tx[t]
    BY <2>1, <2>2, MoveFacts DEF IInv, Holding
  <2>4. TypeOK' /\ AtPoint'
    <3>1. /\ conn' \in [Conns -> {"NONE"} \cup ConnectionStatus] /\ cred' \in [Conns -> CredRow]
          /\ exec' \in [Keys -> {"NONE", "COMPLETED", "FAILED"}]
          /\ lock' \in [Conns -> Sessions \cup {None}] /\ unsaved' \in [Keys -> Nat]
          /\ performed' \in [Keys -> Nat] /\ grants' \in 0..MaxGrants /\ crashes' \in 0..MaxCrashes
      BY <1>1, <2>1 DEF IInv, TypeOK
    <3> QED
      BY <1>1, <2>1, <2>2, <2>3, <3>1, PointStep
  <2>5. OneHolder' /\ Unrecorded'
    BY <1>1, <1>3, <2>2, <2>3 DEF IInv, OneHolder, Unrecorded
  <2>6. /\ Limit' = Limit /\ Past' = Past
        /\ \A j \in Keys : Limit[j] \in {1, 3} /\ Past[j] \in Nat
    BY <1>1, Limits DEF IInv, Limit, Past
  <2>7. performed[k] <= Past[k] /\ performed[k] \in Nat
    BY <1>1, <1>3 DEF IInv, Counted, TypeOK
  <2>8. ASSUME NEW j \in Keys
        PROVE  /\ performed[j] <= Past[j] + Limit[j]
               /\ exec[j] = "NONE" /\ (\A t \in Sessions : ~ (tx'[t].pc \in Holding /\ tx'[t].key = j)) =>
                    performed[j] <= Past[j]
    <3>1. (\A t \in Sessions : ~ (tx'[t].pc \in Holding /\ tx'[t].key = j)) =>
            (\A t \in Sessions : ~ (tx[t].pc \in Holding /\ tx[t].key = j))
      BY <1>1, <2>3
    <3> QED
      BY <3>1 DEF IInv, Counted
  <2>9. ASSUME NEW t \in Sessions, tx'[t].pc \in Holding
        PROVE  /\ tx'[t].tries + 1 <= Limit[tx'[t].key]
               /\ performed[tx'[t].key] <= Past[tx'[t].key] + tx'[t].tries + (IF tx'[t].pc = "done" THEN 1 ELSE 0)
               /\ ~ tx'[t].acted => performed[tx'[t].key] <= Past[tx'[t].key]
    <3>1. CASE t = s
      BY <1>1, <2>2, <2>3, <2>6, <2>7, <3>1
    <3>2. CASE t # s
      BY <2>3, <2>9, <3>2 DEF IInv, Counted
    <3> QED
      BY <3>1, <3>2
  <2>10. Counted'
    BY <1>1, <2>6, <2>8, <2>9 DEF Counted
  <2>11. DisconnectedIsRevoked'
    BY <1>1 DEF IInv, DisconnectedIsRevoked
  <2> QED
    BY <2>4, <2>5, <2>10, <2>11 DEF IInv
<1> QED
  BY <1>2, <1>3

(* A key is given up: with a record of it, or counted as lost if the         *)
(* provider had been reached.                                                *)
LEMMA KeyGivenUp ==
  ASSUME Bounds, IInv, NEW s \in Sessions, Leave(s), tx[s].pc \in Holding,
         UNCHANGED <<provider, conn, performed, grants>>, crashes' \in 0..MaxCrashes,
         cred' \in [Conns -> CredRow], \A c \in Conns : cred'[c].revoked = cred[c].revoked,
         \/ /\ exec' = [exec EXCEPT ![tx[s].key] = tx[s].result]
            /\ tx[s].result # "NONE" /\ UNCHANGED unsaved
         \/ /\ UNCHANGED exec
            /\ unsaved' = IF tx[s].acted THEN [unsaved EXCEPT ![tx[s].key] = @ + 1] ELSE unsaved
  PROVE  IInv'
<1> DEFINE k == tx[s].key
<1>1. /\ tx[s] \in SessionRow /\ k \in Keys /\ tx[s].tries \in Nat /\ tx[s].acted \in BOOLEAN
      /\ tx[s].result \in {"NONE", "COMPLETED", "FAILED"}
      /\ performed \in [Keys -> Nat] /\ unsaved \in [Keys -> Nat]
      /\ exec \in [Keys -> {"NONE", "COMPLETED", "FAILED"}]
  BY DEF IInv, TypeOK, AtPoint, AtKey, SessionRow
<1>2. /\ Idle \in SessionRow /\ Idle.pc = "idle" /\ Idle.acted = FALSE
      /\ Move(s, Idle) /\ lock' \in [Conns -> Sessions \cup {None}]
  BY Values, LeaveFacts DEF IInv
<1> HIDE DEF Idle
<1>3. /\ tx'[s] = Idle
      /\ \A t \in Sessions : t # s => tx'[t] = tx[t]
  BY <1>2, MoveFacts DEF IInv
<1>4. /\ exec' \in [Keys -> {"NONE", "COMPLETED", "FAILED"}] /\ unsaved' \in [Keys -> Nat]
      /\ \A j \in Keys : j # k => exec'[j] = exec[j] /\ unsaved'[j] = unsaved[j]
  BY <1>1
<1>5. TypeOK' /\ AtPoint'
  <2>1. /\ conn' \in [Conns -> {"NONE"} \cup ConnectionStatus] /\ performed' \in [Keys -> Nat]
        /\ grants' \in 0..MaxGrants
    BY DEF IInv, TypeOK
  <2> QED
    BY <1>2, <1>4, <2>1, PointStep DEF AtKey, Holding
<1>6. \A t \in Sessions : tx'[t].pc \in Holding =>
        t # s /\ tx'[t] = tx[t] /\ tx[t].key # k /\ tx[t].key \in Keys
  BY <1>2, <1>3 DEF IInv, OneHolder, AtPoint, AtKey, Holding
<1>7. OneHolder' /\ Unrecorded'
  BY <1>4, <1>6 DEF IInv, OneHolder, Unrecorded
<1>8. /\ Limit' = Limit
      /\ \A j \in Keys : Limit[j] \in {1, 3} /\ Past[j] \in Nat
      /\ \A j \in Keys : j # k => Past'[j] = Past[j]
  BY <1>4, Limits DEF IInv, Limit, Past
<1>9. Past'[k] = Past[k] + (IF unsaved'[k] = unsaved[k] THEN 0 ELSE Limit[k])
  <2>1. Past'[k] = Limit[k] * unsaved'[k] /\ Past[k] = Limit[k] * unsaved[k]
    BY <1>1, <1>8 DEF Past
  <2>2. unsaved[k] \in Nat /\ unsaved'[k] \in {unsaved[k], unsaved[k] + 1} /\ Limit[k] \in {1, 3}
    BY <1>1, <1>8
  <2> HIDE DEF k
  <2>3. CASE Limit[k] = 1
    BY <2>1, <2>2, <2>3
  <2>4. CASE Limit[k] = 3
    BY <2>1, <2>2, <2>4
  <2> QED
    BY <2>2, <2>3, <2>4
<1>10. /\ performed[k] <= Past[k] + Limit[k]
       /\ ~ tx[s].acted => performed[k] <= Past[k]
  BY <1>1 DEF IInv, Counted
<1>11. exec'[k] = "NONE" => (~ tx[s].acted \/ unsaved'[k] = unsaved[k] + 1)
  BY <1>1
<1>12. ASSUME NEW j \in Keys
       PROVE  /\ performed[j] <= Past'[j] + Limit[j]
              /\ exec'[j] = "NONE" /\ (\A t \in Sessions : ~ (tx'[t].pc \in Holding /\ tx'[t].key = j)) =>
                   performed[j] <= Past'[j]
  <2>1. CASE j = k
    <3>1. /\ performed[k] \in Nat /\ unsaved[k] \in Nat /\ Past[k] \in Nat /\ Limit[k] \in {1, 3}
          /\ unsaved'[k] = unsaved[k] + 1 => unsaved'[k] # unsaved[k]
      BY <1>1, <1>8
    <3>2. performed[k] <= Past'[k] + Limit[k]
      BY <1>9, <1>10, <3>1
    <3>3. exec'[k] = "NONE" => performed[k] <= Past'[k]
      BY <1>9, <1>10, <1>11, <3>1
    <3> QED
      BY <2>1, <3>2, <3>3
  <2>2. CASE j # k
    <3>1. (\A t \in Sessions : ~ (tx'[t].pc \in Holding /\ tx'[t].key = j)) =>
            (\A t \in Sessions : ~ (tx[t].pc \in Holding /\ tx[t].key = j))
      BY <1>3, <2>2
    <3> QED
      BY <1>4, <1>8, <2>2, <3>1 DEF IInv, Counted
  <2> QED
    BY <2>1, <2>2
<1>13. ASSUME NEW t \in Sessions, tx'[t].pc \in Holding
       PROVE  /\ tx'[t].tries + 1 <= Limit[tx'[t].key]
              /\ performed[tx'[t].key] <= Past'[tx'[t].key] + tx'[t].tries + (IF tx'[t].pc = "done" THEN 1 ELSE 0)
              /\ ~ tx'[t].acted => performed[tx'[t].key] <= Past'[tx'[t].key]
  <2>1. tx'[t] = tx[t] /\ Past'[tx[t].key] = Past[tx[t].key]
    BY <1>6, <1>8, <1>13
  <2> QED
    BY <1>13, <2>1 DEF IInv, Counted
<1>14. Counted'
  BY <1>8, <1>12, <1>13 DEF Counted
<1>15. DisconnectedIsRevoked'
  BY DEF IInv, DisconnectedIsRevoked
<1> QED
  BY <1>5, <1>7, <1>14, <1>15 DEF IInv

LEMMA OperationCommitted ==
  ASSUME Bounds, IInv, NEW s \in Sessions, CommitOperation(s)
  PROVE  IInv'
<1> DEFINE c == tx[s].conn
           new == [cred[c] EXCEPT !.grant = tx[s].cred.grant]
<1>1. /\ tx[s].pc \in Holding /\ c \in Conns /\ tx[s].result # "NONE" /\ tx[s].cred \in CredRow
      /\ cred \in [Conns -> CredRow] /\ crashes' \in 0..MaxCrashes
      /\ UNCHANGED <<provider, conn, grants, performed, unsaved>> /\ Leave(s)
      /\ exec' = [exec EXCEPT ![tx[s].key] = tx[s].result]
      /\ cred' = [cred EXCEPT ![c] = new] \/ cred' = cred
  BY DEF CommitOperation, IInv, TypeOK, AtPoint, SessionRow, Holding
<1>2. new \in CredRow /\ new.revoked = cred[c].revoked
  BY <1>1 DEF CredRow
<1> HIDE DEF new
<1>3. cred' \in [Conns -> CredRow] /\ \A d \in Conns : cred'[d].revoked = cred[d].revoked
  BY <1>1, <1>2
<1> QED
  BY <1>1, <1>3, KeyGivenUp

LEMMA Lost ==
  ASSUME Bounds, IInv, NEW s \in Sessions, Crash(s) \/ Full(s)
  PROVE  IInv'
<1>1. /\ Leave(s) /\ UNCHANGED <<provider, conn, cred, exec, grants, performed>>
      /\ cred' \in [Conns -> CredRow]
  BY DEF Crash, Full, IInv, TypeOK
<1>2. crashes' \in 0..MaxCrashes
  BY DEF Crash, Full, Bounds, IInv, TypeOK
<1>3. CASE tx[s].pc \in Holding
  <2>1. unsaved' = IF tx[s].acted THEN [unsaved EXCEPT ![tx[s].key] = @ + 1] ELSE unsaved
    BY <1>3 DEF Crash, Full, Holding
  <2> QED
    BY <1>1, <1>2, <1>3, <2>1, KeyGivenUp
<1>4. CASE tx[s].pc \notin Holding
  <2>1. unsaved' = unsaved
    BY <1>4 DEF Crash, Full, IInv, AtPoint
  <2> QED
    BY <1>1, <1>2, <1>4, <2>1, Ended
<1> QED
  BY <1>3, <1>4

LEMMA TokenRefreshed ==
  ASSUME Bounds, IInv, NEW s \in Sessions, RefreshToken(s)
  PROVE  IInv'
<1> DEFINE c == tx[s].conn
           row == [tx[s] EXCEPT !.refreshed = TRUE]
<1>1. /\ tx[s].pc = "running" /\ tx[s] \in SessionRow /\ c \in Conns /\ tx[s].key \in Keys
      /\ Move(s, row) /\ lock' = [lock EXCEPT ![c] = s]
      /\ UNCHANGED <<provider, conn, cred, exec, grants, performed, unsaved, crashes>>
  BY DEF RefreshToken, IInv, TypeOK, AtPoint, AtKey, Holding
<1>2. /\ row \in SessionRow /\ row.pc = tx[s].pc /\ row.conn = c /\ row.key = tx[s].key
      /\ row.tries = tx[s].tries /\ row.acted = tx[s].acted
  BY <1>1 DEF SessionRow
<1> HIDE DEF row
<1>3. /\ conn' \in [Conns -> {"NONE"} \cup ConnectionStatus] /\ cred' \in [Conns -> CredRow]
      /\ exec' \in [Keys -> {"NONE", "COMPLETED", "FAILED"}]
      /\ lock' \in [Conns -> Sessions \cup {None}] /\ unsaved' \in [Keys -> Nat]
      /\ performed' \in [Keys -> Nat] /\ grants' \in 0..MaxGrants /\ crashes' \in 0..MaxCrashes
  BY <1>1 DEF IInv, TypeOK
<1>4. TypeOK' /\ AtPoint'
  BY <1>1, <1>2, <1>3, PointStep DEF Holding
<1>5. OneHolder' /\ Unrecorded' /\ Counted'
  BY <1>1, <1>2, CalmStep
<1>6. DisconnectedIsRevoked'
  BY <1>1 DEF IInv, DisconnectedIsRevoked
<1> QED
  BY <1>4, <1>5, <1>6 DEF IInv

LEMMA StutterOK ==
  ASSUME IInv, UNCHANGED vars
  PROVE  IInv'
<1>1. TypeOK'
  BY DEF IInv, TypeOK, vars
<1>2. AtPoint' /\ OneHolder' /\ Unrecorded' /\ DisconnectedIsRevoked'
  BY DEF IInv, AtPoint, OneHolder, Unrecorded, DisconnectedIsRevoked, vars
<1>3. Counted'
  <2>1. Limit' = Limit /\ Past' = Past
    BY DEF Limit, Past, vars
  <2> QED
    BY <2>1 DEF IInv, Counted, vars
<1> QED
  BY <1>1, <1>2, <1>3 DEF IInv
-----------------------------------------------------------------------------
LEMMA InitOK ==
  ASSUME Bounds, Init
  PROVE  IInv
<1>1. /\ Idle \in SessionRow /\ NoCred \in CredRow
      /\ \A s \in Sessions : tx[s].pc = "idle" /\ tx[s].acted = FALSE
  BY Values DEF Init
<1>2. TypeOK
  <2>1. grants \in 0..MaxGrants /\ crashes \in 0..MaxCrashes
    BY DEF Init, Bounds
  <2> HIDE DEF Idle, NoCred
  <2> QED
    BY <1>1, <2>1 DEF Init, TypeOK
<1>3. AtPoint /\ OneHolder /\ Unrecorded /\ DisconnectedIsRevoked
  BY <1>1 DEF Init, AtPoint, OneHolder, Unrecorded, DisconnectedIsRevoked, AtKey, Holding
<1>4. Counted
  <2>1. \A k \in Keys : performed[k] = 0 /\ Past[k] \in Nat /\ Limit[k] \in Nat
    BY <1>2, Limits DEF Init
  <2> QED
    BY <1>1, <2>1 DEF Counted, Holding
<1> QED
  BY <1>2, <1>3, <1>4 DEF IInv

LEMMA StepOK ==
  ASSUME Bounds, IInv, [Next]_vars
  PROVE  IInv'
<1>1. CASE \E s \in Sessions, c \in Conns :
             \/ ReadToConnect(s, c) \/ CalendarCallback(s, c) \/ SheetsCallback(s, c)
             \/ ReadToDisconnect(s, c) \/ ReadToVerify(s, c)
  <2>1. PICK s \in Sessions, c \in Conns, pc \in {"connecting", "disconnecting", "verifying"} :
          /\ tx[s].pc = "idle"
          /\ Move(s, [Idle EXCEPT !.pc = pc, !.conn = c, !.status = conn[c]])
          /\ UNCHANGED <<provider, conn, cred, exec, lock, grants, performed, unsaved, crashes>>
    BY <1>1 DEF ReadToConnect, CalendarCallback, SheetsCallback, ReadToDisconnect, ReadToVerify
  <2>2. tx[s].pc \notin Holding
    BY <2>1 DEF Holding
  <2> QED
    BY <2>1, <2>2, Begun
<1>2. CASE \E s \in Sessions, c \in Conns, k \in Keys :
             \/ RequestCalendar(s, k, c) \/ RequestSheets(s, k, c) \/ RequestMidtrans(s, k, c)
             \/ RequestExecution(s, k, c)
  BY <1>2, OperationStarted DEF RequestCalendar, RequestSheets, RequestMidtrans, RequestExecution
<1>3. CASE \E s \in Sessions, status \in {"ACTIVE", "ERROR"} :
             CommitConnection(s, status) \/ CommitVerification(s, status)
  BY <1>3, Stored
<1>4. CASE \E s \in Sessions :
             \/ ReadCredential(s) \/ FlushConnection(s) \/ CommitDisconnection(s)
             \/ ReserveKey(s) \/ OperationSucceeds(s) \/ OperationFails(s) \/ OperationRefused(s)
             \/ RefreshToken(s) \/ CommitOperation(s) \/ Crash(s) \/ Full(s)
  <2>1. PICK s \in Sessions :
             \/ ReadCredential(s) \/ FlushConnection(s) \/ CommitDisconnection(s)
             \/ ReserveKey(s) \/ OperationSucceeds(s) \/ OperationFails(s) \/ OperationRefused(s)
             \/ RefreshToken(s) \/ CommitOperation(s) \/ Crash(s) \/ Full(s)
    BY <1>4
  <2>2. CASE CommitDisconnection(s)
    BY <2>2, Stored
  <2>3. CASE ReadCredential(s) \/ FlushConnection(s)
    BY <2>3, Connecting
  <2>4. CASE ReserveKey(s)
    BY <2>4, KeyReserved
  <2>5. CASE OperationSucceeds(s) \/ OperationFails(s) \/ OperationRefused(s)
    BY <2>5, OperationTried
  <2>6. CASE RefreshToken(s)
    BY <2>6, TokenRefreshed
  <2>7. CASE CommitOperation(s)
    BY <2>7, OperationCommitted
  <2>8. CASE Crash(s) \/ Full(s)
    BY <2>8, Lost
  <2> QED
    BY <2>1, <2>2, <2>3, <2>4, <2>5, <2>6, <2>7, <2>8
<1>5. CASE Quiet \/ UNCHANGED vars
  BY <1>5, StutterOK DEF Quiet
<1> QED
  BY <1>1, <1>2, <1>3, <1>4, <1>5 DEF Next

(* However requests interleave, are retried and are lost, one of them holds  *)
(* a key at a time and what the provider has performed is accounted for.     *)
THEOREM Inductive ==
  ASSUME Bounds
  PROVE  Spec => []IInv
<1>1. Init => IInv
  BY InitOK
<1>2. IInv /\ [Next]_vars => IInv'
  BY StepOK
<1> QED
  BY <1>1, <1>2, PTL DEF Spec

(* Every variable keeps its type.                                            *)
THEOREM TypeCorrect ==
  ASSUME Bounds
  PROVE  Spec => []TypeOK
<1>1. IInv => TypeOK
  BY DEF IInv
<1> QED
  BY <1>1, Inductive, PTL

(* The operation asked for with an idempotency key is performed at most as   *)
(* often as one request tries it, and as those tried it that were lost       *)
(* before they had committed: execute_operation and its unique index.        *)
THEOREM AKeyIsUsedOnce ==
  ASSUME Bounds
  PROVE  Spec => []KeyedOnce
<1>1. ASSUME IInv, NEW k \in Keys
      PROVE  performed[k] <= (IF OperationOf[provider][k] \in TriedOnce THEN 1 ELSE 3) * (1 + unsaved[k])
  <2>1. /\ performed[k] <= Past[k] + Limit[k] /\ unsaved[k] \in Nat /\ performed[k] \in Nat
        /\ Past[k] = Limit[k] * unsaved[k]
    BY <1>1 DEF IInv, Counted, TypeOK, Past
  <2>2. /\ Limit[k] = IF OperationOf[provider][k] \in TriedOnce THEN 1 ELSE 3
        /\ Limit[k] \in {1, 3}
    BY <1>1, Limits DEF IInv
  <2>3. performed[k] <= Limit[k] * (1 + unsaved[k])
    <3>1. CASE Limit[k] = 1
      BY <2>1, <3>1
    <3>2. CASE Limit[k] = 3
      BY <2>1, <3>2
    <3> QED
      BY <2>2, <3>1, <3>2
  <2> QED
    BY <2>2, <2>3
<1>2. IInv => KeyedOnce
  BY <1>1 DEF KeyedOnce
<1> QED
  BY <1>2, Inductive, PTL

(* Whatever overtakes disconnect_integration, a connection that is           *)
(* disconnected has a revoked credential.                                    *)
THEOREM ADisconnectedCredentialIsRevoked ==
  ASSUME Bounds
  PROVE  Spec => []DisconnectedIsRevoked
<1>1. IInv => DisconnectedIsRevoked
  BY DEF IInv
<1> QED
  BY <1>1, Inductive, PTL
=============================================================================
