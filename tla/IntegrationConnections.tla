----------------------- MODULE IntegrationConnections -----------------------
(***************************************************************************)
(* Connections to external services, their credentials, and the operations *)
(* performed over them: IntegrationService in app/integrations/service.py  *)
(* with its retries and idempotency keys, the routes that call it in       *)
(* app/api/v1/integrations.py, and what the adapters make of an operation, *)
(* in app/integrations/adapters/.  One integration of one tenant, of one   *)
(* provider.                                                               *)
(*                                                                         *)
(* A request is one transaction; the record of an operation is visible to  *)
(* others only when the request has committed, long after the provider was *)
(* called.                                                                 *)
(***************************************************************************)
EXTENDS Integers

CONSTANTS
  Sessions,
  Conns,       \* integration_connections rows that may be created
  Keys,        \* idempotency keys; a request without one has a key of its own
  Providers,   \* of the integration: one of them
  OperationOf, \* what is asked for with each key, of each of them
  MaxGrants,   \* bound on the credentials that are given
  MaxCrashes,  \* bound on lost requests
  None

ALLOWED_INTEGRATION_TRANSITIONS == [
  DISCONNECTED |-> {"CONNECTING", "DISABLED"},
  CONNECTING   |-> {"CONNECTED", "ERROR", "DISCONNECTED"},
  CONNECTED    |-> {"ACTIVE", "ERROR", "EXPIRED", "REVOKED", "DISCONNECTED"},
  ACTIVE       |-> {"CONNECTING", "RECONNECTING", "CONNECTED", "ERROR", "EXPIRED", "REVOKED", "DISABLED",
                    "DISCONNECTED"},
  RECONNECTING |-> {"CONNECTED", "ACTIVE", "ERROR", "EXPIRED", "REVOKED", "DISCONNECTED"},
  ERROR        |-> {"RECONNECTING", "CONNECTING", "DISCONNECTED", "DISABLED"},
  EXPIRED      |-> {"CONNECTING", "DISCONNECTED", "DISABLED"},
  REVOKED      |-> {"CONNECTING", "DISCONNECTED", "DISABLED"},
  DISABLED     |-> {"DISCONNECTED", "CONNECTING"} ]

ConnectionStatus == DOMAIN ALLOWED_INTEGRATION_TRANSITIONS

ValidConnectionMove(from, to) == from = to \/ to \in ALLOWED_INTEGRATION_TRANSITIONS[from]

(* The operations the adapters know.                                         *)
CalendarReads  == {"list_calendars", "get_calendar", "list_events", "get_event", "check_availability"}
CalendarWrites == {"create_event", "update_event", "delete_event"}
SheetsOperations == {"get_spreadsheet", "read_values", "append_values", "update_values",
                     "list_spreadsheets", "export_orders"}
MidtransOperations == {"create_payment", "get_payment_status", "cancel_payment", "refund_payment"}
WhatsAppOperations == {"send_message", "send_text", "send_media", "send_template", "get_connection_status"}

Google == {"google_calendar", "google_sheets"}
Operations(p) == CASE p = "google_calendar"    -> CalendarReads \cup CalendarWrites
                   [] p = "google_sheets"      -> SheetsOperations
                   [] p = "midtrans"           -> MidtransOperations
                   [] p = "whatsapp_cloud_api" -> WhatsAppOperations

(* What Midtrans refuses is a result with success FALSE, not an error.       *)
Reported == MidtransOperations \ {"get_payment_status"}

(* These are tried once, everything else up to three times.                  *)
TriedOnce == {"send_message", "send_whatsapp", "send_email", "send_sms"}
Attempts(operation) == IF operation \in TriedOnce THEN 1 ELSE 3
-----------------------------------------------------------------------------
VARIABLES
  provider,   \* of the integration
  conn,       \* status of the integration_connections rows
  cred,       \* integration_credentials rows, one of each connection
  exec,       \* status of the integration_executions rows
  lock,       \* row locks on a connection and its credential
  tx,         \* the requests
  grants,     \* credentials given so far
  performed,  \* how often the provider has performed each operation
  unsaved,    \* requests lost after it had, and before they committed
  crashes     \* requests lost so far

vars == <<provider, conn, cred, exec, lock, tx, grants, performed, unsaved, crashes>>

CredRow == [grant : Nat, revoked : BOOLEAN]      \* grant 0: no row
SessionRow == [pc : {"idle", "connecting", "staging", "connected", "disconnecting",
                     "verifying", "checked", "running", "done"},
               conn   : Conns \cup {None},
               status : {"NONE"} \cup ConnectionStatus,  \* the connection as it was read
               cred   : CredRow,                         \* the credential as it was read
               key    : Keys \cup {None},
               tries  : 0..3,
               acted  : BOOLEAN,                         \* the provider has performed it
               refreshed : BOOLEAN,                      \* the credential is written
               result : {"NONE", "COMPLETED", "FAILED"}]

NoCred == [grant |-> 0, revoked |-> FALSE]
Idle == [pc |-> "idle", conn |-> None, status |-> "NONE", cred |-> NoCred, key |-> None,
         tries |-> 0, acted |-> FALSE, refreshed |-> FALSE, result |-> "NONE"]

Init ==
  /\ provider \in Providers
  /\ conn = [c \in Conns |-> "NONE"]
  /\ cred = [c \in Conns |-> NoCred]
  /\ exec = [k \in Keys |-> "NONE"]
  /\ lock = [c \in Conns |-> None]
  /\ tx = [s \in Sessions |-> Idle]
  /\ grants = 0
  /\ performed = [k \in Keys |-> 0]
  /\ unsaved = [k \in Keys |-> 0]
  /\ crashes = 0
-----------------------------------------------------------------------------
Move(s, row) == tx' = [tx EXCEPT ![s] = row]
Leave(s) == /\ Move(s, Idle)
            /\ lock' = [c \in Conns |-> IF lock[c] = s THEN None ELSE lock[c]]

(* connect_integration looks for the one connection of the integration; it   *)
(* raises if there are two, and creates one if there is none.                *)
ReadToConnect(s, c) ==
  LET known == {d \in Conns : conn[d] # "NONE"} IN
  /\ tx[s].pc = "idle"
  /\ \/ known = {c} /\ ValidConnectionMove(conn[c], "CONNECTING")
     \/ known = {} /\ \A t \in Sessions : tx[t].conn # c
  /\ Move(s, [Idle EXCEPT !.pc = "connecting", !.conn = c, !.status = conn[c]])
  /\ UNCHANGED <<provider, conn, cred, exec, lock, grants, performed, unsaved, crashes>>

(* The callbacks of Google, once the code has been exchanged for tokens.     *)
CalendarCallback(s, c) == provider = "google_calendar" /\ ReadToConnect(s, c)
SheetsCallback(s, c)   == provider = "google_sheets" /\ ReadToConnect(s, c)

ReadCredential(s) ==
  /\ tx[s].pc = "connecting"
  /\ Move(s, [tx[s] EXCEPT !.pc = "staging", !.cred = cred[tx[s].conn]])
  /\ UNCHANGED <<provider, conn, cred, exec, lock, grants, performed, unsaved, crashes>>

(* The flush before the adapter is called locks the rows.                    *)
FlushConnection(s) ==
  LET c == tx[s].conn IN
  /\ tx[s].pc = "staging"
  /\ lock[c] = None
  /\ lock' = [lock EXCEPT ![c] = s]
  /\ Move(s, [tx[s] EXCEPT !.pc = "connected"])
  /\ UNCHANGED <<provider, conn, cred, exec, grants, performed, unsaved, crashes>>

(* The adapter connects, refuses or raises.  revoked_at is cleared if the    *)
(* credential was revoked when it was read.                                  *)
CommitConnection(s, status) ==
  LET c == tx[s].conn IN
  /\ tx[s].pc = "connected"
  /\ grants < MaxGrants
  /\ grants' = grants + 1
  /\ conn' = [conn EXCEPT ![c] = status]
  /\ cred' = [cred EXCEPT ![c] = [grant |-> grants + 1, revoked |-> @.revoked /\ ~ tx[s].cred.revoked]]
  /\ Leave(s)
  /\ UNCHANGED <<provider, exec, performed, unsaved, crashes>>

ReadToDisconnect(s, c) ==
  /\ tx[s].pc = "idle"
  /\ conn[c] # "NONE" /\ ValidConnectionMove(conn[c], "DISCONNECTED")
  /\ Move(s, [Idle EXCEPT !.pc = "disconnecting", !.conn = c, !.status = conn[c]])
  /\ UNCHANGED <<provider, conn, cred, exec, lock, grants, performed, unsaved, crashes>>

(* The credential is revoked; the status is written if the copy had another. *)
CommitDisconnection_KeepsCredential(s) ==
  LET c == tx[s].conn IN
  /\ tx[s].pc = "disconnecting"
  /\ lock[c] = None
  /\ conn' = [conn EXCEPT ![c] = "DISCONNECTED"]
  /\ cred' = [cred EXCEPT ![c].revoked = @ \/ tx[s].status = "ACTIVE"]
  /\ Leave(s)
  /\ UNCHANGED <<provider, exec, grants, performed, unsaved, crashes>>
CommitDisconnection(s) ==
  LET c == tx[s].conn IN
  /\ tx[s].pc = "disconnecting"
  /\ lock[c] = None
  /\ conn' = [conn EXCEPT ![c] = IF tx[s].status = "DISCONNECTED" THEN @ ELSE "DISCONNECTED"]
  /\ cred' = [cred EXCEPT ![c].revoked = TRUE]
  /\ Leave(s)
  /\ UNCHANGED <<provider, exec, grants, performed, unsaved, crashes>>

(* verify_whatsapp_connection sets the status by the provider's answer,      *)
(* whatever it was.                                                          *)
ReadToVerify(s, c) ==
  /\ tx[s].pc = "idle"
  /\ provider = "whatsapp_cloud_api"
  /\ conn[c] # "NONE" /\ ~ cred[c].revoked
  /\ Move(s, [Idle EXCEPT !.pc = "verifying", !.conn = c, !.status = conn[c]])
  /\ UNCHANGED <<provider, conn, cred, exec, lock, grants, performed, unsaved, crashes>>

CommitVerification(s, status) ==
  LET c == tx[s].conn IN
  /\ tx[s].pc = "verifying"
  /\ lock[c] = None
  /\ conn' = [conn EXCEPT ![c] = IF tx[s].status = status THEN @ ELSE status]
  /\ Leave(s)
  /\ UNCHANGED <<provider, cred, exec, grants, performed, unsaved, crashes>>
-----------------------------------------------------------------------------
(* execute_operation answers a key that is recorded with what is recorded;   *)
(* otherwise the connection must be active and its credential not revoked.   *)
StartOperation(s, k, c) ==
  /\ tx[s].pc = "idle"
  /\ exec[k] = "NONE"
  /\ conn[c] \in {"ACTIVE", "CONNECTED"} /\ ~ cred[c].revoked
  /\ Move(s, [Idle EXCEPT !.pc = "checked", !.conn = c, !.status = conn[c], !.cred = cred[c], !.key = k])
  /\ UNCHANGED <<provider, conn, cred, exec, lock, grants, performed, unsaved, crashes>>

(* The routes of a provider ask for its operations, /execute for anything.   *)
RequestCalendar(s, k, c) ==
  OperationOf[provider][k] \in CalendarReads \cup CalendarWrites /\ StartOperation(s, k, c)
RequestSheets(s, k, c) == OperationOf[provider][k] \in SheetsOperations /\ StartOperation(s, k, c)
RequestMidtrans(s, k, c) ==
  /\ OperationOf[provider][k] = "cancel_payment"      \* the one route that calls it
  /\ provider = "midtrans"
  /\ StartOperation(s, k, c)
RequestExecution(s, k, c) == StartOperation(s, k, c)

(* The RUNNING record is inserted in a savepoint; the unique index makes a   *)
(* second request with the key wait for the first to end, and then answer    *)
(* with its record.                                                          *)
ReserveKey_NoWait(s) ==
  /\ tx[s].pc = "checked"
  /\ IF exec[tx[s].key] = "NONE"
     THEN Move(s, [tx[s] EXCEPT !.pc = "running"]) /\ UNCHANGED lock
     ELSE Leave(s)
  /\ UNCHANGED <<provider, conn, cred, exec, grants, performed, unsaved, crashes>>
ReserveKey(s) ==
  /\ tx[s].pc = "checked"
  /\ \A t \in Sessions : tx[t].key = tx[s].key => tx[t].pc \notin {"running", "done"}
  /\ IF exec[tx[s].key] = "NONE"
     THEN Move(s, [tx[s] EXCEPT !.pc = "running"]) /\ UNCHANGED lock
     ELSE Leave(s)
  /\ UNCHANGED <<provider, conn, cred, exec, grants, performed, unsaved, crashes>>

Asked(s)   == OperationOf[provider][tx[s].key]
Perform(s) == performed' = [performed EXCEPT ![tx[s].key] = @ + 1]
Finish(s, result, acted) == Move(s, [tx[s] EXCEPT !.pc = "done", !.result = result, !.acted = @ \/ acted])

OperationSucceeds(s) ==
  /\ tx[s].pc = "running"
  /\ Asked(s) \in Operations(provider)
  /\ \/ Perform(s) /\ Finish(s, "COMPLETED", TRUE)
     \/ Asked(s) \in Reported /\ UNCHANGED performed /\ Finish(s, "COMPLETED", FALSE)
  /\ UNCHANGED <<provider, conn, cred, exec, lock, grants, unsaved, crashes>>

(* A transient error, after which the operation may have been performed or   *)
(* not, is followed by another attempt while there is one.                   *)
OperationFails(s) ==
  /\ tx[s].pc = "running"
  /\ Asked(s) \in Operations(provider)
  /\ tx[s].tries + 1 < Attempts(Asked(s))
  /\ \/ Perform(s) /\ Move(s, [tx[s] EXCEPT !.tries = @ + 1, !.acted = TRUE])
     \/ UNCHANGED performed /\ Move(s, [tx[s] EXCEPT !.tries = @ + 1])
  /\ UNCHANGED <<provider, conn, cred, exec, lock, grants, unsaved, crashes>>

(* Any other error, and the last transient one, is the result: performed or  *)
(* not; what the adapter does not know is not.                               *)
OperationRefused(s) ==
  /\ tx[s].pc = "running"
  /\ \/ /\ Asked(s) \in Operations(provider)
        /\ Perform(s) /\ Finish(s, "FAILED", TRUE)
     \/ UNCHANGED performed /\ Finish(s, "FAILED", FALSE)
  /\ UNCHANGED <<provider, conn, cred, exec, lock, grants, unsaved, crashes>>

(* The access token has expired: the adapter gets a new one, and writes the  *)
(* credential it has in its session with the new token.                      *)
RefreshToken(s) ==
  LET c == tx[s].conn IN
  /\ provider \in Google
  /\ tx[s].pc = "running" /\ ~ tx[s].refreshed
  /\ lock[c] \in {None, s}
  /\ lock' = [lock EXCEPT ![c] = s]
  /\ Move(s, [tx[s] EXCEPT !.refreshed = TRUE])
  /\ UNCHANGED <<provider, conn, cred, exec, grants, performed, unsaved, crashes>>

CommitOperation(s) ==
  LET c == tx[s].conn IN
  /\ tx[s].pc = "done"
  /\ lock[c] \in {None, s}                    \* last_success_at is written
  /\ exec' = [exec EXCEPT ![tx[s].key] = tx[s].result]
  /\ cred' = IF tx[s].refreshed THEN [cred EXCEPT ![c].grant = tx[s].cred.grant] ELSE cred
  /\ Leave(s)
  /\ UNCHANGED <<provider, conn, grants, performed, unsaved, crashes>>

(* An error later in the request, or its loss: nothing of it is kept.        *)
Crash(s) ==
  /\ tx[s].pc # "idle"
  /\ crashes < MaxCrashes
  /\ crashes' = crashes + 1
  /\ unsaved' = IF tx[s].acted THEN [unsaved EXCEPT ![tx[s].key] = @ + 1] ELSE unsaved
  /\ Leave(s)
  /\ UNCHANGED <<provider, conn, cred, exec, grants, performed>>

Quiet == (\A s \in Sessions : tx[s].pc = "idle") /\ UNCHANGED vars
Full(s) == tx[s].pc = "connected" /\ grants = MaxGrants /\ Leave(s)      \* the bound
           /\ UNCHANGED <<provider, conn, cred, exec, grants, performed, unsaved, crashes>>

Next ==
  \/ \E s \in Sessions, c \in Conns :
       \/ ReadToConnect(s, c) \/ CalendarCallback(s, c) \/ SheetsCallback(s, c)
       \/ ReadToDisconnect(s, c) \/ ReadToVerify(s, c)
  \/ \E s \in Sessions, c \in Conns, k \in Keys :
       \/ RequestCalendar(s, k, c) \/ RequestSheets(s, k, c) \/ RequestMidtrans(s, k, c)
       \/ RequestExecution(s, k, c)
  \/ \E s \in Sessions, status \in {"ACTIVE", "ERROR"} : CommitConnection(s, status) \/ CommitVerification(s, status)
  \/ \E s \in Sessions :
       \/ ReadCredential(s) \/ FlushConnection(s) \/ CommitDisconnection(s)
       \/ ReserveKey(s) \/ OperationSucceeds(s) \/ OperationFails(s) \/ OperationRefused(s)
       \/ RefreshToken(s) \/ CommitOperation(s) \/ Crash(s) \/ Full(s)
  \/ Quiet

Spec == Init /\ [][Next]_vars
-----------------------------------------------------------------------------
(* Every variable keeps its type.                                            *)
TypeOK ==
  /\ provider \in Providers
  /\ conn \in [Conns -> {"NONE"} \cup ConnectionStatus]
  /\ cred \in [Conns -> CredRow]
  /\ exec \in [Keys -> {"NONE", "COMPLETED", "FAILED"}]
  /\ lock \in [Conns -> Sessions \cup {None}]
  /\ tx \in [Sessions -> SessionRow]
  /\ performed \in [Keys -> Nat] /\ unsaved \in [Keys -> Nat]
  /\ grants \in 0..MaxGrants /\ crashes \in 0..MaxCrashes

(* However many requests carry a key, its operation is performed by the one  *)
(* that holds the key, as often as it is tried, and by those that were lost  *)
(* after they had performed it: a send_message once for each of them.        *)
KeyedOnce ==
  \A k \in Keys :
    performed[k] <= (IF OperationOf[provider][k] \in TriedOnce THEN 1 ELSE 3) * (1 + unsaved[k])

(* However connect, disconnect and token refresh overtake each other, the    *)
(* credential of a disconnected connection is revoked.                       *)
DisconnectedIsRevoked == \A c \in Conns : conn[c] = "DISCONNECTED" => cred[c].revoked
=============================================================================
