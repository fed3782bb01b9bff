-------------------------- MODULE InboundMessaging --------------------------
(***************************************************************************)
(* The WhatsApp channel: POST /webhooks/whatsapp in app/api/v1/webhooks.py,*)
(* the MessageRouter, the conversation and message repositories, and what  *)
(* a human operator changes through PATCH /conversations.                  *)
(*                                                                         *)
(* A webhook request is one transaction that ends after the reply is sent, *)
(* except that recording the credits of a model call commits the session   *)
(* (app/billing/usage.py:135): from then on the inbound message is stored  *)
(* and a redelivery of it is a duplicate.                                  *)
(***************************************************************************)
EXTENDS Integers

CONSTANTS
  Sessions,    \* webhook requests at work
  Msgs,        \* inbound messages of one customer, by external id
  Convs,       \* conversations of this customer that may be created
  Patches,     \* what operators set: records with status, handoff or ai
  Statuses,    \* delivery statuses the provider reports
  MaxCrashes,  \* bound on lost requests
  None

ASSUME NoneAssumption  == None \notin Sessions \cup Convs \cup Msgs
ASSUME BoundAssumption == MaxCrashes \in Nat
ASSUME StatusAssumption == Statuses \subseteq {"sent", "delivered", "read", "failed"}

VALID_MESSAGE_TRANSITIONS == [
  CREATED   |-> {"QUEUED", "FAILED", "UNKNOWN"},
  QUEUED    |-> {"SENDING", "FAILED", "UNKNOWN"},
  SENDING   |-> {"SENT", "FAILED", "UNKNOWN"},
  SENT      |-> {"DELIVERED", "FAILED", "UNKNOWN"},
  DELIVERED |-> {"READ", "FAILED", "UNKNOWN"},
  READ |-> {}, FAILED |-> {}, UNKNOWN |-> {} ]

MessageStatus == DOMAIN VALID_MESSAGE_TRANSITIONS
status_map == [sent |-> "SENT", delivered |-> "DELIVERED", read |-> "READ", failed |-> "FAILED"]

ValidMessageMove(from, to) == from = to \/ to \in VALID_MESSAGE_TRANSITIONS[from]
-----------------------------------------------------------------------------
VARIABLES
  conv,      \* conversations rows
  inbound,   \* inbound messages rows: the conversation each belongs to
  out,       \* outbound messages rows: the reply to each inbound message
  keys,      \* integration_executions rows of delivery reports
  sends,     \* replies the provider has accepted, by inbound message
  reported,  \* delivery reports of the provider
  tx,        \* the requests
  crashes,   \* requests lost so far
  unsaved,   \* of those, the ones lost between the acceptance and the commit
  taken      \* requests throughout which a human has had the customer

vars == <<conv, inbound, out, keys, sends, reported, tx, crashes, unsaved, taken>>

Active == {"OPEN", "PENDING", "WAITING_HUMAN", "HUMAN_HANDLING", "HUMAN_ACTIVE"}
HumanStatus == {"WAITING_HUMAN", "HUMAN_HANDLING", "HUMAN_ACTIVE", "CLOSED"}

ASSUME PatchAssumption ==
  \A patch \in Patches :
    /\ "status" \in DOMAIN patch => patch["status"] \in Active \cup {"CLOSED"}
    /\ \A f \in {"handoff", "ai"} : f \in DOMAIN patch => patch[f] \in BOOLEAN

(* The provider gives every reply it accepts an id; 0 is no id. *)
ConvRow == [status : {"NONE"} \cup Active \cup {"CLOSED"}, handoff : BOOLEAN, ai : BOOLEAN]
OutRow  == [status : {"NONE"} \cup MessageStatus, id : Nat]
Report  == [msg : Msgs, id : Nat, status : Statuses]
SessionRow == [pc   : {"idle", "new", "found", "stored", "human", "answering", "sending", "accepted", "status"},
               msg  : Msgs \cup {None},
               conv : Convs \cup {None},
               copy : ConvRow,                  \* the conversation in the session
               new  : BOOLEAN,                  \* which this request has created
               reply  : OutRow,                 \* the reply in the session
               report : Report \cup {None}]

NoConv == [status |-> "NONE", handoff |-> FALSE, ai |-> FALSE]
Opened == [status |-> "OPEN", handoff |-> FALSE, ai |-> TRUE]
Closed == [Opened EXCEPT !.status = "CLOSED"]
NoReply == [status |-> "NONE", id |-> 0]
Idle == [pc |-> "idle", msg |-> None, conv |-> None, copy |-> NoConv, new |-> FALSE,
         reply |-> NoReply, report |-> None]

Owned_StatusOnly(row) == ~ row.ai \/ row.status \in HumanStatus
Owned(row) == row.handoff \/ ~ row.ai \/ row.status \in HumanStatus

(* A human has the customer: somebody took the active conversation over.     *)
Taken == \E c \in Convs : /\ conv[c].status \in Active
                          /\ conv[c].handoff \/ ~ conv[c].ai \/ conv[c].status \in HumanStatus

Init ==
  /\ conv \in {f \in [Convs -> {NoConv, Opened, Closed}] :         \* of earlier messages
                 \A c, d \in Convs : f[c] = Opened /\ f[d] = Opened => c = d}
  /\ inbound = [m \in Msgs |-> None]
  /\ out = [m \in Msgs |-> NoReply]
  /\ keys = {}
  /\ sends = [m \in Msgs |-> 0]
  /\ reported = {}
  /\ tx = [s \in Sessions |-> Idle]
  /\ crashes = 0
  /\ unsaved = [m \in Msgs |-> 0]
  /\ taken = {}
-----------------------------------------------------------------------------
Move(s, row) == tx' = [tx EXCEPT ![s] = row]
Leave(s) == Move(s, Idle)

(* A message that is stored already is a duplicate and changes nothing.      *)
ReceiveMessage(s, m) ==
  /\ tx[s].pc = "idle"
  /\ inbound[m] = None
  /\ Move(s, [Idle EXCEPT !.pc = "new", !.msg = m])
  /\ taken' = IF Taken THEN taken \cup {s} ELSE taken \ {s}
  /\ UNCHANGED <<conv, inbound, out, keys, sends, reported, crashes, unsaved>>

(* get_or_create_active: a customer has one active conversation on a         *)
(* channel, by a partial unique index; an insert of a second one waits.      *)
FindConversation(s) ==
  /\ tx[s].pc = "new"
  /\ \E c \in Convs :
       \/ /\ conv[c].status \in Active
          /\ Move(s, [tx[s] EXCEPT !.pc = "found", !.conv = c, !.copy = conv[c]])
       \/ /\ \A d \in Convs : conv[d].status \notin Active
          /\ \A t \in Sessions : ~ tx[t].new
          /\ conv[c].status = "NONE"
          /\ Move(s, [tx[s] EXCEPT !.pc = "found", !.conv = c, !.copy = Opened, !.new = TRUE])
  /\ UNCHANGED <<conv, inbound, out, keys, sends, reported, crashes, unsaved, taken>>

(* A request that has inserted the message, and not committed, holds its     *)
(* external id.                                                              *)
Holds(t, m) == tx[t].msg = m /\ inbound[m] = None
               /\ tx[t].pc \in {"stored", "human", "answering", "sending", "accepted"}

StoreMessage_NoWait(s) ==
  /\ tx[s].pc = "found"
  /\ inbound[tx[s].msg] = None
  /\ Move(s, [tx[s] EXCEPT !.pc = "stored"])
  /\ UNCHANGED <<conv, inbound, out, keys, sends, reported, crashes, unsaved, taken>>
StoreMessage(s) ==
  /\ tx[s].pc = "found"
  /\ inbound[tx[s].msg] = None
  /\ \A t \in Sessions : ~ Holds(t, tx[s].msg)
  /\ Move(s, [tx[s] EXCEPT !.pc = "stored"])
  /\ UNCHANGED <<conv, inbound, out, keys, sends, reported, crashes, unsaved, taken>>

(* What a commit makes of the conversation: a created row is inserted, of a  *)
(* row that was read the columns are written that differ from the copy.      *)
Saved(s, new) ==
  [conv EXCEPT ![tx[s].conv] =
     IF tx[s].new THEN new ELSE [f \in DOMAIN @ |-> IF new[f] # tx[s].copy[f] THEN new[f] ELSE @[f]]]

(* IntegrityError: another request has stored the message meanwhile.         *)
DuplicateMessage(s) ==
  /\ tx[s].pc = "found"
  /\ inbound[tx[s].msg] # None
  /\ conv' = Saved(s, tx[s].copy)
  /\ Leave(s)
  /\ UNCHANGED <<inbound, out, keys, sends, reported, crashes, unsaved, taken>>

(* route_message reads the conversation again (populate_existing) and leaves *)
(* it to the human who owns it, or whom the customer asks for.               *)
RouteMessage(s) ==
  LET row == IF tx[s].new THEN tx[s].copy ELSE conv[tx[s].conv] IN
  /\ tx[s].pc = "stored"
  /\ \E pc \in IF Owned(row) THEN {"human"} ELSE {"human", "answering"} :
       Move(s, [tx[s] EXCEPT !.pc = pc, !.copy = row])
  /\ UNCHANGED <<conv, inbound, out, keys, sends, reported, crashes, unsaved, taken>>

CommitMessage(s, row, reply) ==
  /\ conv' = Saved(s, row)
  /\ inbound' = [inbound EXCEPT ![tx[s].msg] = tx[s].conv]
  /\ out' = [out EXCEPT ![tx[s].msg] = reply]
  /\ Leave(s)

(* The handoff makes a conversation active again that was closed meanwhile:  *)
(* it waits for another that is being created, and fails if there is one.    *)
HandedOff(row) == IF row.handoff THEN row ELSE [row EXCEPT !.handoff = TRUE, !.status = "WAITING_HUMAN"]

Reopens(s) == /\ conv[tx[s].conv].status = "CLOSED"
              /\ Saved(s, HandedOff(tx[s].copy))[tx[s].conv].status \in Active

SuppressReply(s) ==
  /\ tx[s].pc = "human"
  /\ Reopens(s) => \A t \in Sessions : ~ tx[t].new
  /\ IF Reopens(s) /\ \E c \in Convs : conv[c].status \in Active
     THEN Leave(s) /\ UNCHANGED <<conv, inbound, out>>
     ELSE CommitMessage(s, HandedOff(tx[s].copy), [status |-> "FAILED", id |-> 0])
  /\ UNCHANGED <<keys, sends, reported, crashes, unsaved, taken>>

(* The one it waits for may hold the same message and wait for it.           *)
Victim(s) ==
  /\ \E t, u \in Sessions :
       /\ s \in {t, u}
       /\ tx[t].pc = "human" /\ Reopens(t)
       /\ tx[u].pc = "found" /\ tx[u].new /\ Holds(t, tx[u].msg)
  /\ Leave(s)
  /\ UNCHANGED <<conv, inbound, out, keys, sends, reported, crashes, unsaved, taken>>

(* A price, a stock level, or the excuse for a model that failed.            *)
AnswerPlainly(s) ==
  /\ tx[s].pc = "answering"
  /\ Move(s, [tx[s] EXCEPT !.pc = "sending"])
  /\ UNCHANGED <<conv, inbound, out, keys, sends, reported, crashes, unsaved, taken>>

(* The credits of a model call are recorded, and the session committed.      *)
AnswerWithModel(s) ==
  /\ tx[s].pc = "answering"
  /\ conv' = Saved(s, tx[s].copy)
  /\ inbound' = [inbound EXCEPT ![tx[s].msg] = tx[s].conv]
  /\ Move(s, [tx[s] EXCEPT !.pc = "sending", !.new = FALSE])
  /\ UNCHANGED <<out, keys, sends, reported, crashes, unsaved, taken>>

(* execute_operation tries once. The provider accepts the reply and answers  *)
(* with an id, without one, or too late.                                     *)
Result_Raw(id) == {[status |-> "accepted", id |-> id]}
Result(id) == {[status |-> "SENT", id |-> id], [status |-> "UNKNOWN", id |-> 0], [status |-> "FAILED", id |-> 0]}

ProviderAccepts(s) ==
  LET m == tx[s].msg IN
  /\ tx[s].pc = "sending"
  /\ sends' = [sends EXCEPT ![m] = @ + 1]
  /\ \E reply \in Result(sends[m] + 1) : Move(s, [tx[s] EXCEPT !.pc = "accepted", !.reply = reply])
  /\ UNCHANGED <<conv, inbound, out, keys, reported, crashes, unsaved, taken>>

(* No active connection, or the provider refuses or cannot be reached.       *)
SendFails(s) ==
  /\ tx[s].pc = "sending"
  /\ CommitMessage(s, tx[s].copy, [status |-> "FAILED", id |-> 0])
  /\ UNCHANGED <<keys, sends, reported, crashes, unsaved, taken>>

CommitReply(s) ==
  /\ tx[s].pc = "accepted"
  /\ CommitMessage(s, tx[s].copy, tx[s].reply)
  /\ UNCHANGED <<keys, sends, reported, crashes, unsaved, taken>>
-----------------------------------------------------------------------------
(* The provider reports what became of a reply, in any order but that a      *)
(* reply is delivered before it is read.                                     *)
ProviderReports(m, id, status) ==
  LET Told(x) == [msg |-> m, id |-> id, status |-> x] IN
  /\ id \in 1..sends[m]
  /\ status = "read" => Told("delivered") \in reported
  /\ reported' = reported \cup {Told(status)}
  /\ UNCHANGED <<conv, inbound, out, keys, sends, tx, crashes, unsaved, taken>>

(* The report's key is reserved, or is a duplicate; then the message is      *)
(* looked up.  If its row is not committed yet, the report is only recorded. *)
ReceiveReport_NoWait(s, report) ==
  /\ tx[s].pc = "idle"
  /\ report \notin keys
  /\ Move(s, [Idle EXCEPT !.pc = "status", !.report = report,
                          !.reply = IF out[report.msg].id = report.id THEN out[report.msg] ELSE NoReply])
  /\ UNCHANGED <<conv, inbound, out, keys, sends, reported, crashes, unsaved, taken>>
ReceiveReport(s, report) ==
  /\ tx[s].pc = "idle"
  /\ report \notin keys
  /\ \A t \in Sessions : tx[t].report # report
  /\ Move(s, [Idle EXCEPT !.pc = "status", !.report = report,
                          !.reply = IF out[report.msg].id = report.id THEN out[report.msg] ELSE NoReply])
  /\ UNCHANGED <<conv, inbound, out, keys, sends, reported, crashes, unsaved, taken>>

(* transition_status locks the row, but checks the copy read before.         *)
CommitReport(s) ==
  LET r == tx[s].report
      copy == tx[s].reply
      target == status_map[r.status]
  IN
  /\ tx[s].pc = "status"
  /\ keys' = keys \cup {r}
  /\ out' = IF copy.status \notin {"NONE", target} /\ ValidMessageMove(copy.status, target)
            THEN [out EXCEPT ![r.msg].status = target] ELSE out
  /\ Leave(s)
  /\ UNCHANGED <<conv, inbound, sends, reported, crashes, unsaved, taken>>
-----------------------------------------------------------------------------
(* PATCH /conversations: the fields that are given are written, unchecked    *)
(* but for the one active conversation.                                      *)
UpdateConversation(c, patch) ==
  LET new == [f \in DOMAIN conv[c] |-> IF f \in DOMAIN patch THEN patch[f] ELSE conv[c][f]] IN
  /\ conv[c].status # "NONE"
  /\ new.status \in Active => \A d \in Convs \ {c} : conv[d].status \notin Active
  /\ conv[c].status \notin Active /\ new.status \in Active => \A t \in Sessions : ~ tx[t].new
  /\ conv' = [conv EXCEPT ![c] = new]
  /\ taken' = IF Taken' THEN taken ELSE {}
  /\ UNCHANGED <<inbound, out, keys, sends, reported, tx, crashes, unsaved>>

(* An error or a lost request: its transaction is rolled back.               *)
Crash(s) ==
  /\ tx[s].pc # "idle"
  /\ crashes < MaxCrashes
  /\ crashes' = crashes + 1
  /\ unsaved' = IF tx[s].pc = "accepted" THEN [unsaved EXCEPT ![tx[s].msg] = @ + 1] ELSE unsaved
  /\ Leave(s)
  /\ UNCHANGED <<conv, inbound, out, keys, sends, reported, taken>>

Quiet == (\A s \in Sessions : tx[s].pc = "idle") /\ UNCHANGED vars

Next ==
  \/ \E s \in Sessions, m \in Msgs : ReceiveMessage(s, m)
  \/ \E s \in Sessions :
       \/ FindConversation(s) \/ StoreMessage(s) \/ DuplicateMessage(s) \/ RouteMessage(s)
       \/ SuppressReply(s) \/ Victim(s) \/ AnswerPlainly(s) \/ AnswerWithModel(s)
       \/ ProviderAccepts(s) \/ SendFails(s) \/ CommitReply(s)
       \/ CommitReport(s) \/ Crash(s)
  \/ \E m \in Msgs, id \in 1..(1 + MaxCrashes), status \in Statuses : ProviderReports(m, id, status)
  \/ \E s \in Sessions, report \in reported : ReceiveReport(s, report)
  \/ \E c \in Convs, patch \in Patches : UpdateConversation(c, patch)
  \/ Quiet

Spec == Init /\ [][Next]_vars
-----------------------------------------------------------------------------
(* Every variable keeps its type.                                            *)
TypeOK ==
  /\ conv \in [Convs -> ConvRow]
  /\ inbound \in [Msgs -> Convs \cup {None}]
  /\ out \in [Msgs -> OutRow]
  /\ keys \subseteq reported /\ reported \subseteq Report
  /\ sends \in [Msgs -> Nat] /\ unsaved \in [Msgs -> Nat]
  /\ tx \in [Sessions -> SessionRow]
  /\ crashes \in 0..MaxCrashes
  /\ taken \subseteq Sessions

(* However often a message is delivered and to however many requests, its    *)
(* customer gets one reply, and one more for every request that was lost     *)
(* after the provider had taken its reply and before it had committed.       *)
AnsweredOnce == \A m \in Msgs : sends[m] <= 1 + unsaved[m]

(* Once a human has the customer, a message that arrives is not answered by  *)
(* the machine unless the human lets go in between.                          *)
NoReplyAfterTakeover == \A s \in taken : tx[s].pc # "accepted"

(* Delivery reports that are handled concurrently, on stale copies, never    *)
(* take a reply back: READ stays READ unless it FAILED, DELIVERED never      *)
(* becomes SENT.                                                             *)
DeliveryMovesForward ==
  [][\A m \in Msgs :
       /\ out[m].status = "READ" => out'[m].status \in {"READ", "FAILED"}
       /\ out[m].status = "DELIVERED" => out'[m].status # "SENT"]_vars
=============================================================================
