--------------------------- MODULE ChannelsProofs ---------------------------
(***************************************************************************)
(* What the channels of MCChannels promise, for any number of messages,    *)
(* conversations, connections, events and overlapping requests.  The       *)
(* theorems of IntegrationConnections and EventBus are in modules of their *)
(* own; this one proves those of InboundMessaging, and carries all of them *)
(* over to ChannelsSpec, whose steps are steps of one channel.             *)
(***************************************************************************)
EXTENDS MCChannels, TLAPS

(***************************************************************************)
(* MESSAGES.  One reply to a message, none once a human has the customer,  *)
(* and no step back in its delivery.  Three arguments: one request at a    *)
(* time works on a message; one conversation at most is active, so a       *)
(* request that began after the takeover finds the one that was taken      *)
(* over; and a report is handled once, by its key, so that the copy it is  *)
(* checked against cannot be older than the report before it.              *)
(***************************************************************************)

Working == {"stored", "human", "answering", "sending", "accepted"}
Machine == {"answering", "sending", "accepted"}

(* What a request holds at each point.                                       *)
AtPoint ==
  \A s \in Sessions :
    /\ tx[s].pc \in {"new", "found"} \cup Working => tx[s].msg \in Msgs
    /\ tx[s].pc \in {"found"} \cup Working => tx[s].conv \in Convs
    /\ tx[s].new => tx[s].pc \in {"found"} \cup Working
    /\ tx[s].pc = "status" => tx[s].report \in Report

(* One request works on a message, and the provider has accepted a reply     *)
(* only if that request is not over or the message is stored.                *)
OneWorker ==
  \A s, t \in Sessions :
    tx[s].pc \in Working /\ tx[t].pc \in Working /\ tx[s].msg = tx[t].msg => s = t

Counted ==
  /\ \A m \in Msgs : /\ sends[m] <= 1 + unsaved[m]
                     /\ sends[m] > unsaved[m] /\ inbound[m] = None =>
                          \E s \in Sessions : tx[s].pc = "accepted" /\ tx[s].msg = m
  /\ \A s \in Sessions : tx[s].pc \in Working \ {"accepted"} =>
                           sends[tx[s].msg] <= unsaved[tx[s].msg]

(* One conversation is active, or one is being created.                      *)
OneActive == \A c, d \in Convs : conv[c].status \in Active /\ conv[d].status \in Active => c = d

Creating ==
  \A s \in Sessions :
    /\ tx[s].new => /\ \A c \in Convs : conv[c].status \notin Active
                    /\ tx[s].copy = Opened
                    /\ \A t \in Sessions : tx[t].new => t = s
    /\ tx[s].pc \in {"found"} \cup Working =>
         (tx[s].new <=> conv[tx[s].conv].status = "NONE")

TakenHolds == taken # {} => Taken
TakenQuiet == \A s \in taken : tx[s].pc \notin Machine

(* What is known of a reply when a report of it is handled.                  *)
Delivered(m, id) == [msg |-> m, id |-> id, status |-> "delivered"]
Known(told, m, reply) ==
  /\ reply.status \in {"SENT", "DELIVERED", "READ", "FAILED", "UNKNOWN"}
  /\ reply.status \in {"DELIVERED", "READ"} => Delivered(m, reply.id) \in told

Replies ==
  /\ \A m \in Msgs : /\ out[m] = NoReply \/ Known(keys, m, out[m])
                     /\ inbound[m] = None => out[m] = NoReply
  /\ \A s \in Sessions : tx[s].pc \in Working => out[tx[s].msg] = NoReply
  /\ \A s \in Sessions : tx[s].pc = "accepted" =>
       tx[s].reply.status \in {"SENT", "FAILED", "UNKNOWN"}

Reporting ==
  /\ \A r \in reported : r.id > 0
  /\ \A s, t \in Sessions : tx[s].pc = "status" /\ tx[t].pc = "status" /\ tx[s].report = tx[t].report => s = t
  /\ \A s \in Sessions : tx[s].pc = "status" =>
       LET r == tx[s].report IN
       /\ r \in reported \ keys
       /\ \/ tx[s].reply.status = "NONE"
          \/ /\ Known(keys, r.msg, tx[s].reply)
             /\ tx[s].reply.id = r.id /\ out[r.msg].id = r.id

IInv ==
  /\ TypeOK /\ AtPoint
  /\ OneWorker /\ Counted
  /\ OneActive /\ Creating /\ TakenHolds /\ TakenQuiet
  /\ Replies /\ Reporting
-----------------------------------------------------------------------------
LEMMA Values ==
  /\ NoConv \in ConvRow /\ Opened \in ConvRow /\ Closed \in ConvRow /\ NoReply \in OutRow
  /\ Idle \in SessionRow /\ Idle.pc = "idle" /\ Idle.new = FALSE
  /\ "CLOSED" \notin Active /\ "NONE" \notin Active /\ "OPEN" \in Active /\ "WAITING_HUMAN" \in Active
  /\ Opened.status = "OPEN" /\ Opened.ai = TRUE /\ Opened.handoff = FALSE
<1>1. NoConv \in ConvRow /\ Opened \in ConvRow /\ Opened.status = "OPEN" /\ Opened.ai = TRUE
      /\ Opened.handoff = FALSE
  BY DEF NoConv, Opened, ConvRow, Active
<1>2. Closed \in ConvRow
  BY DEF Closed, Opened, ConvRow
<1>3. NoReply \in OutRow
  BY DEF NoReply, OutRow
<1>4. Idle \in SessionRow /\ Idle.pc = "idle" /\ Idle.new = FALSE
  BY <1>1, <1>3 DEF Idle, SessionRow
<1> QED
  BY <1>1, <1>2, <1>3, <1>4 DEF Active

LEMMA StatusFacts ==
  /\ MessageStatus = {"CREATED", "QUEUED", "SENDING", "SENT", "DELIVERED", "READ", "FAILED", "UNKNOWN"}
  /\ \A x \in Statuses : /\ x \in {"sent", "delivered", "read", "failed"}
                         /\ status_map[x] \in MessageStatus
                         /\ x = "sent" <=> status_map[x] = "SENT"
                         /\ x = "delivered" <=> status_map[x] = "DELIVERED"
                         /\ x = "read" <=> status_map[x] = "READ"
                         /\ x = "failed" <=> status_map[x] = "FAILED"
<1>1. MessageStatus = {"CREATED", "QUEUED", "SENDING", "SENT", "DELIVERED", "READ", "FAILED", "UNKNOWN"}
  BY DEF MessageStatus, VALID_MESSAGE_TRANSITIONS
<1>2. /\ status_map["sent"] = "SENT" /\ status_map["delivered"] = "DELIVERED"
      /\ status_map["read"] = "READ" /\ status_map["failed"] = "FAILED"
  BY DEF status_map
<1>3. ASSUME NEW x \in Statuses
      PROVE  /\ x \in {"sent", "delivered", "read", "failed"}
             /\ status_map[x] \in MessageStatus
             /\ x = "sent" <=> status_map[x] = "SENT"
             /\ x = "delivered" <=> status_map[x] = "DELIVERED"
             /\ x = "read" <=> status_map[x] = "READ"
             /\ x = "failed" <=> status_map[x] = "FAILED"
  <2>1. CASE x = "sent"
    BY <1>1, <1>2, <2>1
  <2>2. CASE x = "delivered"
    BY <1>1, <1>2, <2>2
  <2>3. CASE x = "read"
    BY <1>1, <1>2, <2>3
  <2>4. CASE x = "failed"
    BY <1>1, <1>2, <2>4
  <2> QED
    BY <2>1, <2>2, <2>3, <2>4, StatusAssumption
<1> QED
  BY <1>1, <1>3

(* What a move changes, when it keeps the type.                              *)
LEMMA MoveFacts ==
  ASSUME TypeOK, NEW s \in Sessions, NEW row \in SessionRow, Move(s, row)
  PROVE  /\ tx' \in [Sessions -> SessionRow]
         /\ tx'[s] = row
         /\ \A t \in Sessions : t # s => tx'[t] = tx[t]
  BY DEF TypeOK, Move

LEMMA LeaveFacts ==
  ASSUME TypeOK, NEW s \in Sessions, Leave(s)
  PROVE  /\ tx' \in [Sessions -> SessionRow]
         /\ tx'[s] = Idle
         /\ \A t \in Sessions : t # s => tx'[t] = tx[t]
  BY Values, MoveFacts DEF Leave

(* What a commit makes of the conversations.                                 *)
LEMMA SavedFacts ==
  ASSUME conv \in [Convs -> ConvRow], NEW s \in Sessions, tx[s] \in SessionRow,
         tx[s].conv \in Convs, NEW new \in ConvRow
  PROVE  LET c == tx[s].conv
             saved == Saved(s, new)
         IN
         /\ saved \in [Convs -> ConvRow]
         /\ \A d \in Convs : d # c => saved[d] = conv[d]
         /\ tx[s].new => saved[c] = new
         /\ ~ tx[s].new =>
              \A f \in {"status", "handoff", "ai"} :
                saved[c][f] = IF new[f] # tx[s].copy[f] THEN new[f] ELSE conv[c][f]
         /\ ~ tx[s].new /\ new = tx[s].copy => saved = conv
<1> DEFINE c == tx[s].conv
           old == conv[c]
           row == [f \in DOMAIN old |-> IF new[f] # tx[s].copy[f] THEN new[f] ELSE old[f]]
<1>1. old \in ConvRow /\ tx[s].copy \in ConvRow
  BY DEF SessionRow
<1>2. DOMAIN old = {"status", "handoff", "ai"}
  BY <1>1 DEF ConvRow
<1>3. row \in ConvRow /\ \A f \in {"status", "handoff", "ai"} :
        row[f] = IF new[f] # tx[s].copy[f] THEN new[f] ELSE old[f]
  BY <1>1, <1>2 DEF ConvRow
<1>4. new = tx[s].copy => row = old
  BY <1>1, <1>2 DEF ConvRow
<1>5. Saved(s, new) = [conv EXCEPT ![c] = IF tx[s].new THEN new ELSE row]
  BY DEF Saved
<1> HIDE DEF row
<1> QED
  BY <1>3, <1>4, <1>5

(* The row a request goes on with.                                           *)
LEMMA GoesOn ==
  ASSUME NEW r \in SessionRow, NEW pc \in {"found"} \cup Working
  PROVE  LET row == [r EXCEPT !.pc = pc] IN
         /\ row \in SessionRow /\ row.pc = pc
         /\ row.msg = r.msg /\ row.conv = r.conv /\ row.copy = r.copy
         /\ row.new = r.new /\ row.reply = r.reply /\ row.report = r.report
  BY DEF SessionRow, Working
-----------------------------------------------------------------------------
(* Types, and what a request holds.                                          *)
LEMMA PointStep ==
  ASSUME IInv, NEW s \in Sessions, NEW row \in SessionRow, Move(s, row),
         row.pc \in {"new", "found"} \cup Working => row.msg \in Msgs,
         row.pc \in {"found"} \cup Working => row.conv \in Convs,
         row.new => row.pc \in {"found"} \cup Working,
         row.pc = "status" => row.report \in Report,
         conv' \in [Convs -> ConvRow], inbound' \in [Msgs -> Convs \cup {None}],
         out' \in [Msgs -> OutRow], keys' \subseteq reported, UNCHANGED reported,
         sends' \in [Msgs -> Nat], unsaved' \in [Msgs -> Nat],
         crashes' \in 0..MaxCrashes, taken' \subseteq Sessions
  PROVE  TypeOK' /\ AtPoint'
<1>1. /\ tx' \in [Sessions -> SessionRow] /\ tx'[s] = row
      /\ \A t \in Sessions : t # s => tx'[t] = tx[t]
  BY MoveFacts DEF IInv
<1>2. TypeOK'
  BY <1>1 DEF IInv, TypeOK
<1>3. AtPoint'
  BY <1>1 DEF IInv, AtPoint
<1> QED
  BY <1>2, <1>3

(* Steps that send nothing and begin to work on nothing.                     *)
LEMMA CalmStep ==
  ASSUME IInv, NEW s \in Sessions, NEW row \in SessionRow, Move(s, row),
         UNCHANGED <<sends, unsaved>>,
         \A m \in Msgs : inbound[m] # None => inbound'[m] # None,
         tx[s].pc = "accepted" => inbound'[tx[s].msg] # None,
         row.pc \in Working => tx[s].pc \in Working \ {"accepted"} /\ row.msg = tx[s].msg,
         row.pc # "accepted"
  PROVE  OneWorker' /\ Counted'
<1>1. /\ tx'[s] = row
      /\ \A t \in Sessions : t # s => tx'[t] = tx[t]
  BY MoveFacts DEF IInv
<1>2. OneWorker'
  BY <1>1 DEF IInv, OneWorker, Working
<1>3. \A t \in Sessions : tx'[t].pc \in Working \ {"accepted"} =>
                            sends'[tx'[t].msg] <= unsaved'[tx'[t].msg]
  BY <1>1 DEF IInv, Counted, Working
<1>4. ASSUME NEW m \in Msgs, sends'[m] > unsaved'[m], inbound'[m] = None
      PROVE  \E t \in Sessions : tx'[t].pc = "accepted" /\ tx'[t].msg = m
  <2>1. PICK t \in Sessions : tx[t].pc = "accepted" /\ tx[t].msg = m
    BY <1>4 DEF IInv, Counted
  <2>2. t # s
    BY <1>4, <2>1
  <2> QED
    BY <1>1, <2>1, <2>2
<1> QED
  BY <1>2, <1>3, <1>4 DEF IInv, Counted

(* Steps that leave the conversations alone.                                 *)
LEMMA SameConversations ==
  ASSUME IInv, NEW s \in Sessions, NEW row \in SessionRow, Move(s, row),
         UNCHANGED conv,
         row.new => /\ row.copy = Opened
                    /\ \A c \in Convs : conv[c].status \notin Active
                    /\ \A t \in Sessions : t # s => ~ tx[t].new,
         row.pc \in {"found"} \cup Working => (row.new <=> conv[row.conv].status = "NONE"),
         taken' \subseteq taken \cup {s}, taken' # {} => Taken,
         s \in taken' => row.pc \notin Machine
  PROVE  OneActive' /\ Creating' /\ TakenHolds' /\ TakenQuiet'
<1>1. /\ tx'[s] = row
      /\ \A t \in Sessions : t # s => tx'[t] = tx[t]
  BY MoveFacts DEF IInv
<1>2. OneActive'
  BY DEF IInv, OneActive
<1>3. Creating'
  BY <1>1 DEF IInv, Creating
<1>4. TakenHolds'
  BY DEF TakenHolds, Taken
<1>5. TakenQuiet'
  <2> SUFFICES ASSUME NEW t \in taken' PROVE tx'[t].pc \notin Machine
    BY DEF TakenQuiet
  <2>1. CASE t = s
    BY <1>1, <2>1
  <2>2. CASE t # s
    BY <1>1, <2>2 DEF IInv, TakenQuiet, TypeOK
  <2> QED
    BY <2>1, <2>2
<1> QED
  BY <1>2, <1>3, <1>4, <1>5

(* Steps that leave the replies alone and handle no report.                  *)
LEMMA SameReplies ==
  ASSUME IInv, NEW s \in Sessions, NEW row \in SessionRow, Move(s, row),
         UNCHANGED <<out, keys, reported>>,
         \A m \in Msgs : inbound[m] # None => inbound'[m] # None,
         row.pc # "status",
         row.pc \in Working => out[row.msg] = NoReply,
         row.pc = "accepted" => row.reply.status \in {"SENT", "FAILED", "UNKNOWN"}
  PROVE  Replies' /\ Reporting'
<1>1. /\ tx'[s] = row
      /\ \A t \in Sessions : t # s => tx'[t] = tx[t]
  BY MoveFacts DEF IInv
<1>2. Replies'
  BY <1>1 DEF IInv, Replies, Known
<1>3. Reporting'
  BY <1>1 DEF IInv, Reporting, Known
<1> QED
  BY <1>2, <1>3

(* A conversation that exists is active or closed.                           *)
LEMMA ActiveOrClosed ==
  ASSUME NEW row \in ConvRow, row.status # "NONE"
  PROVE  row.status \in Active \cup {"CLOSED"}
  BY DEF ConvRow

(* Steps that write a conversation: the request may have created it, or      *)
(* handed it to a human.                                                     *)
LEMMA SavedConversation ==
  ASSUME IInv, NEW s \in Sessions, NEW row \in SessionRow, Move(s, row),
         tx[s].pc \in {"found"} \cup Working, UNCHANGED taken,
         NEW new \in {tx[s].copy, HandedOff(tx[s].copy)}, conv' = Saved(s, new),
         new # tx[s].copy /\ Reopens(s) =>
           /\ \A t \in Sessions : ~ tx[t].new
           /\ \A c \in Convs : conv[c].status \notin Active,
         ~ row.new, row.pc \in {"found"} \cup Working => row.conv = tx[s].conv,
         row.pc \in Machine => tx[s].pc \in Machine
  PROVE  /\ conv' \in [Convs -> ConvRow]
         /\ OneActive' /\ Creating' /\ TakenHolds' /\ TakenQuiet'
<1> DEFINE c == tx[s].conv
           copy == tx[s].copy
           handed == HandedOff(copy)
<1>1. /\ tx'[s] = row
      /\ \A t \in Sessions : t # s => tx'[t] = tx[t]
  BY MoveFacts DEF IInv
<1>2. c \in Convs /\ copy \in ConvRow /\ conv \in [Convs -> ConvRow] /\ tx[s] \in SessionRow
  BY DEF IInv, AtPoint, TypeOK, SessionRow
<1>3. /\ handed \in ConvRow /\ handed.ai = copy.ai
      /\ handed # copy => handed.handoff = TRUE /\ handed.status = "WAITING_HUMAN"
  BY <1>2, Values DEF HandedOff, ConvRow
<1> HIDE DEF handed
<1>4. new \in ConvRow /\ new.ai = copy.ai /\ (new = copy \/ (new # copy /\ new = handed))
  BY <1>2, <1>3 DEF handed
<1>5. /\ conv' \in [Convs -> ConvRow]
      /\ \A d \in Convs : d # c => conv'[d] = conv[d]
      /\ tx[s].new => conv'[c] = new
      /\ ~ tx[s].new => /\ conv'[c].status = IF new.status # copy.status THEN new.status ELSE conv[c].status
                        /\ conv'[c].handoff = IF new.handoff # copy.handoff THEN new.handoff ELSE conv[c].handoff
                        /\ conv'[c].ai = conv[c].ai
      /\ ~ tx[s].new /\ new = copy => conv' = conv
  BY <1>2, <1>4, SavedFacts
<1>6. TakenQuiet'
  BY <1>1 DEF IInv, TakenQuiet, TypeOK
<1>7. CASE tx[s].new
  <2>1. /\ \A d \in Convs : conv[d].status \notin Active
        /\ copy = Opened /\ \A t \in Sessions : tx[t].new => t = s
    BY <1>7 DEF IInv, Creating
  <2>2. new.status \in Active
    BY <1>3, <1>4, <2>1, Values
  <2>3. OneActive'
    BY <1>5, <2>1 DEF OneActive
  <2>4. Creating'
    BY <1>1, <1>2, <1>5, <1>7, <2>1, <2>2, Values DEF IInv, Creating, AtPoint
  <2>5. taken = {}
    BY <2>1 DEF IInv, TakenHolds, Taken
  <2> QED
    BY <1>5, <1>6, <2>3, <2>4, <2>5 DEF TakenHolds
<1>8. CASE ~ tx[s].new /\ new = copy
  <2>1. UNCHANGED conv
    BY <1>5, <1>8
  <2>2. OneActive' /\ TakenHolds'
    BY <2>1 DEF IInv, OneActive, TakenHolds, Taken
  <2>3. Creating'
    BY <1>1, <1>8, <2>1 DEF IInv, Creating
  <2> QED
    BY <1>5, <1>6, <2>2, <2>3
<1>9. CASE ~ tx[s].new /\ new # copy
  <2>1. /\ new.handoff = TRUE /\ new.status = "WAITING_HUMAN"
    BY <1>3, <1>4, <1>9
  <2>2. conv[c].status \in Active \cup {"CLOSED"} /\ conv'[c].status \in {conv[c].status, "WAITING_HUMAN"}
    BY <1>2, <1>5, <1>9, <2>1, ActiveOrClosed DEF IInv, Creating
  <2>3. conv'[c].status # "NONE"
    BY <2>2, Values
  <2>4. conv'[c].handoff \in {conv[c].handoff, TRUE} /\ conv'[c].ai = conv[c].ai
    BY <1>5, <1>9, <2>1
  <2>5. CASE conv[c].status \in Active \/ conv'[c].status = "CLOSED"
    <3>1. \A d \in Convs : conv'[d].status \in Active => conv[d].status \in Active
      BY <1>5, <2>5, Values
    <3>2. OneActive'
      BY <3>1 DEF IInv, OneActive
    <3>3. \A t \in Sessions : tx'[t].new => t # s /\ tx[t].new
      BY <1>1
    <3>4. \A t \in Sessions : tx'[t].pc \in {"found"} \cup Working =>
             (tx'[t].new <=> conv'[tx'[t].conv].status = "NONE")
      <4> SUFFICES ASSUME NEW t \in Sessions, tx'[t].pc \in {"found"} \cup Working
                   PROVE  tx'[t].new <=> conv'[tx'[t].conv].status = "NONE"
        OBVIOUS
      <4>1. CASE t = s
        BY <1>1, <2>3, <4>1
      <4>2. CASE t # s
        <5>1. tx[t].conv \in Convs /\ (tx[t].new <=> conv[tx[t].conv].status = "NONE")
          BY <1>1, <4>2 DEF IInv, Creating, AtPoint
        <5> QED
          BY <1>1, <1>5, <2>2, <2>3, <4>2, <5>1, Values
      <4> QED
        BY <4>1, <4>2
    <3>5. Creating'
      BY <1>1, <3>1, <3>3, <3>4 DEF IInv, Creating
    <3>6. TakenHolds'
      <4> SUFFICES ASSUME taken # {} PROVE Taken'
        BY DEF TakenHolds
      <4>1. PICK d \in Convs : /\ conv[d].status \in Active
                               /\ conv[d].handoff \/ ~ conv[d].ai \/ conv[d].status \in HumanStatus
        BY DEF IInv, TakenHolds, Taken
      <4>2. CASE d # c
        <5>1. conv'[d] = conv[d]
          BY <1>5, <4>2
        <5> QED
          BY <4>1, <5>1, Zenon DEF Taken
      <4>3. CASE d = c
        <5>0. conv[c].status \in Active
          BY <4>1, <4>3, Zenon
        <5>1. conv'[c].status \in Active
          BY <2>2, <5>0, Values
        <5>2. conv'[c].handoff \/ ~ conv'[c].ai \/ conv'[c].status \in HumanStatus
          BY <2>2, <2>4, <4>1, <4>3 DEF HumanStatus
        <5> QED
          BY <1>2, <5>1, <5>2 DEF Taken
      <4> QED
        BY <4>2, <4>3
    <3> QED
      BY <1>5, <1>6, <3>2, <3>5, <3>6
  <2>6. CASE conv[c].status = "CLOSED" /\ conv'[c].status \in Active
    <3>1. Reopens(s)
      <4>1. \/ new = HandedOff(tx[s].copy)
            \/ new = tx[s].copy
        OBVIOUS
      <4> QED
        BY <1>9, <2>6, <4>1 DEF Reopens
    <3>2. /\ \A t \in Sessions : ~ tx[t].new
          /\ \A d \in Convs : conv[d].status \notin Active
      BY <1>9, <3>1
    <3>3. OneActive'
      BY <1>5, <3>2 DEF OneActive
    <3>4. Creating'
      BY <1>1, <1>2, <1>5, <2>3, <3>2 DEF IInv, Creating, AtPoint
    <3>5. taken = {}
      BY <3>2 DEF IInv, TakenHolds, Taken
    <3> QED
      BY <1>5, <1>6, <3>3, <3>4, <3>5 DEF TakenHolds
  <2> QED
    BY <2>2, <2>5, <2>6, Values
<1> QED
  BY <1>7, <1>8, <1>9

(* Steps that store the reply: no report of it can be under way.             *)
LEMMA SavedReply ==
  ASSUME IInv, NEW s \in Sessions, Move(s, Idle), tx[s].pc \in Working,
         NEW reply \in OutRow, reply.status \in {"SENT", "FAILED", "UNKNOWN"},
         out' = [out EXCEPT ![tx[s].msg] = reply],
         inbound' = [inbound EXCEPT ![tx[s].msg] = tx[s].conv],
         UNCHANGED <<keys, reported>>
  PROVE  Replies' /\ Reporting'
<1> DEFINE m == tx[s].msg
<1>1. /\ tx'[s] = Idle
      /\ \A t \in Sessions : t # s => tx'[t] = tx[t]
  BY Values, MoveFacts DEF IInv
<1>2. m \in Msgs /\ tx[s].conv \in Convs /\ tx[s].conv # None
  BY NoneAssumption DEF IInv, AtPoint
<1>3. /\ out'[m] = reply /\ inbound'[m] # None
      /\ \A n \in Msgs : n # m => out'[n] = out[n] /\ inbound'[n] = inbound[n]
  BY <1>2 DEF IInv, TypeOK
<1>4. out[m] = NoReply /\ NoReply.id = 0
  BY DEF IInv, Replies, NoReply
<1>5. Replies'
  <2>1. ASSUME NEW t \in Sessions, tx'[t].pc \in Working
        PROVE  out'[tx'[t].msg] = NoReply
    <3>1. t # s /\ tx[t].pc \in Working
      BY <1>1, <2>1, Values DEF Working
    <3>2. tx[t].msg \in Msgs /\ tx[t].msg # m
      BY <3>1 DEF IInv, OneWorker, AtPoint
    <3> QED
      BY <1>1, <1>3, <3>1, <3>2 DEF IInv, Replies
  <2>2. \A n \in Msgs : out'[n] = NoReply \/ Known(keys', n, out'[n])
    BY <1>3 DEF IInv, Replies, Known
  <2>3. \A n \in Msgs : inbound'[n] = None => out'[n] = NoReply
    BY <1>3 DEF IInv, Replies
  <2>4. \A t \in Sessions : tx'[t].pc = "accepted" => tx'[t].reply.status \in {"SENT", "FAILED", "UNKNOWN"}
    BY <1>1, Values DEF IInv, Replies
  <2> QED
    BY <2>1, <2>2, <2>3, <2>4 DEF Replies
<1>6. Reporting'
  <2>1. \A r \in reported' : r.id > 0
    BY DEF IInv, Reporting
  <2>2. \A t, u \in Sessions :
           tx'[t].pc = "status" /\ tx'[u].pc = "status" /\ tx'[t].report = tx'[u].report => t = u
    BY <1>1, Values DEF IInv, Reporting
  <2>3. ASSUME NEW t \in Sessions, tx'[t].pc = "status"
        PROVE  LET r == tx'[t].report IN
               /\ r \in reported' \ keys'
               /\ \/ tx'[t].reply.status = "NONE"
                  \/ /\ Known(keys', r.msg, tx'[t].reply)
                     /\ tx'[t].reply.id = r.id /\ out'[r.msg].id = r.id
    <3>1. t # s /\ tx'[t] = tx[t]
      BY <1>1, <2>3, Values
    <3> DEFINE r == tx[t].report
    <3>2. r \in reported \ keys /\ r.id > 0 /\ r \in Report
      BY <2>3, <3>1 DEF IInv, Reporting, AtPoint
    <3>3. CASE tx[t].reply.status = "NONE"
      BY <3>1, <3>2, <3>3
    <3>4. CASE tx[t].reply.status # "NONE"
      <4>1. Known(keys, r.msg, tx[t].reply) /\ tx[t].reply.id = r.id /\ out[r.msg].id = r.id
        BY <2>3, <3>1, <3>4 DEF IInv, Reporting
      <4>2. r.msg # m /\ r.msg \in Msgs
        BY <1>4, <3>2, <4>1 DEF Report
      <4>3. Known(keys', r.msg, tx[t].reply) /\ out'[r.msg] = out[r.msg]
        BY <1>3, <3>1, <4>1, <4>2 DEF Known
      <4> QED
        BY <3>1, <3>2, <4>1, <4>3
    <3> QED
      BY <3>3, <3>4
  <2> QED
    BY <2>1, <2>2, <2>3 DEF Reporting
<1> QED
  BY <1>5, <1>6

(* A request that ends without a trace.                                      *)
LEMMA Ended ==
  ASSUME IInv, NEW s \in Sessions, Leave(s), tx[s].pc # "accepted",
         UNCHANGED <<conv, inbound, out, keys, sends, reported, unsaved, taken>>,
         crashes' \in 0..MaxCrashes
  PROVE  IInv'
<1>1. Idle \in SessionRow /\ Idle.pc = "idle" /\ Idle.new = FALSE /\ Move(s, Idle)
  BY Values DEF Leave
<1> HIDE DEF Idle
<1>2. TypeOK' /\ AtPoint'
  BY <1>1, PointStep DEF IInv, TypeOK, Working
<1>3. OneWorker' /\ Counted'
  BY <1>1, CalmStep DEF Working
<1>4. OneActive' /\ Creating' /\ TakenHolds' /\ TakenQuiet'
  BY <1>1, SameConversations DEF Working, Machine, IInv, TakenHolds
<1>5. Replies' /\ Reporting'
  BY <1>1, SameReplies DEF Working
<1> QED
  BY <1>2, <1>3, <1>4, <1>5 DEF IInv

-----------------------------------------------------------------------------
(* The actions, in the order of a request.                                   *)
LEMMA Received ==
  ASSUME IInv, NEW s \in Sessions, NEW m \in Msgs, ReceiveMessage(s, m)
  PROVE  IInv'
<1> DEFINE row == [Idle EXCEPT !.pc = "new", !.msg = m]
<1>1. row \in SessionRow /\ row.pc = "new" /\ row.msg = m /\ row.new = FALSE
  <2> HIDE DEF Idle
  <2>1. \A r \in SessionRow : LET n == [r EXCEPT !.pc = "new", !.msg = m] IN
          n \in SessionRow /\ n.pc = "new" /\ n.msg = m /\ n.new = r.new
    BY DEF SessionRow
  <2> QED
    BY <2>1, Values
<1>2. /\ Move(s, row) /\ taken' = (IF Taken THEN taken \cup {s} ELSE taken \ {s})
      /\ UNCHANGED <<conv, inbound, out, keys, sends, reported, crashes, unsaved>>
      /\ tx[s].pc = "idle"
  BY DEF ReceiveMessage
<1> HIDE DEF row
<1>3. TypeOK' /\ AtPoint'
  BY <1>1, <1>2, PointStep DEF IInv, TypeOK, Working
<1>4. OneWorker' /\ Counted'
  BY <1>1, <1>2, CalmStep DEF Working
<1>5. taken' \subseteq taken \cup {s} /\ (taken' # {} => Taken)
  BY <1>2 DEF IInv, TakenHolds
<1>6. OneActive' /\ Creating' /\ TakenHolds' /\ TakenQuiet'
  BY <1>1, <1>2, <1>5, SameConversations DEF Working, Machine
<1>7. Replies' /\ Reporting'
  BY <1>1, <1>2, SameReplies DEF Working
<1> QED
  BY <1>3, <1>4, <1>6, <1>7 DEF IInv

LEMMA Found ==
  ASSUME IInv, NEW s \in Sessions, FindConversation(s)
  PROVE  IInv'
<1>1. /\ tx[s].pc = "new" /\ tx[s] \in SessionRow /\ tx[s].msg \in Msgs /\ ~ tx[s].new
      /\ UNCHANGED <<conv, inbound, out, keys, sends, reported, crashes, unsaved, taken>>
  BY DEF FindConversation, IInv, TypeOK, AtPoint, Working
<1>2. PICK c \in Convs :
        \/ /\ conv[c].status \in Active
           /\ Move(s, [tx[s] EXCEPT !.pc = "found", !.conv = c, !.copy = conv[c]])
        \/ /\ \A d \in Convs : conv[d].status \notin Active
           /\ \A t \in Sessions : ~ tx[t].new
           /\ conv[c].status = "NONE"
           /\ Move(s, [tx[s] EXCEPT !.pc = "found", !.conv = c, !.copy = Opened, !.new = TRUE])
  BY DEF FindConversation
<1>3. PICK row \in SessionRow :
        /\ Move(s, row) /\ row.pc = "found" /\ row.conv = c /\ row.msg = tx[s].msg
        /\ \/ conv[c].status \in Active /\ row.new = FALSE
           \/ /\ \A d \in Convs : conv[d].status \notin Active
              /\ \A t \in Sessions : ~ tx[t].new
              /\ conv[c].status = "NONE" /\ row.new = TRUE /\ row.copy = Opened
  <2>1. conv[c] \in ConvRow /\ Opened \in ConvRow
    BY Values DEF IInv, TypeOK
  <2>2. CASE /\ conv[c].status \in Active
             /\ Move(s, [tx[s] EXCEPT !.pc = "found", !.conv = c, !.copy = conv[c]])
    <3> DEFINE row == [tx[s] EXCEPT !.pc = "found", !.conv = c, !.copy = conv[c]]
    <3>1. row \in SessionRow /\ row.pc = "found" /\ row.conv = c /\ row.msg = tx[s].msg /\ row.new = tx[s].new
      BY <1>1, <2>1 DEF SessionRow
    <3>2. row.new = FALSE
      BY <1>1, <3>1 DEF SessionRow
    <3> QED
      BY <2>2, <3>1, <3>2
  <2>3. CASE /\ \A d \in Convs : conv[d].status \notin Active
             /\ \A t \in Sessions : ~ tx[t].new
             /\ conv[c].status = "NONE"
             /\ Move(s, [tx[s] EXCEPT !.pc = "found", !.conv = c, !.copy = Opened, !.new = TRUE])
    <3> DEFINE row == [tx[s] EXCEPT !.pc = "found", !.conv = c, !.copy = Opened, !.new = TRUE]
    <3>1. row \in SessionRow /\ row.pc = "found" /\ row.conv = c /\ row.msg = tx[s].msg
          /\ row.new = TRUE /\ row.copy = Opened
      <4> HIDE DEF Opened
      <4> QED
        BY <1>1, <2>1 DEF SessionRow
    <3> QED
      BY <2>3, <3>1
  <2> QED
    BY <1>2, <2>2, <2>3
<1>4. TypeOK' /\ AtPoint'
  BY <1>1, <1>3, PointStep DEF IInv, TypeOK, Working
<1>5. OneWorker' /\ Counted'
  BY <1>1, <1>3, CalmStep DEF Working
<1>6. row.new <=> conv[c].status = "NONE"
  BY <1>3, Values
<1>7. OneActive' /\ Creating' /\ TakenHolds' /\ TakenQuiet'
  <2>1. row.new => /\ row.copy = Opened
                   /\ \A d \in Convs : conv[d].status \notin Active
                   /\ \A t \in Sessions : t # s => ~ tx[t].new
    BY <1>3
  <2>2. taken' # {} => Taken
    BY <1>1 DEF IInv, TakenHolds
  <2> QED
    BY <1>1, <1>3, <1>6, <2>1, <2>2, SameConversations DEF Working, Machine
<1>8. Replies' /\ Reporting'
  BY <1>1, <1>3, SameReplies DEF Working
<1> QED
  BY <1>4, <1>5, <1>7, <1>8 DEF IInv

LEMMA Stored ==
  ASSUME IInv, NEW s \in Sessions, StoreMessage(s)
  PROVE  IInv'
<1> DEFINE row == [tx[s] EXCEPT !.pc = "stored"]
           m == tx[s].msg
<1>1. /\ tx[s].pc = "found" /\ tx[s] \in SessionRow /\ m \in Msgs /\ tx[s].conv \in Convs
      /\ inbound[m] = None /\ Move(s, row)
      /\ UNCHANGED <<conv, inbound, out, keys, sends, reported, crashes, unsaved, taken>>
  BY DEF StoreMessage, IInv, TypeOK, AtPoint
<1>2. \A t \in Sessions : ~ (tx[t].pc \in Working /\ tx[t].msg = m)
  BY <1>1 DEF StoreMessage, Holds, Working
<1>3. /\ row \in SessionRow /\ row.pc = "stored" /\ row.msg = m /\ row.conv = tx[s].conv
      /\ row.copy = tx[s].copy /\ row.new = tx[s].new
  BY <1>1, GoesOn DEF Working
<1> HIDE DEF row
<1>4. TypeOK' /\ AtPoint'
  BY <1>1, <1>3, PointStep DEF IInv, TypeOK, Working
<1>5. /\ tx'[s] = row
      /\ \A t \in Sessions : t # s => tx'[t] = tx[t]
  BY <1>1, <1>3, MoveFacts DEF IInv
<1>6. OneWorker'
  BY <1>2, <1>3, <1>5 DEF IInv, OneWorker
<1>7. Counted'
  <2>1. sends[m] <= unsaved[m]
    <3>1. \A t \in Sessions : ~ (tx[t].pc = "accepted" /\ tx[t].msg = m)
      BY <1>2 DEF Working
    <3>2. sends[m] \in Nat /\ unsaved[m] \in Nat
      BY <1>1 DEF IInv, TypeOK
    <3>3. ~ sends[m] > unsaved[m]
      BY <1>1, <3>1 DEF IInv, Counted
    <3> QED
      BY <3>2, <3>3
  <2>2. \A t \in Sessions : tx'[t].pc \in Working \ {"accepted"} => sends[tx'[t].msg] <= unsaved[tx'[t].msg]
    BY <1>3, <1>5, <2>1 DEF IInv, Counted
  <2>3. ASSUME NEW n \in Msgs, sends[n] > unsaved[n], inbound[n] = None
        PROVE  \E t \in Sessions : tx'[t].pc = "accepted" /\ tx'[t].msg = n
    <3>1. PICK t \in Sessions : tx[t].pc = "accepted" /\ tx[t].msg = n
      BY <2>3 DEF IInv, Counted
    <3> QED
      BY <1>1, <1>5, <3>1
  <2> QED
    BY <1>1, <2>2, <2>3 DEF IInv, Counted
<1>8. OneActive' /\ Creating' /\ TakenHolds' /\ TakenQuiet'
  <2>1. row.new => /\ row.copy = Opened
                   /\ \A d \in Convs : conv[d].status \notin Active
                   /\ \A t \in Sessions : t # s => ~ tx[t].new
    BY <1>3 DEF IInv, Creating
  <2>2. (taken' # {} => Taken) /\ (row.new <=> conv[row.conv].status = "NONE")
    BY <1>1, <1>3 DEF IInv, TakenHolds, Creating
  <2> QED
    BY <1>1, <1>3, <2>1, <2>2, SameConversations DEF Working, Machine
<1>9. Replies' /\ Reporting'
  <2>1. out[m] = NoReply
    BY <1>1 DEF IInv, Replies
  <2> QED
    BY <1>1, <1>3, <2>1, SameReplies
<1> QED
  BY <1>4, <1>6, <1>7, <1>8, <1>9 DEF IInv

LEMMA Duplicate ==
  ASSUME IInv, NEW s \in Sessions, DuplicateMessage(s)
  PROVE  IInv'
<1>1. /\ Idle \in SessionRow /\ Idle.pc = "idle" /\ Idle.new = FALSE /\ Move(s, Idle)
      /\ tx[s].pc = "found" /\ conv' = Saved(s, tx[s].copy)
      /\ UNCHANGED <<inbound, out, keys, sends, reported, crashes, unsaved, taken>>
  BY Values DEF DuplicateMessage, Leave
<1> HIDE DEF Idle
<1>2. /\ conv' \in [Convs -> ConvRow]
      /\ OneActive' /\ Creating' /\ TakenHolds' /\ TakenQuiet'
  BY <1>1, SavedConversation DEF Working, Machine
<1>3. TypeOK' /\ AtPoint'
  BY <1>1, <1>2, PointStep DEF IInv, TypeOK, Working
<1>4. OneWorker' /\ Counted'
  BY <1>1, CalmStep DEF Working
<1>5. Replies' /\ Reporting'
  BY <1>1, SameReplies DEF Working
<1> QED
  BY <1>2, <1>3, <1>4, <1>5 DEF IInv

(* A request that began after the takeover has found the conversation that   *)
(* was taken over, or one that is closed.                                    *)
LEMMA Routed ==
  ASSUME IInv, NEW s \in Sessions, RouteMessage(s)
  PROVE  IInv'
<1> DEFINE c   == tx[s].conv
           got == IF tx[s].new THEN tx[s].copy ELSE conv[c]
<1>1. /\ tx[s].pc = "stored" /\ tx[s] \in SessionRow /\ tx[s].msg \in Msgs /\ c \in Convs
      /\ UNCHANGED <<conv, inbound, out, keys, sends, reported, crashes, unsaved, taken>>
  BY DEF RouteMessage, IInv, TypeOK, AtPoint, Working
<1>2. PICK pc \in (IF Owned(got) THEN {"human"} ELSE {"human", "answering"}) :
        Move(s, [tx[s] EXCEPT !.pc = pc, !.copy = got])
  BY DEF RouteMessage
<1> DEFINE row == [tx[s] EXCEPT !.pc = pc, !.copy = got]
<1>3. got \in ConvRow /\ tx[s].copy \in ConvRow /\ conv[c] \in ConvRow
  BY <1>1 DEF IInv, TypeOK, SessionRow
<1>4. /\ row \in SessionRow /\ row.pc = pc /\ row.copy = got /\ row.msg = tx[s].msg
      /\ row.conv = c /\ row.new = tx[s].new
  <2> HIDE DEF got
  <2>1. pc \in {"human", "answering"}
    OBVIOUS
  <2> QED
    BY <1>1, <1>3, <2>1 DEF SessionRow
<1>5. pc \in {"human", "answering"} /\ (Owned(got) => pc = "human")
  OBVIOUS
<1>6. Move(s, row)
  BY <1>2
<1>7. row.new => /\ row.copy = Opened
                 /\ \A d \in Convs : conv[d].status \notin Active
                 /\ \A t \in Sessions : t # s => ~ tx[t].new
  BY <1>4 DEF IInv, Creating
<1>8. row.new <=> conv[row.conv].status = "NONE"
  BY <1>1, <1>4 DEF IInv, Creating, Working
<1> HIDE DEF row
<1>9. s \in taken => row.pc \notin Machine
  <2> SUFFICES ASSUME s \in taken PROVE Owned(got)
    BY <1>4, <1>5 DEF Machine
  <2>1. PICK d \in Convs : /\ conv[d].status \in Active
                           /\ conv[d].handoff \/ ~ conv[d].ai \/ conv[d].status \in HumanStatus
    BY DEF IInv, TakenHolds, Taken
  <2>2. conv[d].status \in Active
    BY <2>1, Zenon
  <2>3. ~ tx[s].new /\ got = conv[c]
    BY <1>4, <1>7, <2>2
  <2>4. CASE conv[c].status \in Active
    <3>1. c = d
      BY <1>1, <2>2, <2>4 DEF IInv, OneActive
    <3>2. conv[c].handoff \/ ~ conv[c].ai \/ conv[c].status \in HumanStatus
      BY <2>1, <3>1, Zenon
    <3> HIDE DEF got, c
    <3> QED
      BY <2>3, <3>2, Zenon DEF Owned
  <2>5. CASE conv[c].status \notin Active
    <3>1. conv[c].status = "CLOSED"
      BY <1>3, <1>4, <1>8, <2>3, <2>5, ActiveOrClosed
    <3>2. conv[c].status \in HumanStatus
      BY <3>1 DEF HumanStatus
    <3> HIDE DEF got, c
    <3> QED
      BY <2>3, <3>2, Zenon DEF Owned
  <2> QED
    BY <2>4, <2>5
<1> HIDE DEF got
<1>10. TypeOK' /\ AtPoint'
  BY <1>1, <1>4, <1>5, <1>6, PointStep DEF IInv, TypeOK, Working
<1>11. OneWorker' /\ Counted'
  BY <1>1, <1>4, <1>5, <1>6, CalmStep DEF Working
<1>12. OneActive' /\ Creating' /\ TakenHolds' /\ TakenQuiet'
  <2>1. taken' # {} => Taken
    BY <1>1 DEF IInv, TakenHolds
  <2> QED
    BY <1>1, <1>4, <1>6, <1>7, <1>8, <1>9, <2>1, SameConversations
<1>13. Replies' /\ Reporting'
  <2>1. out[tx[s].msg] = NoReply
    BY <1>1 DEF IInv, Replies, Working
  <2> QED
    BY <1>1, <1>4, <1>5, <1>6, <2>1, SameReplies
<1> QED
  BY <1>10, <1>11, <1>12, <1>13 DEF IInv

(* Steps that store the message, its conversation and the reply.             *)
LEMMA Committed ==
  ASSUME IInv, NEW s \in Sessions, tx[s].pc \in Working,
         NEW new \in {tx[s].copy, HandedOff(tx[s].copy)},
         new # tx[s].copy /\ Reopens(s) =>
           /\ \A t \in Sessions : ~ tx[t].new
           /\ \A c \in Convs : conv[c].status \notin Active,
         NEW reply \in OutRow, reply.status \in {"SENT", "FAILED", "UNKNOWN"},
         CommitMessage(s, new, reply),
         UNCHANGED <<keys, sends, reported, crashes, unsaved, taken>>
  PROVE  IInv'
<1> DEFINE m == tx[s].msg
<1>1. /\ Idle \in SessionRow /\ Idle.pc = "idle" /\ Idle.new = FALSE /\ Move(s, Idle)
      /\ conv' = Saved(s, new)
      /\ inbound' = [inbound EXCEPT ![m] = tx[s].conv]
      /\ out' = [out EXCEPT ![m] = reply]
  BY Values DEF CommitMessage, Leave
<1> HIDE DEF Idle
<1>2. m \in Msgs /\ tx[s].conv \in Convs /\ tx[s].conv # None
  BY NoneAssumption DEF IInv, AtPoint
<1>3. /\ conv' \in [Convs -> ConvRow]
      /\ OneActive' /\ Creating' /\ TakenHolds' /\ TakenQuiet'
  BY <1>1, SavedConversation DEF Working, Machine
<1>4. /\ inbound' \in [Msgs -> Convs \cup {None}] /\ out' \in [Msgs -> OutRow]
      /\ inbound'[m] # None /\ \A n \in Msgs : inbound[n] # None => inbound'[n] # None
  BY <1>1, <1>2 DEF IInv, TypeOK
<1>5. TypeOK' /\ AtPoint'
  BY <1>1, <1>3, <1>4, PointStep DEF IInv, TypeOK, Working
<1>6. OneWorker' /\ Counted'
  BY <1>1, <1>4, CalmStep DEF Working
<1>7. Replies' /\ Reporting'
  BY <1>1, SavedReply
<1> QED
  BY <1>3, <1>5, <1>6, <1>7 DEF IInv

LEMMA Suppressed ==
  ASSUME IInv, NEW s \in Sessions, SuppressReply(s)
  PROVE  IInv'
<1> DEFINE failed == [status |-> "FAILED", id |-> 0]
<1>1. /\ tx[s].pc = "human" /\ (Reopens(s) => \A t \in Sessions : ~ tx[t].new)
      /\ UNCHANGED <<keys, sends, reported, crashes, unsaved, taken>>
  BY DEF SuppressReply
<1>2. CASE Reopens(s) /\ \E c \in Convs : conv[c].status \in Active
  <2>1. Leave(s) /\ UNCHANGED <<conv, inbound, out>>
    BY <1>2 DEF SuppressReply
  <2> QED
    BY <1>1, <2>1, Ended DEF IInv, TypeOK
<1>3. CASE ~ (Reopens(s) /\ \E c \in Convs : conv[c].status \in Active)
  <2>1. CommitMessage(s, HandedOff(tx[s].copy), failed)
    BY <1>3 DEF SuppressReply
  <2>2. failed \in OutRow /\ failed.status = "FAILED"
    BY StatusFacts DEF OutRow
  <2> HIDE DEF failed
  <2> QED
    BY <1>1, <1>3, <2>1, <2>2, Committed DEF Working
<1> QED
  BY <1>2, <1>3

LEMMA NotSent ==
  ASSUME IInv, NEW s \in Sessions, SendFails(s)
  PROVE  IInv'
<1> DEFINE failed == [status |-> "FAILED", id |-> 0]
<1>1. failed \in OutRow /\ failed.status = "FAILED"
  BY StatusFacts DEF OutRow
<1> HIDE DEF failed
<1>2. tx[s].pc = "sending" /\ CommitMessage(s, tx[s].copy, failed)
      /\ UNCHANGED <<keys, sends, reported, crashes, unsaved, taken>>
  BY DEF SendFails, failed
<1> QED
  BY <1>1, <1>2, Committed DEF Working

LEMMA Replied ==
  ASSUME IInv, NEW s \in Sessions, CommitReply(s)
  PROVE  IInv'
<1>1. /\ tx[s].pc = "accepted" /\ CommitMessage(s, tx[s].copy, tx[s].reply)
      /\ UNCHANGED <<keys, sends, reported, crashes, unsaved, taken>>
  BY DEF CommitReply
<1>2. tx[s].reply \in OutRow /\ tx[s].reply.status \in {"SENT", "FAILED", "UNKNOWN"}
  BY <1>1 DEF IInv, TypeOK, SessionRow, Replies
<1> QED
  BY <1>1, <1>2, Committed DEF Working

LEMMA Answered ==
  ASSUME IInv, NEW s \in Sessions, AnswerPlainly(s)
  PROVE  IInv'
<1> DEFINE row == [tx[s] EXCEPT !.pc = "sending"]
<1>1. /\ tx[s].pc = "answering" /\ tx[s] \in SessionRow /\ tx[s].msg \in Msgs /\ tx[s].conv \in Convs
      /\ Move(s, row)
      /\ UNCHANGED <<conv, inbound, out, keys, sends, reported, crashes, unsaved, taken>>
  BY DEF AnswerPlainly, IInv, TypeOK, AtPoint, Working
<1>2. /\ row \in SessionRow /\ row.pc = "sending" /\ row.msg = tx[s].msg /\ row.conv = tx[s].conv
      /\ row.copy = tx[s].copy /\ row.new = tx[s].new
  BY <1>1, GoesOn DEF Working
<1> HIDE DEF row
<1>3. TypeOK' /\ AtPoint'
  BY <1>1, <1>2, PointStep DEF IInv, TypeOK, Working
<1>4. OneWorker' /\ Counted'
  BY <1>1, <1>2, CalmStep DEF Working
<1>5. OneActive' /\ Creating' /\ TakenHolds' /\ TakenQuiet'
  <2>1. row.new => /\ row.copy = Opened
                   /\ \A d \in Convs : conv[d].status \notin Active
                   /\ \A t \in Sessions : t # s => ~ tx[t].new
    BY <1>2 DEF IInv, Creating
  <2>2. (taken' # {} => Taken) /\ s \notin taken' /\ (row.new <=> conv[row.conv].status = "NONE")
    BY <1>1, <1>2 DEF IInv, TakenHolds, TakenQuiet, Machine, Creating, Working
  <2> QED
    BY <1>1, <1>2, <2>1, <2>2, SameConversations
<1>6. Replies' /\ Reporting'
  <2>1. out[tx[s].msg] = NoReply
    BY <1>1 DEF IInv, Replies, Working
  <2> QED
    BY <1>1, <1>2, <2>1, SameReplies
<1> QED
  BY <1>3, <1>4, <1>5, <1>6 DEF IInv

LEMMA AnsweredByModel ==
  ASSUME IInv, NEW s \in Sessions, AnswerWithModel(s)
  PROVE  IInv'
<1> DEFINE row == [tx[s] EXCEPT !.pc = "sending", !.new = FALSE]
           m == tx[s].msg
<1>1. /\ tx[s].pc = "answering" /\ tx[s] \in SessionRow /\ m \in Msgs
      /\ tx[s].conv \in Convs /\ tx[s].conv # None
      /\ Move(s, row) /\ conv' = Saved(s, tx[s].copy)
      /\ inbound' = [inbound EXCEPT ![m] = tx[s].conv]
      /\ UNCHANGED <<out, keys, sends, reported, crashes, unsaved, taken>>
  BY NoneAssumption DEF AnswerWithModel, IInv, TypeOK, AtPoint, Working
<1>2. /\ row \in SessionRow /\ row.pc = "sending" /\ row.msg = m /\ row.conv = tx[s].conv
      /\ row.new = FALSE
  BY <1>1 DEF SessionRow
<1> HIDE DEF row
<1>3. /\ conv' \in [Convs -> ConvRow]
      /\ OneActive' /\ Creating' /\ TakenHolds' /\ TakenQuiet'
  BY <1>1, <1>2, SavedConversation DEF Working, Machine
<1>4. /\ inbound' \in [Msgs -> Convs \cup {None}]
      /\ \A n \in Msgs : inbound[n] # None => inbound'[n] # None
  BY <1>1 DEF IInv, TypeOK
<1>5. TypeOK' /\ AtPoint'
  BY <1>1, <1>2, <1>3, <1>4, PointStep DEF IInv, TypeOK, Working
<1>6. OneWorker' /\ Counted'
  BY <1>1, <1>2, <1>4, CalmStep DEF Working
<1>7. Replies' /\ Reporting'
  <2>1. out[m] = NoReply
    BY <1>1 DEF IInv, Replies, Working
  <2> QED
    BY <1>1, <1>2, <1>4, <2>1, SameReplies
<1> QED
  BY <1>3, <1>5, <1>6, <1>7 DEF IInv

LEMMA Accepted ==
  ASSUME IInv, NEW s \in Sessions, ProviderAccepts(s)
  PROVE  IInv'
<1> DEFINE m == tx[s].msg
<1>1. /\ tx[s].pc = "sending" /\ tx[s] \in SessionRow /\ m \in Msgs /\ tx[s].conv \in Convs
      /\ sends' = [sends EXCEPT ![m] = @ + 1]
      /\ UNCHANGED <<conv, inbound, out, keys, reported, crashes, unsaved, taken>>
  BY DEF ProviderAccepts, IInv, TypeOK, AtPoint, Working
<1>2. PICK reply \in Result(sends[m] + 1) : Move(s, [tx[s] EXCEPT !.pc = "accepted", !.reply = reply])
  BY DEF ProviderAccepts
<1> DEFINE row == [tx[s] EXCEPT !.pc = "accepted", !.reply = reply]
<1>3. reply \in OutRow /\ reply.status \in {"SENT", "FAILED", "UNKNOWN"}
  BY <1>1, StatusFacts DEF Result, OutRow, IInv, TypeOK
<1>4. /\ row \in SessionRow /\ row.pc = "accepted" /\ row.msg = m /\ row.conv = tx[s].conv
      /\ row.copy = tx[s].copy /\ row.new = tx[s].new /\ row.reply = reply
  BY <1>1, <1>3 DEF SessionRow
<1>5. Move(s, row)
  BY <1>2
<1> HIDE DEF row
<1>6. TypeOK' /\ AtPoint'
  <2>1. sends' \in [Msgs -> Nat]
    BY <1>1 DEF IInv, TypeOK
  <2> QED
    BY <1>1, <1>4, <1>5, <2>1, PointStep DEF IInv, TypeOK, Working
<1>7. /\ tx'[s] = row
      /\ \A t \in Sessions : t # s => tx'[t] = tx[t]
  BY <1>4, <1>5, MoveFacts DEF IInv
<1>8. OneWorker'
  BY <1>1, <1>4, <1>7 DEF IInv, OneWorker, Working
<1>9. Counted'
  <2>1. sends[m] \in Nat /\ unsaved[m] \in Nat /\ sends'[m] = sends[m] + 1
        /\ \A n \in Msgs : n # m => sends'[n] = sends[n]
    BY <1>1 DEF IInv, TypeOK
  <2>2. sends[m] <= unsaved[m]
    BY <1>1 DEF IInv, Counted, Working
  <2>3. \A n \in Msgs : sends'[n] <= 1 + unsaved'[n]
    BY <1>1, <2>1, <2>2 DEF IInv, Counted
  <2>4. ASSUME NEW n \in Msgs, sends'[n] > unsaved'[n], inbound'[n] = None
        PROVE  \E t \in Sessions : tx'[t].pc = "accepted" /\ tx'[t].msg = n
    <3>1. CASE n = m
      BY <1>4, <1>7, <3>1
    <3>2. CASE n # m
      <4>1. PICK t \in Sessions : tx[t].pc = "accepted" /\ tx[t].msg = n
        BY <1>1, <2>1, <2>4, <3>2 DEF IInv, Counted
      <4> QED
        BY <1>1, <1>7, <4>1
    <3> QED
      BY <3>1, <3>2
  <2>5. ASSUME NEW t \in Sessions, tx'[t].pc \in Working \ {"accepted"}
        PROVE  sends'[tx'[t].msg] <= unsaved'[tx'[t].msg]
    <3>1. t # s /\ tx'[t] = tx[t] /\ tx[t].pc \in Working
      BY <1>4, <1>7, <2>5
    <3>2. tx[t].msg \in Msgs /\ tx[t].msg # m
      BY <1>1, <3>1 DEF IInv, AtPoint, OneWorker, Working
    <3> QED
      BY <1>1, <2>1, <2>5, <3>1, <3>2 DEF IInv, Counted
  <2> QED
    BY <2>3, <2>4, <2>5 DEF Counted
<1>10. OneActive' /\ Creating' /\ TakenHolds' /\ TakenQuiet'
  <2>1. row.new => /\ row.copy = Opened
                   /\ \A d \in Convs : conv[d].status \notin Active
                   /\ \A t \in Sessions : t # s => ~ tx[t].new
    BY <1>4 DEF IInv, Creating
  <2>2. (taken' # {} => Taken) /\ s \notin taken' /\ (row.new <=> conv[row.conv].status = "NONE")
    BY <1>1, <1>4 DEF IInv, TakenHolds, TakenQuiet, Machine, Creating, Working
  <2> QED
    BY <1>1, <1>4, <1>5, <2>1, <2>2, SameConversations
<1>11. Replies' /\ Reporting'
  <2>1. out[m] = NoReply
    BY <1>1 DEF IInv, Replies, Working
  <2> QED
    BY <1>1, <1>3, <1>4, <1>5, <2>1, SameReplies
<1> QED
  BY <1>6, <1>8, <1>9, <1>10, <1>11 DEF IInv

LEMMA Lost ==
  ASSUME IInv, NEW s \in Sessions, Crash(s)
  PROVE  IInv'
<1>1. /\ Leave(s) /\ crashes' = crashes + 1 /\ crashes < MaxCrashes
      /\ UNCHANGED <<conv, inbound, out, keys, sends, reported, taken>>
  BY DEF Crash
<1>2. crashes' \in 0..MaxCrashes
  BY <1>1, BoundAssumption DEF IInv, TypeOK
<1>3. CASE tx[s].pc # "accepted"
  BY <1>1, <1>2, <1>3, Ended DEF Crash
<1>4. CASE tx[s].pc = "accepted"
  <2> DEFINE m == tx[s].msg
  <2>1. /\ Idle \in SessionRow /\ Idle.pc = "idle" /\ Idle.new = FALSE /\ Move(s, Idle)
        /\ unsaved' = [unsaved EXCEPT ![m] = @ + 1] /\ m \in Msgs
    BY <1>1, <1>4, Values DEF Crash, Leave, IInv, AtPoint, Working
  <2> HIDE DEF Idle
  <2>2. unsaved' \in [Msgs -> Nat]
    BY <2>1 DEF IInv, TypeOK
  <2>3. TypeOK' /\ AtPoint'
    BY <1>1, <1>2, <2>1, <2>2, PointStep DEF IInv, TypeOK, Working
  <2>4. /\ tx'[s] = Idle
        /\ \A t \in Sessions : t # s => tx'[t] = tx[t]
    BY <2>1, MoveFacts DEF IInv
  <2>5. OneWorker'
    BY <2>1, <2>4 DEF IInv, OneWorker, Working
  <2>6. Counted'
    <3>1. sends[m] \in Nat /\ unsaved[m] \in Nat /\ unsaved'[m] = unsaved[m] + 1
          /\ \A n \in Msgs : n # m => unsaved'[n] = unsaved[n]
      BY <2>1 DEF IInv, TypeOK
    <3>2. sends[m] <= unsaved'[m]
      BY <2>1, <3>1 DEF IInv, Counted
    <3>3. \A n \in Msgs : sends'[n] <= 1 + unsaved'[n]
      BY <1>1, <3>1, <3>2 DEF IInv, Counted
    <3>4. ASSUME NEW n \in Msgs, sends'[n] > unsaved'[n], inbound'[n] = None
          PROVE  \E t \in Sessions : tx'[t].pc = "accepted" /\ tx'[t].msg = n
      <4>1. n # m
        BY <1>1, <3>1, <3>2, <3>4
      <4>2. PICK t \in Sessions : tx[t].pc = "accepted" /\ tx[t].msg = n
        BY <1>1, <3>1, <3>4, <4>1 DEF IInv, Counted
      <4> QED
        BY <2>4, <4>1, <4>2
    <3>5. ASSUME NEW t \in Sessions, tx'[t].pc \in Working \ {"accepted"}
          PROVE  sends'[tx'[t].msg] <= unsaved'[tx'[t].msg]
      <4>1. t # s /\ tx'[t] = tx[t] /\ tx[t].pc \in Working
        BY <2>1, <2>4, <3>5 DEF Working
      <4>2. tx[t].msg \in Msgs /\ tx[t].msg # m
        BY <1>4, <4>1 DEF IInv, AtPoint, OneWorker, Working
      <4> QED
        BY <1>1, <3>1, <3>5, <4>1, <4>2 DEF IInv, Counted
    <3> QED
      BY <3>3, <3>4, <3>5 DEF Counted
  <2>7. OneActive' /\ Creating' /\ TakenHolds' /\ TakenQuiet'
    BY <1>1, <2>1, SameConversations DEF Working, Machine, IInv, TakenHolds
  <2>8. Replies' /\ Reporting'
    BY <1>1, <2>1, SameReplies DEF Working
  <2> QED
    BY <2>3, <2>5, <2>6, <2>7, <2>8 DEF IInv
<1> QED
  BY <1>3, <1>4

-----------------------------------------------------------------------------
(* Delivery reports.                                                         *)
LEMMA Reported ==
  ASSUME IInv, NEW m \in Msgs, NEW id \in 1..(1 + MaxCrashes), NEW status \in Statuses,
         ProviderReports(m, id, status)
  PROVE  IInv'
<1> DEFINE r == [msg |-> m, id |-> id, status |-> status]
<1>1. /\ reported' = reported \cup {r}
      /\ UNCHANGED <<conv, inbound, out, keys, sends, tx, crashes, unsaved, taken>>
  BY DEF ProviderReports
<1>2. r \in Report /\ r.id > 0
  BY BoundAssumption DEF Report
<1> HIDE DEF r
<1>3. TypeOK' /\ AtPoint'
  BY <1>1, <1>2 DEF IInv, TypeOK, AtPoint
<1>4. OneWorker' /\ Counted' /\ OneActive' /\ Creating' /\ TakenHolds' /\ TakenQuiet'
  BY <1>1 DEF IInv, OneWorker, Counted, OneActive, Creating, TakenHolds, TakenQuiet, Taken
<1>5. Replies' /\ Reporting'
  BY <1>1, <1>2 DEF IInv, Replies, Reporting
<1> QED
  BY <1>3, <1>4, <1>5 DEF IInv

LEMMA ReportRead ==
  ASSUME IInv, NEW s \in Sessions, NEW r \in reported, ReceiveReport(s, r)
  PROVE  IInv'
<1> DEFINE copy == IF out[r.msg].id = r.id THEN out[r.msg] ELSE NoReply
           row  == [Idle EXCEPT !.pc = "status", !.report = r, !.reply = copy]
<1>1. /\ tx[s].pc = "idle" /\ r \notin keys /\ \A t \in Sessions : tx[t].report # r
      /\ Move(s, row)
      /\ UNCHANGED <<conv, inbound, out, keys, sends, reported, crashes, unsaved, taken>>
  BY DEF ReceiveReport
<1>2. r \in Report /\ r.msg \in Msgs /\ r.id > 0 /\ copy \in OutRow
  BY Values DEF IInv, TypeOK, Report, Reporting
<1>3. row \in SessionRow /\ row.pc = "status" /\ row.report = r /\ row.reply = copy /\ row.new = FALSE
  <2> HIDE DEF Idle, copy
  <2>1. \A x \in SessionRow : LET n == [x EXCEPT !.pc = "status", !.report = r, !.reply = copy] IN
          n \in SessionRow /\ n.pc = "status" /\ n.report = r /\ n.reply = copy /\ n.new = x.new
    BY <1>2 DEF SessionRow
  <2> QED
    BY <2>1, Values
<1> HIDE DEF row
<1>4. TypeOK' /\ AtPoint'
  BY <1>1, <1>2, <1>3, PointStep DEF IInv, TypeOK, Working
<1>5. OneWorker' /\ Counted'
  BY <1>1, <1>3, CalmStep DEF Working
<1>6. OneActive' /\ Creating' /\ TakenHolds' /\ TakenQuiet'
  BY <1>1, <1>3, SameConversations DEF Working, Machine, IInv, TakenHolds
<1>7. /\ tx'[s] = row
      /\ \A t \in Sessions : t # s => tx'[t] = tx[t]
  BY <1>1, <1>3, MoveFacts DEF IInv
<1>8. Replies'
  BY <1>1, <1>3, <1>7 DEF IInv, Replies, Working
<1>9. Reporting'
  <2>1. copy.status = "NONE" \/ (Known(keys, r.msg, copy) /\ copy.id = r.id /\ out[r.msg].id = r.id)
    <3>1. out[r.msg] = NoReply \/ Known(keys, r.msg, out[r.msg])
      BY <1>2 DEF IInv, Replies
    <3>2. NoReply.status = "NONE"
      BY DEF NoReply
    <3> QED
      BY <3>1, <3>2
  <2> HIDE DEF copy
  <2>2. \A t, u \in Sessions :
           tx'[t].pc = "status" /\ tx'[u].pc = "status" /\ tx'[t].report = tx'[u].report => t = u
    BY <1>1, <1>3, <1>7 DEF IInv, Reporting
  <2> QED
    BY <1>1, <1>3, <1>7, <2>1, <2>2 DEF IInv, Reporting
<1> QED
  BY <1>4, <1>5, <1>6, <1>8, <1>9 DEF IInv

(* What a report writes: it is the first that does, and what it was checked  *)
(* against has not gone on to what it says.                                  *)
LEMMA ReportWrites ==
  ASSUME IInv, NEW s \in Sessions, CommitReport(s)
  PROVE  LET r == tx[s].report IN
         /\ r \in Report /\ r \notin keys /\ keys' = keys \cup {r}
         /\ \/ out' = out
            \/ /\ out' = [out EXCEPT ![r.msg].status = status_map[r.status]]
               /\ out[r.msg].id = r.id /\ r.id > 0
               /\ status_map[r.status] \in {"DELIVERED", "READ", "FAILED"}
               /\ status_map[r.status] = "DELIVERED" => r = Delivered(r.msg, r.id)
               /\ status_map[r.status] = "READ" => Delivered(r.msg, r.id) \in keys
<1> DEFINE r == tx[s].report
           copy == tx[s].reply
           target == status_map[r.status]
<1>1. /\ tx[s].pc = "status" /\ keys' = keys \cup {r}
      /\ out' = IF copy.status \notin {"NONE", target} /\ ValidMessageMove(copy.status, target)
                THEN [out EXCEPT ![r.msg].status = target] ELSE out
  BY DEF CommitReport
<1>2. r \in Report /\ r \notin keys /\ r.id > 0
  BY <1>1 DEF IInv, AtPoint, Reporting
<1>3. CASE copy.status \notin {"NONE", target} /\ ValidMessageMove(copy.status, target)
  <2>1. Known(keys, r.msg, copy) /\ copy.id = r.id /\ out[r.msg].id = r.id
    BY <1>1, <1>3 DEF IInv, Reporting
  <2>2. target \in VALID_MESSAGE_TRANSITIONS[copy.status]
    BY <1>3 DEF ValidMessageMove
  <2>3. copy.status \in {"SENT", "DELIVERED"}
    BY <2>1, <2>2 DEF Known, VALID_MESSAGE_TRANSITIONS
  <2>4. r.status \in Statuses
    BY <1>2 DEF Report
  <2>5. target \in MessageStatus /\ target # "UNKNOWN"
    BY <2>4, StatusFacts
  <2>6. CASE copy.status = "SENT"
    <3>1. target \in {"DELIVERED", "FAILED"}
      BY <2>2, <2>5, <2>6 DEF VALID_MESSAGE_TRANSITIONS
    <3>2. target = "DELIVERED" => r = Delivered(r.msg, r.id)
      BY <1>2, <2>4, StatusFacts DEF Report, Delivered
    <3> QED
      BY <1>1, <1>2, <1>3, <2>1, <3>1, <3>2
  <2>7. CASE copy.status = "DELIVERED"
    <3>1. target \in {"READ", "FAILED"}
      BY <2>2, <2>5, <2>7 DEF VALID_MESSAGE_TRANSITIONS
    <3>2. Delivered(r.msg, r.id) \in keys
      BY <2>1, <2>7 DEF Known
    <3> QED
      BY <1>1, <1>2, <1>3, <2>1, <3>1, <3>2
  <2> QED
    BY <2>3, <2>6, <2>7
<1>4. CASE ~ (copy.status \notin {"NONE", target} /\ ValidMessageMove(copy.status, target))
  BY <1>1, <1>2, <1>4
<1> QED
  BY <1>3, <1>4

LEMMA ReportStored ==
  ASSUME IInv, NEW s \in Sessions, CommitReport(s)
  PROVE  IInv'
<1> DEFINE r == tx[s].report
           target == status_map[r.status]
<1>1. /\ Idle \in SessionRow /\ Idle.pc = "idle" /\ Idle.new = FALSE /\ Move(s, Idle)
      /\ tx[s].pc = "status"
      /\ UNCHANGED <<conv, inbound, sends, reported, crashes, unsaved, taken>>
  BY Values DEF CommitReport, Leave
<1> HIDE DEF Idle
<1>2. /\ r \in Report /\ r.msg \in Msgs /\ r \in reported /\ keys' = keys \cup {r}
      /\ \/ out' = out
         \/ /\ out' = [out EXCEPT ![r.msg].status = target]
            /\ out[r.msg].id = r.id /\ r.id > 0
            /\ target \in {"DELIVERED", "READ", "FAILED"}
            /\ target = "DELIVERED" => r = Delivered(r.msg, r.id)
            /\ target = "READ" => Delivered(r.msg, r.id) \in keys
  <2>1. r \in Report /\ r \in reported
    BY <1>1 DEF IInv, AtPoint, Reporting
  <2> QED
    BY <2>1, ReportWrites DEF Report
<1> HIDE DEF target, r
<1>3. /\ out' \in [Msgs -> OutRow]
      /\ \A m \in Msgs : out'[m].id = out[m].id /\ (out[m] = NoReply => out'[m] = NoReply)
      /\ \A m \in Msgs : out[m] = NoReply \/ Known(keys', m, out'[m])
  <2>1. \A m \in Msgs : out[m] \in OutRow /\ (out[m] = NoReply \/ Known(keys, m, out[m]))
    BY DEF IInv, TypeOK, Replies
  <2>2. \A m \in Msgs : Known(keys, m, out[m]) => Known(keys', m, out[m])
    BY <1>2 DEF Known
  <2>3. CASE out' = out
    BY <2>1, <2>2, <2>3 DEF IInv, TypeOK
  <2>4. CASE /\ out' = [out EXCEPT ![r.msg].status = target]
             /\ out[r.msg].id = r.id /\ r.id > 0
             /\ target \in {"DELIVERED", "READ", "FAILED"}
             /\ target = "DELIVERED" => r = Delivered(r.msg, r.id)
             /\ target = "READ" => Delivered(r.msg, r.id) \in keys
    <3> DEFINE new == [out[r.msg] EXCEPT !.status = target]
    <3>1. new \in OutRow /\ new.status = target /\ new.id = r.id
      BY <1>2, <2>1, <2>4, StatusFacts DEF OutRow
    <3>2. out[r.msg] # NoReply
      BY <2>4 DEF NoReply
    <3>3. Known(keys', r.msg, new)
      BY <1>2, <2>4, <3>1 DEF Known
    <3>4. out' = [out EXCEPT ![r.msg] = new]
      BY <2>4 DEF IInv, TypeOK
    <3> HIDE DEF new
    <3>5. /\ out' \in [Msgs -> OutRow] /\ out'[r.msg] = new
          /\ \A m \in Msgs : m # r.msg => out'[m] = out[m]
      BY <1>2, <3>1, <3>4 DEF IInv, TypeOK
    <3> QED
      BY <2>1, <2>2, <2>4, <3>1, <3>2, <3>3, <3>5
  <2> QED
    BY <1>2, <2>3, <2>4
<1>4. TypeOK' /\ AtPoint'
  BY <1>1, <1>2, <1>3, PointStep DEF IInv, TypeOK, Working
<1>5. OneWorker' /\ Counted'
  BY <1>1, CalmStep DEF Working
<1>6. OneActive' /\ Creating' /\ TakenHolds' /\ TakenQuiet'
  BY <1>1, SameConversations DEF Working, Machine, IInv, TakenHolds
<1>7. /\ tx'[s] = Idle
      /\ \A t \in Sessions : t # s => tx'[t] = tx[t]
  BY <1>1, MoveFacts DEF IInv
<1>8. Replies'
  <2>1. \A m \in Msgs : out'[m] = NoReply \/ Known(keys', m, out'[m])
    BY <1>3
  <2>2. \A m \in Msgs : inbound'[m] = None => out'[m] = NoReply
    BY <1>1, <1>3 DEF IInv, Replies
  <2>3. \A t \in Sessions : tx'[t].pc \in Working => out'[tx'[t].msg] = NoReply
    BY <1>1, <1>3, <1>7 DEF IInv, Replies, AtPoint, Working
  <2>4. \A t \in Sessions : tx'[t].pc = "accepted" => tx'[t].reply.status \in {"SENT", "FAILED", "UNKNOWN"}
    BY <1>1, <1>7 DEF IInv, Replies
  <2> QED
    BY <2>1, <2>2, <2>3, <2>4 DEF Replies
<1>9. Reporting'
  <2>1. (\A x \in reported' : x.id > 0) /\ \A t, u \in Sessions :
           tx'[t].pc = "status" /\ tx'[u].pc = "status" /\ tx'[t].report = tx'[u].report => t = u
    BY <1>1, <1>7 DEF IInv, Reporting
  <2>2. ASSUME NEW t \in Sessions, tx'[t].pc = "status"
        PROVE  LET x == tx'[t].report IN
               /\ x \in reported' \ keys'
               /\ \/ tx'[t].reply.status = "NONE"
                  \/ /\ Known(keys', x.msg, tx'[t].reply)
                     /\ tx'[t].reply.id = x.id /\ out'[x.msg].id = x.id
    <3>1. t # s /\ tx'[t] = tx[t]
      BY <1>1, <1>7, <2>2
    <3> DEFINE x == tx[t].report
    <3>2. x \in reported \ keys /\ x # r /\ x \in Report /\ x.msg \in Msgs
      BY <1>1, <2>2, <3>1 DEF IInv, Reporting, AtPoint, Report, r
    <3>3. CASE tx[t].reply.status = "NONE"
      BY <1>1, <1>2, <3>1, <3>2, <3>3
    <3>4. CASE tx[t].reply.status # "NONE"
      <4>1. Known(keys, x.msg, tx[t].reply) /\ tx[t].reply.id = x.id /\ out[x.msg].id = x.id
        BY <2>2, <3>1, <3>4 DEF IInv, Reporting
      <4>2. Known(keys', x.msg, tx[t].reply)
        BY <1>2, <4>1 DEF Known
      <4> QED
        BY <1>1, <1>2, <1>3, <3>1, <3>2, <4>1, <4>2
    <3> QED
      BY <3>3, <3>4
  <2> QED
    BY <2>1, <2>2 DEF Reporting
<1> QED
  BY <1>4, <1>5, <1>6, <1>8, <1>9 DEF IInv

(* What operators write.                                                     *)
LEMMA Patched ==
  ASSUME IInv, NEW c \in Convs, NEW patch \in Patches, UpdateConversation(c, patch)
  PROVE  IInv'
<1> DEFINE old == conv[c]
           new == [f \in DOMAIN old |-> IF f \in DOMAIN patch THEN patch[f] ELSE old[f]]
<1>1. /\ conv' = [conv EXCEPT ![c] = new]
      /\ old.status # "NONE"
      /\ new.status \in Active => \A d \in Convs \ {c} : conv[d].status \notin Active
      /\ old.status \notin Active /\ new.status \in Active => \A t \in Sessions : ~ tx[t].new
      /\ taken' = IF Taken' THEN taken ELSE {}
      /\ UNCHANGED <<inbound, out, keys, sends, reported, tx, crashes, unsaved>>
  BY DEF UpdateConversation
<1>2. old \in ConvRow /\ conv \in [Convs -> ConvRow]
  BY DEF IInv, TypeOK
<1>3. new \in ConvRow /\ new.status # "NONE"
  <2>1. DOMAIN old = {"status", "handoff", "ai"}
    BY <1>2 DEF ConvRow
  <2>2. new = [f \in {"status", "handoff", "ai"} |-> IF f \in DOMAIN patch THEN patch[f] ELSE old[f]]
    BY <2>1
  <2>3. new.status \in Active \cup {"CLOSED"}
    <3>1. old.status \in Active \cup {"CLOSED"}
      BY <1>1, <1>2, ActiveOrClosed
    <3>2. "status" \in DOMAIN patch => patch["status"] \in Active \cup {"CLOSED"}
      BY PatchAssumption
    <3>3. new["status"] = IF "status" \in DOMAIN patch THEN patch["status"] ELSE old["status"]
      BY <2>2
    <3> QED
      BY <3>1, <3>2, <3>3
  <2>4. new.handoff \in BOOLEAN /\ new.ai \in BOOLEAN
    <3>1. \A f \in {"handoff", "ai"} : f \in DOMAIN patch => patch[f] \in BOOLEAN
      BY PatchAssumption
    <3>2. old["handoff"] \in BOOLEAN /\ old["ai"] \in BOOLEAN
      BY <1>2 DEF ConvRow
    <3>3. \A f \in {"handoff", "ai"} : new[f] = IF f \in DOMAIN patch THEN patch[f] ELSE old[f]
      BY <2>2
    <3> QED
      BY <3>1, <3>2, <3>3
  <2> HIDE DEF new
  <2>5. new = [status |-> new.status, handoff |-> new.handoff, ai |-> new.ai]
    BY <2>2
  <2> QED
    BY <2>3, <2>4, <2>5, Values DEF ConvRow
<1> HIDE DEF new
<1>4. /\ conv' \in [Convs -> ConvRow] /\ conv'[c] = new
      /\ \A d \in Convs : d # c => conv'[d] = conv[d]
  BY <1>1, <1>2, <1>3
<1>5. taken' \subseteq taken /\ TakenHolds'
  BY <1>1 DEF TakenHolds
<1>6. TypeOK' /\ AtPoint'
  BY <1>1, <1>4, <1>5 DEF IInv, TypeOK, AtPoint
<1>7. OneWorker' /\ Counted' /\ TakenQuiet' /\ Replies' /\ Reporting'
  BY <1>1, <1>5 DEF IInv, OneWorker, Counted, TakenQuiet, Replies, Reporting
<1>8. OneActive'
  BY <1>1, <1>4 DEF IInv, OneActive
<1>9. Creating'
  <2>1. ASSUME NEW t \in Sessions, tx[t].new
        PROVE  /\ \A d \in Convs : conv'[d].status \notin Active
               /\ tx[t].copy = Opened
               /\ \A u \in Sessions : tx[u].new => u = t
    BY <1>1, <1>4, <2>1 DEF IInv, Creating
  <2>2. ASSUME NEW t \in Sessions, tx[t].pc \in {"found"} \cup Working
        PROVE  tx[t].new <=> conv'[tx[t].conv].status = "NONE"
    BY <1>1, <1>3, <1>4, <2>2 DEF IInv, Creating, AtPoint
  <2> QED
    BY <1>1, <2>1, <2>2 DEF Creating
<1> QED
  BY <1>5, <1>6, <1>7, <1>8, <1>9 DEF IInv

LEMMA InitOK == Init => IInv
<1> SUFFICES ASSUME Init PROVE IInv
  OBVIOUS
<1>1. /\ conv \in [Convs -> {NoConv, Opened, Closed}]
      /\ \A c, d \in Convs : conv[c] = Opened /\ conv[d] = Opened => c = d
  BY DEF Init
<1>2. TypeOK /\ AtPoint
  BY <1>1, Values, BoundAssumption DEF Init, TypeOK, AtPoint, Working
<1>3. OneWorker /\ Counted /\ Creating /\ TakenHolds /\ TakenQuiet
  BY Values DEF Init, OneWorker, Counted, Creating, TakenHolds, TakenQuiet, Working
<1>4. OneActive
  <2>1. \A c \in Convs : conv[c].status \in Active => conv[c] = Opened
    <3>1. NoConv.status = "NONE" /\ Closed.status = "CLOSED"
      BY DEF NoConv, Closed, Opened
    <3> HIDE DEF NoConv, Closed
    <3> QED
      BY <1>1, <3>1, Values
  <2> QED
    BY <1>1, <2>1 DEF OneActive
<1>5. Replies /\ Reporting
  BY Values DEF Init, Replies, Reporting, Working
<1> QED
  BY <1>2, <1>3, <1>4, <1>5 DEF IInv

LEMMA StepOK == IInv /\ [Next]_vars => IInv'
<1> SUFFICES ASSUME IInv, [Next]_vars PROVE IInv'
  OBVIOUS
<1>1. ASSUME NEW s \in Sessions, NEW m \in Msgs, ReceiveMessage(s, m)
      PROVE  IInv'
  BY <1>1, Received
<1>2. ASSUME NEW s \in Sessions,
             \/ FindConversation(s) \/ StoreMessage(s) \/ DuplicateMessage(s) \/ RouteMessage(s)
             \/ SuppressReply(s) \/ Victim(s) \/ AnswerPlainly(s) \/ AnswerWithModel(s)
             \/ ProviderAccepts(s) \/ SendFails(s) \/ CommitReply(s)
             \/ CommitReport(s) \/ Crash(s)
      PROVE  IInv'
  <2>1. CASE Victim(s)
    BY <2>1, Ended DEF Victim, IInv, TypeOK
  <2> QED
    BY <1>2, <2>1, Found, Stored, Duplicate, Routed, Suppressed, Answered, AnsweredByModel,
       Accepted, NotSent, Replied, ReportStored, Lost
<1>3. ASSUME NEW m \in Msgs, NEW id \in 1..(1 + MaxCrashes), NEW status \in Statuses,
             ProviderReports(m, id, status)
      PROVE  IInv'
  BY <1>3, Reported
<1>4. ASSUME NEW s \in Sessions, NEW report \in reported, ReceiveReport(s, report)
      PROVE  IInv'
  BY <1>4, ReportRead
<1>5. ASSUME NEW c \in Convs, NEW patch \in Patches, UpdateConversation(c, patch)
      PROVE  IInv'
  BY <1>5, Patched
<1>6. CASE UNCHANGED vars
  <2>1. TypeOK' /\ AtPoint' /\ OneWorker' /\ Counted'
    BY <1>6 DEF vars, IInv, TypeOK, AtPoint, OneWorker, Counted
  <2>2. OneActive' /\ Creating' /\ TakenHolds' /\ TakenQuiet' /\ Replies' /\ Reporting'
    BY <1>6 DEF vars, IInv, OneActive, Creating, TakenHolds, Taken, TakenQuiet, Replies, Reporting
  <2> QED
    BY <2>1, <2>2 DEF IInv
<1> QED
  BY <1>1, <1>2, <1>3, <1>4, <1>5, <1>6 DEF Next, Quiet

LEMMA Inductive == Spec => []IInv
  BY InitOK, StepOK, PTL DEF Spec

(* The WhatsApp webhook answers a message once, however often it is          *)
(* delivered and whatever requests are lost, but for the requests that were  *)
(* lost between the provider's answer and their commit.                      *)
THEOREM RepliedOnce == Spec => []AnsweredOnce
<1>1. IInv => AnsweredOnce
  BY DEF IInv, Counted, AnsweredOnce
<1> QED
  BY <1>1, Inductive, PTL

(* Once a human has the customer, no message that arrives is answered by the *)
(* machine, for any number of conversations and operators.                   *)
THEOREM HumansAreLeftAlone == Spec => []NoReplyAfterTakeover
<1>1. IInv => NoReplyAfterTakeover
  BY DEF IInv, TakenQuiet, Machine, NoReplyAfterTakeover
<1> QED
  BY <1>1, Inductive, PTL

LEMMA StepForward ==
  ASSUME IInv, [Next]_vars, NEW m \in Msgs
  PROVE  /\ out[m].status = "READ" => out'[m].status \in {"READ", "FAILED"}
         /\ out[m].status = "DELIVERED" => out'[m].status # "SENT"
<1>1. out \in [Msgs -> OutRow] /\ NoReply.status = "NONE"
  BY DEF IInv, TypeOK, NoReply
<1>2. CASE out' = out
  BY <1>2
<1>3. ASSUME NEW s \in Sessions, NEW row, NEW reply, tx[s].pc \in Working, CommitMessage(s, row, reply)
      PROVE  out'[m] = out[m] \/ out[m].status = "NONE"
  <2>1. out' = [out EXCEPT ![tx[s].msg] = reply]
    BY <1>3 DEF CommitMessage
  <2>2. out[tx[s].msg] = NoReply
    BY <1>3 DEF IInv, Replies
  <2> QED
    BY <1>1, <2>1, <2>2
<1>4. ASSUME NEW s \in Sessions, CommitReport(s)
      PROVE  /\ out[m].status = "READ" => out'[m].status \in {"READ", "FAILED"}
             /\ out[m].status = "DELIVERED" => out'[m].status # "SENT"
  <2> DEFINE r == tx[s].report
             target == status_map[r.status]
  <2>1. /\ r \in Report /\ r \notin keys
        /\ \/ out' = out
           \/ /\ out' = [out EXCEPT ![r.msg].status = target]
              /\ out[r.msg].id = r.id
              /\ target \in {"DELIVERED", "READ", "FAILED"}
              /\ target = "DELIVERED" => r = Delivered(r.msg, r.id)
    BY <1>4, ReportWrites
  <2> HIDE DEF r, target
  <2>2. CASE out' = out \/ m # r.msg
    BY <1>1, <2>1, <2>2
  <2>3. CASE out' # out /\ m = r.msg
    <3>1. out'[m].status = target
      BY <1>1, <2>1, <2>3 DEF OutRow
    <3>2. out[m].status = "READ" => target # "DELIVERED"
      <4> SUFFICES ASSUME out[m].status = "READ", target = "DELIVERED" PROVE FALSE
        OBVIOUS
      <4>1. Known(keys, m, out[m])
        BY <1>1 DEF IInv, Replies
      <4>2. Delivered(m, out[m].id) \in keys
        BY <4>1 DEF Known
      <4> QED
        BY <2>1, <2>3, <4>2
    <3> QED
      BY <2>1, <2>3, <3>1, <3>2
  <2> QED
    BY <2>2, <2>3
<1>5. ASSUME NEW s \in Sessions, SuppressReply(s) \/ SendFails(s) \/ CommitReply(s)
      PROVE  out'[m] = out[m] \/ out[m].status = "NONE"
  <2>1. CASE UNCHANGED out
    BY <2>1
  <2>2. CASE out' # out
    BY <1>3, <1>5, <2>2 DEF SuppressReply, SendFails, CommitReply, Working
  <2> QED
    BY <2>1, <2>2
<1>6. \/ out' = out
      \/ \E s \in Sessions : CommitReport(s) \/ SuppressReply(s) \/ SendFails(s) \/ CommitReply(s)
  BY DEF Next, Quiet, vars, ReceiveMessage, FindConversation, StoreMessage, DuplicateMessage,
         RouteMessage, Victim, AnswerPlainly, AnswerWithModel, ProviderAccepts, Crash,
         ProviderReports, ReceiveReport, UpdateConversation
<1> QED
  BY <1>2, <1>4, <1>5, <1>6

(* No handler of delivery reports, on whatever copy it was validated, takes  *)
(* a reply back.                                                             *)
THEOREM DeliveryIsMonotone == Spec => DeliveryMovesForward
<1>1. IInv /\ [Next]_vars =>
        [\A m \in Msgs :
           /\ out[m].status = "READ" => out'[m].status \in {"READ", "FAILED"}
           /\ out[m].status = "DELIVERED" => out'[m].status # "SENT"]_vars
  BY StepForward
<1> QED
  BY <1>1, Inductive, PTL DEF Spec, DeliveryMovesForward

-----------------------------------------------------------------------------
(***************************************************************************)
(* THE CHANNELS TOGETHER.                                                  *)
(***************************************************************************)

all == <<scene, vars, connection, bus>>

LEMMA EachBegins == ChannelsInit => Init /\ C!Init /\ B!Init
  BY DEF ChannelsInit

LEMMA MessagesMove == [ChannelsNext]_all => [Next]_vars
  BY DEF ChannelsNext, all

LEMMA ConnectionsMove == [ChannelsNext]_all => [C!Next]_(C!vars)
  BY DEF ChannelsNext, all, connection, C!vars

LEMMA EventsMove == [ChannelsNext]_all => [B!Next]_(B!busVars)
  BY DEF ChannelsNext, all, bus, B!busVars

(* A behaviour of the channels is one of each of them.                       *)
LEMMA EachRuns ==
  /\ ChannelsSpec => Spec
  /\ ChannelsSpec => C!Spec
  /\ ChannelsSpec => B!Spec
<1>1. ChannelsSpec => Spec
  BY EachBegins, MessagesMove, PTL DEF ChannelsSpec, Spec, all
<1>2. ChannelsSpec => C!Spec
  BY EachBegins, ConnectionsMove, PTL DEF ChannelsSpec, C!Spec, all
<1>3. ChannelsSpec => B!Spec
  BY EachBegins, EventsMove, PTL DEF ChannelsSpec, B!Spec, all
<1> QED
  BY <1>1, <1>2, <1>3

(* All rows, copies, keys and positions of the channels keep their types.    *)
THEOREM ChannelsTyped == ChannelsSpec => []ChannelsTypeOK
<1>1. IInv => TypeOK
  BY DEF IInv
<1>2. C!Spec => []C!TypeOK
  BY C!TypeCorrect, ChannelsAssumption
<1>3. B!Spec => []B!TypeOK
  BY B!TypeCorrect, ChannelsAssumption
<1>4. TypeOK /\ C!TypeOK /\ B!TypeOK => ChannelsTypeOK
  BY DEF ChannelsTypeOK
<1> QED
  BY <1>1, <1>2, <1>3, <1>4, Inductive, EachRuns, PTL

(* The operation asked for with an idempotency key (execute_operation) is    *)
(* performed at most as often as one request tries it, and as those tried it *)
(* that were lost before they had committed.                                 *)
THEOREM KeysAreUsedOnce == ChannelsSpec => []KeyedOnce
<1>1. C!Spec => []C!KeyedOnce
  BY C!AKeyIsUsedOnce, ChannelsAssumption
<1>2. C!KeyedOnce => KeyedOnce
  BY DEF KeyedOnce
<1> QED
  BY <1>1, <1>2, EachRuns, PTL

(* Whatever overtakes disconnect_integration, a connection that is           *)
(* disconnected has a revoked credential.                                    *)
THEOREM TheDisconnectedAreRevoked == ChannelsSpec => []DisconnectedIsRevoked
<1>1. C!Spec => []C!DisconnectedIsRevoked
  BY C!ADisconnectedCredentialIsRevoked, ChannelsAssumption
<1>2. C!DisconnectedIsRevoked => DisconnectedIsRevoked
  BY DEF DisconnectedIsRevoked
<1> QED
  BY <1>1, <1>2, EachRuns, PTL

(* publish() and _consume_loop call every handler at most once for an event. *)
THEOREM EventsAreHandledOnce == ChannelsSpec => []HandledOnce
<1>1. B!Spec => []B!HandledOnce
  BY B!HandledAtMostOnce, ChannelsAssumption
<1>2. B!HandledOnce => HandledOnce
  BY DEF HandledOnce
<1> QED
  BY <1>1, <1>2, EachRuns, PTL

(* XACK follows the last handler, and what is interrupted stays pending.     *)
THEOREM TheAcknowledgedAreHandled == ChannelsSpec => []AcknowledgedMeansHandled
<1>1. B!Spec => []B!AcknowledgedMeansHandled
  BY B!NothingAcknowledgedEarly, ChannelsAssumption
<1>2. B!AcknowledgedMeansHandled => AcknowledgedMeansHandled
  BY DEF AcknowledgedMeansHandled
<1> QED
  BY <1>1, <1>2, EachRuns, PTL
=============================================================================
