----------------------------- MODULE MCChannels -----------------------------
(***************************************************************************)
(* The channels: WhatsApp messages, the connections and operations of the  *)
(* other integrations, and the event bus.  A behaviour plays in one of     *)
(* them, its scene; a reply is an operation of IntegrationConnections that *)
(* is tried once, which InboundMessaging has in ProviderAccepts.           *)
(***************************************************************************)
EXTENDS InboundMessaging, TLC

CONSTANTS Conns, Keys, Providers, OperationOf, MaxGrants,
          Events, Workers, handlers, count,
          s1, s2, m1, c1, c2, i1, i2, k1, k2

VARIABLES scene, provider, conn, cred, exec, lock, connTx, grants, performed, lostSends, losses,
  backend, stream, delivered, pending, finished, worker, calls

(* The instances are of the modules that extend IntegrationConnections and   *)
(* EventBus by their theorems, which ChannelsProofs cites.                   *)
B == INSTANCE EventBusProofs
C == INSTANCE IntegrationConnectionsProofs
       WITH tx <- connTx, unsaved <- lostSends, crashes <- losses

(* What the proofs take of the constants of the instances.                   *)
ASSUME ChannelsAssumption == B!Bounds /\ C!Bounds

connection == <<provider, conn, cred, exec, lock, connTx, grants, performed, lostSends, losses>>
bus == <<backend, stream, delivered, pending, finished, worker, calls>>

MCOperationOf == [
  whatsapp_cloud_api |-> (k1 :> "send_message" @@ k2 :> "send_text"),
  google_calendar    |-> (k1 :> "create_event" @@ k2 :> "ping"),
  google_sheets      |-> (k1 :> "append_values" @@ k2 :> "ping"),
  midtrans           |-> (k1 :> "cancel_payment" @@ k2 :> "ping") ]

MCPatches == {[handoff |-> TRUE], [handoff |-> FALSE], [status |-> "CLOSED"], [status |-> "OPEN"]}

ChannelsInit ==
  /\ scene \in {"messages", "connections", "events"}
  /\ Init /\ C!Init /\ B!Init
  /\ scene # "messages" => \A c \in Convs : conv[c] = NoConv
  /\ scene # "connections" => provider = "whatsapp_cloud_api"
  /\ scene # "events" => backend = "redis"

ChannelsNext ==
  \/ scene = "messages" /\ Next /\ UNCHANGED <<scene, connection, bus>>
  \/ scene = "connections" /\ C!Next /\ UNCHANGED <<scene, vars, bus>>
  \/ scene = "events" /\ B!Next /\ UNCHANGED <<scene, vars, connection>>

ChannelsSpec == ChannelsInit /\ [][ChannelsNext]_<<scene, vars, connection, bus>>

ChannelsSymmetry == Permutations({s1, s2}) \cup Permutations({i1, i2})
-----------------------------------------------------------------------------
(* Every variable of every module keeps its type.                            *)
ChannelsTypeOK == TypeOK /\ C!TypeOK /\ B!TypeOK

(* IntegrationConnections: an operation is performed as often as its key     *)
(* allows, and what is disconnected is revoked.                              *)
KeyedOnce == C!KeyedOnce
DisconnectedIsRevoked == C!DisconnectedIsRevoked

(* EventBus: no handler sees an event twice, and what is acknowledged has    *)
(* been given to every handler.                                              *)
HandledOnce == B!HandledOnce
AcknowledgedMeansHandled == B!AcknowledgedMeansHandled
=============================================================================
