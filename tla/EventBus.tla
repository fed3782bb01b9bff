------------------------------ MODULE EventBus ------------------------------
(***************************************************************************)
(* The event bus (app/core/events): the in-memory bus, which calls the     *)
(* handlers inside publish(), and the one on a Redis stream, whose workers *)
(* read batches for one consumer group, call the handlers and acknowledge. *)
(* A worker always asks for new messages (">"): what was delivered and not *)
(* acknowledged when it stops or crashes is not delivered again.           *)
(***************************************************************************)
EXTENDS Integers, Sequences, FiniteSets, SequencesExt

CONSTANTS
  Events,
  Workers,    \* processes that publish or run _consume_loop
  handlers,   \* how many handlers are subscribed to every event
  count       \* messages XREADGROUP returns at most
-----------------------------------------------------------------------------
VARIABLES
  backend,    \* EVENT_BUS_BACKEND
  stream,     \* the published events, in order
  delivered,  \* how far the consumer group has read
  pending,    \* delivered and not acknowledged
  finished,   \* acknowledged, or publish() has returned
  worker,     \* what each process is doing
  calls       \* handlers called for each event

busVars == <<backend, stream, delivered, pending, finished, worker, calls>>

WorkerRow == [pc    : {"down", "reading", "calling"},
              batch : UNION {[1..n -> Events] : n \in 0..count},
              next  : 1..(handlers + 1)]        \* the next handler of the batch's head

Down == [pc |-> "down", batch |-> <<>>, next |-> 1]
Reading == [Down EXCEPT !.pc = "reading"]

Init ==
  /\ backend \in {"in_memory", "redis"}
  /\ stream = <<>> /\ delivered = 0
  /\ pending = {} /\ finished = {}
  /\ worker = [w \in Workers |-> Down]
  /\ calls = [e \in Events |-> 0]
-----------------------------------------------------------------------------
Published == ToSet(stream)
Unread == SubSeq(stream, delivered + 1, Len(stream))
First(n, s) == IF Len(s) <= n THEN s ELSE SubSeq(s, 1, n)

Work(w, row) == worker' = [worker EXCEPT ![w] = row]

(* publish(): the handlers run in the request that publishes ...             *)
PublishInMemory(w, e) ==
  /\ backend = "in_memory"
  /\ e \notin Published
  /\ worker[w] = Down
  /\ stream' = Append(stream, e)
  /\ Work(w, [pc |-> "calling", batch |-> <<e>>, next |-> 1])
  /\ UNCHANGED <<backend, delivered, pending, finished, calls>>

(* ... or the event is appended to the stream.                               *)
PublishToStream(e) ==
  /\ backend = "redis"
  /\ e \notin Published
  /\ stream' = Append(stream, e)
  /\ UNCHANGED <<backend, delivered, pending, finished, worker, calls>>

Start_FromPending(w) ==
  /\ backend = "redis"
  /\ worker[w] = Down
  /\ Work(w, IF pending = {} THEN Reading
             ELSE [pc |-> "calling", batch |-> First(count, SetToSeq(pending)), next |-> 1])
  /\ UNCHANGED <<backend, stream, delivered, pending, finished, calls>>

(* start(): the group is made to read from the beginning of the stream.      *)
Start(w) ==
  /\ backend = "redis"
  /\ worker[w] = Down
  /\ Work(w, Reading)
  /\ UNCHANGED <<backend, stream, delivered, pending, finished, calls>>

ReadBatch(w) ==
  LET batch == First(count, Unread) IN
  /\ backend = "redis" /\ worker[w].pc = "reading"
  /\ batch # <<>>
  /\ Work(w, [pc |-> "calling", batch |-> batch, next |-> 1])
  /\ delivered' = delivered + Len(batch)
  /\ pending' = pending \cup ToSet(batch)
  /\ UNCHANGED <<backend, stream, finished, calls>>

(* The answer to XREADGROUP is lost: its messages are delivered to nobody.   *)
LoseBatch(w) ==
  LET batch == First(count, Unread) IN
  /\ backend = "redis" /\ worker[w].pc = "reading"
  /\ batch # <<>>
  /\ delivered' = delivered + Len(batch)
  /\ pending' = pending \cup ToSet(batch)
  /\ UNCHANGED <<backend, stream, finished, worker, calls>>

(* A handler that fails is logged, and the next one is called.               *)
CallHandler(w) ==
  LET row == worker[w] IN
  /\ row.pc = "calling"
  /\ row.next <= handlers
  /\ calls' = [calls EXCEPT ![Head(row.batch)] = @ + 1]
  /\ Work(w, [row EXCEPT !.next = @ + 1])
  /\ UNCHANGED <<backend, stream, delivered, pending, finished>>

Called_Some(w) == worker[w].pc = "calling" /\ worker[w].next > 1
Called(w) == worker[w].pc = "calling" /\ worker[w].next > handlers

NextMessage(w) ==
  LET rest == Tail(worker[w].batch) IN
  Work(w, CASE rest # <<>>                        -> [pc |-> "calling", batch |-> rest, next |-> 1]
            [] rest = <<>> /\ backend = "redis"     -> Reading
            [] rest = <<>> /\ backend = "in_memory" -> Down)

(* XACK, or the return of publish().                                         *)
Acknowledge(w) ==
  /\ Called(w)
  /\ finished' = finished \cup {Head(worker[w].batch)}
  /\ pending' = pending \ {Head(worker[w].batch)}
  /\ NextMessage(w)
  /\ UNCHANGED <<backend, stream, delivered, calls>>

(* Redis does not answer: the loop goes on, and the message stays pending.   *)
AcknowledgeFails(w) ==
  /\ backend = "redis"
  /\ Called(w)
  /\ NextMessage(w)
  /\ UNCHANGED <<backend, stream, delivered, pending, finished, calls>>

(* A crash, or stop(), which cancels the loop wherever it is.                *)
Stop(w) ==
  /\ worker[w] # Down
  /\ Work(w, Down)
  /\ UNCHANGED <<backend, stream, delivered, pending, finished, calls>>

Quiet == Published = Events /\ (\A w \in Workers : worker[w] = Down) /\ UNCHANGED busVars

Next ==
  \/ \E w \in Workers, e \in Events : PublishInMemory(w, e)
  \/ \E e \in Events : PublishToStream(e)
  \/ \E w \in Workers :
       \/ Start(w) \/ ReadBatch(w) \/ LoseBatch(w) \/ CallHandler(w)
       \/ Acknowledge(w) \/ AcknowledgeFails(w) \/ Stop(w)
  \/ Quiet

Spec == Init /\ [][Next]_busVars
-----------------------------------------------------------------------------
(* Every variable keeps its type.                                            *)
TypeOK ==
  /\ backend \in {"in_memory", "redis"}
  /\ stream \in Seq(Events) /\ IsInjective(stream)
  /\ delivered \in 0..Len(stream)
  /\ pending \subseteq Events /\ finished \subseteq Events
  /\ worker \in [Workers -> WorkerRow]
  /\ calls \in [Events -> Nat]

(* No handler sees an event twice, however workers share the stream, stop    *)
(* and start: the price of it is that an interrupted event is not retried.   *)
HandledOnce == \A e \in Events : calls[e] <= handlers

(* What is acknowledged has been given to every handler, and what is not     *)
(* acknowledged is still known to the group: a worker that is interrupted    *)
(* leaves the event pending, where somebody could claim it.                  *)
AcknowledgedMeansHandled ==
  /\ \A e \in finished : calls[e] >= handlers
  /\ backend = "redis" =>
       \A i \in 1..delivered : stream[i] \in pending \cup finished
=============================================================================
