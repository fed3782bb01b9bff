--------------------------- MODULE EventBusProofs ---------------------------
(***************************************************************************)
(* What both event buses guarantee for any number of events, workers,      *)
(* handlers and interruptions.  The argument is that an event is given out *)
(* once: it is in no batch before the group's position has passed it, and  *)
(* in one place of one batch afterwards, or in none.                       *)
(***************************************************************************)
EXTENDS EventBus, SequenceTheorems, TLAPS

Bounds == handlers \in Nat /\ count \in Nat \ {0}

(* What has been given to a worker: read from the stream, or published.      *)
Given == {stream[i] : i \in 1..(IF backend = "redis" THEN delivered ELSE Len(stream))}

Batches ==
  \A w \in Workers :
    /\ worker[w].pc = "calling" <=> worker[w].batch # <<>>
    /\ \A i \in 1..Len(worker[w].batch) : worker[w].batch[i] \in Given

(* No event is in two batches, or twice in one.                              *)
Apart ==
  \A w, v \in Workers : \A i \in 1..Len(worker[w].batch), j \in 1..Len(worker[v].batch) :
    worker[w].batch[i] = worker[v].batch[j] => w = v /\ i = j

Counted ==
  /\ \A e \in Events : e \notin Given => calls[e] = 0
  /\ \A w \in Workers : \A i \in 1..Len(worker[w].batch) :
       calls[worker[w].batch[i]] = IF i = 1 THEN worker[w].next - 1 ELSE 0

IInv == TypeOK /\ Batches /\ Apart /\ Counted /\ HandledOnce /\ AcknowledgedMeansHandled
-----------------------------------------------------------------------------
(* Rows of workers, by the length of their batches.                          *)
LEMMA Rows ==
  ASSUME Bounds
  PROVE  /\ \A row \in WorkerRow : /\ row.batch \in Seq(Events) /\ Len(row.batch) \in 0..count
                                   /\ row.next \in 1..(handlers + 1)
                                   /\ row.pc \in {"down", "reading", "calling"}
                                   /\ row = [pc |-> row.pc, batch |-> row.batch, next |-> row.next]
         /\ \A pc \in {"down", "reading", "calling"}, b \in Seq(Events), n \in 1..(handlers + 1) :
              Len(b) <= count => [pc |-> pc, batch |-> b, next |-> n] \in WorkerRow
<1>1. \A row \in WorkerRow : row.batch \in Seq(Events) /\ Len(row.batch) \in 0..count
  <2> SUFFICES ASSUME NEW row \in WorkerRow
               PROVE  row.batch \in Seq(Events) /\ Len(row.batch) \in 0..count
    OBVIOUS
  <2>1. PICK n \in 0..count : row.batch \in [1..n -> Events]
    BY DEF WorkerRow
  <2> QED
    BY <2>1 DEF Bounds
<1>2. ASSUME NEW b \in Seq(Events), Len(b) <= count
      PROVE  b \in UNION {[1..n -> Events] : n \in 0..count}
  <2>1. b \in [1..Len(b) -> Events] /\ Len(b) \in 0..count
    BY <1>2, LenProperties DEF Bounds
  <2> QED
    BY <2>1
<1> QED
  BY <1>1, <1>2 DEF WorkerRow

(* The next batch is what follows the group's position.                      *)
LEMMA BatchFacts ==
  ASSUME Bounds, TypeOK
  PROVE  /\ First(count, Unread) \in Seq(Events)
         /\ Len(First(count, Unread)) <= count
         /\ Len(First(count, Unread)) <= Len(stream) - delivered
         /\ \A i \in 1..Len(First(count, Unread)) : First(count, Unread)[i] = stream[delivered + i]
<1>1. stream \in Seq(Events) /\ Len(stream) \in Nat /\ delivered \in 0..Len(stream) /\ count \in Nat
  BY LenProperties DEF TypeOK, Bounds
<1>2. \A i \in delivered + 1 .. Len(stream) : stream[i] \in Events
  BY <1>1, ElementOfSeq
<1>3. /\ Unread \in Seq(Events)
      /\ Len(Unread) = Len(stream) - delivered
      /\ \A i \in 1..Len(stream) - delivered : Unread[i] = stream[delivered + i]
  <2>1. /\ Unread \in Seq(Events)
        /\ Len(Unread) = IF delivered + 1 <= Len(stream) THEN Len(stream) - (delivered + 1) + 1 ELSE 0
        /\ \A i \in 1..Len(stream) - (delivered + 1) + 1 : Unread[i] = stream[delivered + 1 + i - 1]
    BY <1>1, <1>2, SubSeqProperties DEF Unread
  <2> QED
    BY <1>1, <2>1
<1>4. CASE Len(Unread) <= count
  BY <1>1, <1>3, <1>4 DEF First
<1>5. CASE ~ (Len(Unread) <= count)
  <2>1. \A i \in 1..count : Unread[i] \in Events
    BY <1>1, <1>3, <1>5, ElementOfSeq
  <2>2. /\ SubSeq(Unread, 1, count) \in Seq(Events)
        /\ Len(SubSeq(Unread, 1, count)) = IF 1 <= count THEN count - 1 + 1 ELSE 0
        /\ \A i \in 1..count - 1 + 1 : SubSeq(Unread, 1, count)[i] = Unread[1 + i - 1]
    BY <1>1, <2>1, SubSeqProperties
  <2>3. First(count, Unread) = SubSeq(Unread, 1, count)
    BY <1>5 DEF First
  <2> QED
    BY <1>1, <1>3, <1>5, <2>2, <2>3
<1> QED
  BY <1>4, <1>5

LEMMA WorkFacts ==
  ASSUME TypeOK, NEW w \in Workers, NEW row \in WorkerRow, Work(w, row)
  PROVE  /\ worker' \in [Workers -> WorkerRow]
         /\ worker'[w] = row
         /\ \A v \in Workers : v # w => worker'[v] = worker[v]
  BY DEF TypeOK, Work

(* A worker that has nothing is given events nobody was given before.        *)
LEMMA GiveOut ==
  ASSUME Bounds, IInv, NEW w \in Workers, NEW b \in Seq(Events), b # <<>>, Len(b) <= count,
         worker[w].pc # "calling", Work(w, [pc |-> "calling", batch |-> b, next |-> 1]),
         calls' = calls,
         \A i \in 1..Len(b) : b[i] \notin Given,
         \A i, j \in 1..Len(b) : b[i] = b[j] => i = j,
         Given' = Given \cup {b[i] : i \in 1..Len(b)}
  PROVE  worker' \in [Workers -> WorkerRow] /\ Batches' /\ Apart' /\ Counted' /\ HandledOnce'
<1> DEFINE row == [pc |-> "calling", batch |-> b, next |-> 1]
<1>1. row \in WorkerRow
  BY Rows DEF Bounds
<1>2. /\ worker' \in [Workers -> WorkerRow] /\ worker'[w] = row
      /\ \A v \in Workers : v # w => worker'[v] = worker[v]
  BY <1>1, WorkFacts DEF IInv
<1>3. worker'[w].batch = b /\ worker'[w].next = 1 /\ worker'[w].pc = "calling"
  BY <1>2
<1>4. Len(b) \in Nat /\ \A i \in 1..Len(b) : b[i] \in Events
  BY LenProperties, ElementOfSeq
<1>5. Batches'
  BY <1>2, <1>3 DEF IInv, Batches
<1>6. Apart'
  BY <1>2, <1>3 DEF IInv, Apart, Batches
<1>7. \A e \in Events : e \notin Given' => calls'[e] = 0
  BY DEF IInv, Counted
<1>8. \A i \in 1..Len(b) : calls'[b[i]] = 0
  BY <1>4 DEF IInv, Counted
<1>9. Counted'
  BY <1>2, <1>3, <1>7, <1>8 DEF IInv, Counted
<1> QED
  BY <1>2, <1>5, <1>6, <1>9 DEF IInv, HandledOnce

(* A worker drops what it has, or the head of it.                            *)
LEMMA Forget ==
  ASSUME Bounds, IInv, NEW w \in Workers, NEW row \in WorkerRow, Work(w, row), calls' = calls,
         Given' = Given,
         row.pc = "calling" <=> row.batch # <<>>,
         \/ row.batch = <<>>
         \/ /\ worker[w].batch # <<>> /\ row.next = 1
            /\ row.batch = Tail(worker[w].batch)
  PROVE  worker' \in [Workers -> WorkerRow] /\ Batches' /\ Apart' /\ Counted' /\ HandledOnce'
<1>1. /\ worker' \in [Workers -> WorkerRow] /\ worker'[w] = row
      /\ \A v \in Workers : v # w => worker'[v] = worker[v]
  BY WorkFacts DEF IInv
<1>2. CASE row.batch = <<>>
  <2>1. Len(worker'[w].batch) = 0
    BY <1>1, <1>2
  <2> QED
    BY <1>1, <1>2, <2>1 DEF IInv, Batches, Apart, Counted, HandledOnce
<1>3. CASE row.batch # <<>>
  <2> DEFINE b == worker[w].batch
  <2>1. b \in Seq(Events) /\ b # <<>> /\ row.batch = Tail(b) /\ row.next = 1
    BY <1>3, Rows DEF IInv, TypeOK
  <2>2. /\ Len(row.batch) = Len(b) - 1 /\ Len(b) \in Nat
        /\ \A i \in 1..Len(row.batch) : row.batch[i] = b[i + 1]
    BY <2>1, HeadTailProperties, LenProperties
  <2>3. Batches'
    BY <1>1, <2>2 DEF IInv, Batches
  <2> DEFINE at(v, i) == IF v = w THEN i + 1 ELSE i
  <2>7. \A v \in Workers : \A i \in 1..Len(worker'[v].batch) :
          /\ at(v, i) \in 1..Len(worker[v].batch)
          /\ worker'[v].batch[i] = worker[v].batch[at(v, i)]
    BY <1>1, <2>2
  <2>4. Apart'
    <3> SUFFICES ASSUME NEW v \in Workers, NEW u \in Workers, NEW i \in 1..Len(worker'[v].batch),
                        NEW j \in 1..Len(worker'[u].batch),
                        worker'[v].batch[i] = worker'[u].batch[j]
                 PROVE  v = u /\ i = j
      BY DEF Apart
    <3>1. /\ at(v, i) \in 1..Len(worker[v].batch) /\ at(u, j) \in 1..Len(worker[u].batch)
          /\ worker[v].batch[at(v, i)] = worker[u].batch[at(u, j)]
      BY <2>7
    <3> HIDE DEF at
    <3>2. v = u /\ at(v, i) = at(u, j)
      BY <3>1 DEF IInv, Apart
    <3> QED
      BY <3>2 DEF at
  <2>5. ASSUME NEW i \in 1..Len(row.batch)
        PROVE  calls[row.batch[i]] = 0
    <3>1. \A j \in 1..Len(b) : calls[b[j]] = IF j = 1 THEN worker[w].next - 1 ELSE 0
      BY DEF IInv, Counted
    <3>2. i + 1 \in 1..Len(b) /\ i + 1 # 1 /\ row.batch[i] = b[i + 1]
      BY <2>2
    <3> QED
      BY <3>1, <3>2
  <2>6. Counted'
    <3>1. \A i \in 1..Len(worker'[w].batch) : calls[worker'[w].batch[i]] = 0
      BY <1>1, <2>5
    <3>2. worker'[w].next - 1 = 0
      BY <1>1, <2>1
    <3>3. \A v \in Workers : \A i \in 1..Len(worker'[v].batch) :
            calls[worker'[v].batch[i]] = IF i = 1 THEN worker'[v].next - 1 ELSE 0
      BY <1>1, <3>1, <3>2 DEF IInv, Counted
    <3> QED
      BY <3>3 DEF IInv, Counted
  <2> QED
    BY <1>1, <2>3, <2>4, <2>6 DEF IInv, HandledOnce
<1> QED
  BY <1>2, <1>3

LEMMA InitOK == Bounds /\ Init => IInv
<1> SUFFICES ASSUME Bounds, Init PROVE IInv
  OBVIOUS
<1>1. Down \in WorkerRow
  <2>1. <<>> \in Seq(Events) /\ Len(<<>>) <= count /\ 1 \in 1..(handlers + 1)
    BY DEF Bounds
  <2> QED
    BY <2>1, Rows DEF Down
<1>2. stream \in Seq(Events) /\ Len(stream) = 0 /\ IsInjective(stream)
  BY DEF Init, IsInjective
<1>3. Given = {}
  BY <1>2 DEF Init, Given
<1>4. TypeOK
  BY <1>1, <1>2 DEF Init, TypeOK
<1>5. \A w \in Workers : worker[w].batch = <<>> /\ worker[w].pc = "down" /\ Len(worker[w].batch) = 0
  BY DEF Init, Down
<1> QED
  BY <1>2, <1>3, <1>4, <1>5
     DEF Init, IInv, Batches, Apart, Counted, HandledOnce, AcknowledgedMeansHandled, Bounds

(* What a worker that has a batch is handling.                               *)
LEMMA AtWork ==
  ASSUME Bounds, IInv, NEW w \in Workers, worker[w].pc = "calling"
  PROVE  /\ worker[w].batch \in Seq(Events) /\ worker[w].batch # <<>>
         /\ Len(worker[w].batch) \in Nat \ {0} /\ Len(worker[w].batch) <= count
         /\ Head(worker[w].batch) = worker[w].batch[1]
         /\ Head(worker[w].batch) \in Events
         /\ worker[w].next \in 1..(handlers + 1)
         /\ calls[Head(worker[w].batch)] = worker[w].next - 1
<1>1. worker[w] \in WorkerRow
  BY DEF IInv, TypeOK
<1>2. worker[w].batch \in Seq(Events) /\ worker[w].batch # <<>>
      /\ Len(worker[w].batch) \in 0..count /\ worker[w].next \in 1..(handlers + 1)
  BY <1>1, Rows DEF IInv, Batches
<1>3. Len(worker[w].batch) \in Nat \ {0}
  BY <1>2, EmptySeq
<1>4. Head(worker[w].batch) = worker[w].batch[1]
  BY <1>2
<1> QED
  BY <1>2, <1>3, <1>4, ElementOfSeq DEF IInv, Counted

(* Steps that concern neither the stream nor what handlers have seen.        *)
LEMMA Given_Same ==
  ASSUME UNCHANGED <<backend, stream, delivered>>
  PROVE  Given' = Given
  BY DEF Given

LEMMA Idle_Step ==
  ASSUME Bounds, IInv, NEW w \in Workers, NEW row \in WorkerRow, Work(w, row),
         row.pc # "calling", row.batch = <<>>,
         UNCHANGED <<backend, stream, delivered, pending, finished, calls>>
  PROVE  IInv'
<1>1. worker' \in [Workers -> WorkerRow] /\ Batches' /\ Apart' /\ Counted' /\ HandledOnce'
  BY Given_Same, Forget
<1> QED
  BY <1>1 DEF IInv, TypeOK, AcknowledgedMeansHandled

LEMMA Published_Step ==
  ASSUME Bounds, IInv, NEW w \in Workers, NEW e \in Events, PublishInMemory(w, e)
  PROVE  IInv'
<1>1. /\ stream' = Append(stream, e) /\ stream' \in Seq(Events)
      /\ Len(stream') = Len(stream) + 1 /\ Len(stream) \in Nat
      /\ \A i \in 1..Len(stream) : stream'[i] = stream[i]
      /\ stream'[Len(stream) + 1] = e
  BY AppendProperties, LenProperties DEF PublishInMemory, IInv, TypeOK
<1>2. \A i \in 1..Len(stream) : stream[i] # e
  BY LenProperties DEF PublishInMemory, Published, ToSet, IInv, TypeOK
<1>3. IsInjective(stream')
  <2>1. DOMAIN stream' = 1..Len(stream) + 1 /\ DOMAIN stream = 1..Len(stream)
    BY <1>1, LenProperties DEF IInv, TypeOK
  <2> QED
    BY <1>1, <1>2, <2>1 DEF IsInjective, IInv, TypeOK
<1>4. Given' = Given \cup {e} /\ e \notin Given
  BY <1>1, <1>2 DEF Given, PublishInMemory
<1> DEFINE b == <<e>>
<1>5. b \in Seq(Events) /\ Len(b) = 1 /\ b # <<>> /\ b[1] = e /\ {b[i] : i \in 1..Len(b)} = {e}
  OBVIOUS
<1>6. worker[w].pc # "calling"
  BY DEF PublishInMemory, Down
<1>7. Work(w, [pc |-> "calling", batch |-> b, next |-> 1]) /\ calls' = calls
  BY DEF PublishInMemory
<1> HIDE DEF b
<1>8. worker' \in [Workers -> WorkerRow] /\ Batches' /\ Apart' /\ Counted' /\ HandledOnce'
  <2>1. Len(b) <= count
    BY <1>5 DEF Bounds
  <2>2. /\ \A i \in 1..Len(b) : b[i] \notin Given
        /\ \A i, j \in 1..Len(b) : b[i] = b[j] => i = j
        /\ Given' = Given \cup {b[i] : i \in 1..Len(b)}
    BY <1>4, <1>5
  <2> QED
    BY <1>5, <1>6, <1>7, <2>1, <2>2, GiveOut
<1>9. TypeOK'
  BY <1>1, <1>3, <1>8 DEF PublishInMemory, IInv, TypeOK
<1> QED
  BY <1>8, <1>9 DEF PublishInMemory, IInv, AcknowledgedMeansHandled

LEMMA Appended_Step ==
  ASSUME Bounds, IInv, NEW e \in Events, PublishToStream(e)
  PROVE  IInv'
<1>1. /\ stream' = Append(stream, e) /\ stream' \in Seq(Events)
      /\ Len(stream') = Len(stream) + 1 /\ Len(stream) \in Nat
      /\ \A i \in 1..Len(stream) : stream'[i] = stream[i]
      /\ stream'[Len(stream) + 1] = e
  BY AppendProperties, LenProperties DEF PublishToStream, IInv, TypeOK
<1>2. \A i \in 1..Len(stream) : stream[i] # e
  BY LenProperties DEF PublishToStream, Published, ToSet, IInv, TypeOK
<1>3. IsInjective(stream')
  <2>1. DOMAIN stream' = 1..Len(stream) + 1 /\ DOMAIN stream = 1..Len(stream)
    BY <1>1, LenProperties DEF IInv, TypeOK
  <2> QED
    BY <1>1, <1>2, <2>1 DEF IsInjective, IInv, TypeOK
<1>4. Given' = Given
  BY <1>1 DEF Given, PublishToStream, IInv, TypeOK
<1>5. TypeOK'
  BY <1>1, <1>3 DEF PublishToStream, IInv, TypeOK
<1> QED
  BY <1>1, <1>4, <1>5
     DEF PublishToStream, IInv, TypeOK, Batches, Apart, Counted, HandledOnce, AcknowledgedMeansHandled

(* XREADGROUP moves the group's position over the batch.                     *)
LEMMA Position ==
  ASSUME Bounds, IInv, backend = "redis",
         First(count, Unread) # <<>>,
         delivered' = delivered + Len(First(count, Unread)),
         pending' = pending \cup ToSet(First(count, Unread)),
         UNCHANGED <<backend, stream, finished, calls>>
  PROVE  LET b == First(count, Unread) IN
         /\ b \in Seq(Events) /\ b # <<>> /\ Len(b) <= count
         /\ \A i \in 1..Len(b) : b[i] \notin Given
         /\ \A i, j \in 1..Len(b) : b[i] = b[j] => i = j
         /\ Given' = Given \cup {b[i] : i \in 1..Len(b)}
         /\ delivered' \in 0..Len(stream) /\ pending' \subseteq Events
         /\ AcknowledgedMeansHandled'
<1> DEFINE b == First(count, Unread)
<1>1. /\ b \in Seq(Events) /\ Len(b) <= count /\ Len(b) <= Len(stream) - delivered
      /\ \A i \in 1..Len(b) : b[i] = stream[delivered + i]
  BY BatchFacts DEF IInv
<1> HIDE DEF b
<1>2. Len(b) \in Nat /\ Len(stream) \in Nat /\ delivered \in 0..Len(stream)
      /\ DOMAIN stream = 1..Len(stream)
  BY <1>1, LenProperties DEF IInv, TypeOK
<1>3. \A i, j \in 1..Len(stream) : stream[i] = stream[j] => i = j
  BY <1>2 DEF IInv, TypeOK, IsInjective
<1>4. \A i \in 1..Len(b) : b[i] \notin Given
  <2> SUFFICES ASSUME NEW i \in 1..Len(b), NEW j \in 1..delivered, stream[j] = b[i]
               PROVE  FALSE
    BY DEF Given
  <2>1. delivered + i \in 1..Len(stream) /\ stream[j] = stream[delivered + i] /\ j \in 1..Len(stream)
    BY <1>1, <1>2
  <2> QED
    BY <1>2, <1>3, <2>1
<1>5. \A i, j \in 1..Len(b) : b[i] = b[j] => i = j
  BY <1>1, <1>2, <1>3
<1>6. delivered' = delivered + Len(b) /\ delivered' \in 0..Len(stream)
  BY <1>1, <1>2 DEF b
<1>7. Given' = {stream[i] : i \in 1..delivered + Len(b)} /\ Given = {stream[i] : i \in 1..delivered}
  BY <1>6 DEF Given
<1>8. ASSUME NEW x, x \in Given'
      PROVE  x \in Given \cup {b[i] : i \in 1..Len(b)}
  <2>1. PICK i \in 1..delivered + Len(b) : x = stream[i]
    BY <1>7, <1>8
  <2>2. CASE i <= delivered
    BY <1>2, <1>7, <2>1, <2>2
  <2>3. CASE ~ (i <= delivered)
    <3>1. i - delivered \in 1..Len(b) /\ stream[i] = stream[delivered + (i - delivered)]
      BY <1>2, <2>1, <2>3
    <3> QED
      BY <1>1, <2>1, <3>1
  <2> QED
    BY <2>2, <2>3
<1>9. Given' = Given \cup {b[i] : i \in 1..Len(b)}
  <2>1. \A i \in 1..Len(b) : delivered + i \in 1..delivered + Len(b)
    BY <1>2
  <2>2. \A x \in Given : x \in Given'
    <3>1. \A i \in 1..delivered : i \in 1..delivered + Len(b)
      BY <1>2
    <3> QED
      BY <1>7, <3>1
  <2>3. \A i \in 1..Len(b) : b[i] \in Given'
    BY <1>1, <1>7, <2>1
  <2> QED
    BY <1>8, <2>2, <2>3
<1>10. ToSet(b) = {b[i] : i \in 1..Len(b)} /\ pending' = pending \cup ToSet(b)
  BY <1>1, LenProperties DEF ToSet, b
<1>11. pending' \subseteq Events
  BY <1>1, <1>10, ElementOfSeq DEF IInv, TypeOK
<1>12. \A x \in Given : x \in pending \cup finished
  BY <1>7 DEF IInv, AcknowledgedMeansHandled
<1>13. \A i \in 1..delivered' : stream[i] \in pending' \cup finished
  <2>1. \A x \in Given' : x \in pending' \cup finished
    BY <1>9, <1>10, <1>12
  <2> QED
    BY <1>6, <1>7, <2>1
<1>14. AcknowledgedMeansHandled'
  BY <1>13 DEF IInv, AcknowledgedMeansHandled
<1> QED
  BY <1>1, <1>4, <1>5, <1>6, <1>9, <1>11, <1>14 DEF b

LEMMA Read_Step ==
  ASSUME Bounds, IInv, NEW w \in Workers, ReadBatch(w)
  PROVE  IInv'
<1> DEFINE b == First(count, Unread)
<1>1. /\ b \in Seq(Events) /\ b # <<>> /\ Len(b) <= count
      /\ \A i \in 1..Len(b) : b[i] \notin Given
      /\ \A i, j \in 1..Len(b) : b[i] = b[j] => i = j
      /\ Given' = Given \cup {b[i] : i \in 1..Len(b)}
      /\ delivered' \in 0..Len(stream) /\ pending' \subseteq Events
      /\ AcknowledgedMeansHandled'
  BY Position DEF ReadBatch
<1>2. Work(w, [pc |-> "calling", batch |-> b, next |-> 1]) /\ calls' = calls /\ worker[w].pc # "calling"
  BY DEF ReadBatch
<1> HIDE DEF b
<1>3. worker' \in [Workers -> WorkerRow] /\ Batches' /\ Apart' /\ Counted' /\ HandledOnce'
  BY <1>1, <1>2, GiveOut
<1> QED
  BY <1>1, <1>3 DEF ReadBatch, IInv, TypeOK

LEMMA Lost_Step ==
  ASSUME Bounds, IInv, NEW w \in Workers, LoseBatch(w)
  PROVE  IInv'
<1>1. /\ Given \subseteq Given'
      /\ delivered' \in 0..Len(stream) /\ pending' \subseteq Events
      /\ AcknowledgedMeansHandled'
  BY Position DEF LoseBatch
<1> QED
  BY <1>1 DEF LoseBatch, IInv, TypeOK, Batches, Apart, Counted, HandledOnce

LEMMA Called_Step ==
  ASSUME Bounds, IInv, NEW w \in Workers, CallHandler(w)
  PROVE  IInv'
<1> DEFINE h == Head(worker[w].batch)
           row == [worker[w] EXCEPT !.next = @ + 1]
<1>1. /\ worker[w].batch \in Seq(Events) /\ Len(worker[w].batch) \in Nat \ {0}
      /\ h = worker[w].batch[1] /\ h \in Events
      /\ worker[w].next \in 1..handlers /\ handlers \in Nat
      /\ calls[h] = worker[w].next - 1
  BY AtWork DEF CallHandler, Bounds
<1>2. /\ calls' = [calls EXCEPT ![h] = @ + 1] /\ Work(w, row)
      /\ UNCHANGED <<backend, stream, delivered, pending, finished>>
  BY DEF CallHandler
<1>3. row \in WorkerRow /\ row.batch = worker[w].batch /\ row.pc = worker[w].pc
      /\ row.next = worker[w].next + 1
  <2>1. worker[w] \in WorkerRow
    BY DEF IInv, TypeOK
  <2>2. row = [pc |-> worker[w].pc, batch |-> worker[w].batch, next |-> worker[w].next + 1]
    BY <2>1, Rows
  <2>3. worker[w].next + 1 \in 1..(handlers + 1)
    BY <1>1
  <2> HIDE DEF row
  <2>4. row \in WorkerRow
    BY <2>1, <2>2, <2>3, Rows
  <2> QED
    BY <2>2, <2>4
<1> HIDE DEF h, row
<1>4. /\ worker' \in [Workers -> WorkerRow] /\ worker'[w] = row
      /\ \A v \in Workers : v # w => worker'[v] = worker[v]
  BY <1>2, <1>3, WorkFacts DEF IInv
<1>5. \A v \in Workers : worker'[v].batch = worker[v].batch /\ worker'[v].pc = worker[v].pc
  BY <1>3, <1>4
<1>6. Given' = Given
  BY <1>2, Given_Same
<1>7. /\ calls' \in [Events -> Nat] /\ calls'[h] = calls[h] + 1
      /\ \A e \in Events : e # h => calls'[e] = calls[e]
      /\ calls \in [Events -> Nat] /\ \A e \in Events : calls[e] \in Nat
  <2>1. calls \in [Events -> Nat]
    BY DEF IInv, TypeOK
  <2>2. calls[h] + 1 \in Nat
    BY <1>1, <2>1
  <2> QED
    BY <1>1, <1>2, <2>1, <2>2
<1>8. TypeOK'
  BY <1>2, <1>4, <1>7 DEF IInv, TypeOK
<1>9. Batches' /\ Apart'
  BY <1>5, <1>6 DEF IInv, Batches, Apart
<1>10. h \in Given
  BY <1>1 DEF IInv, Batches
<1>11. Counted'
  <2>1. \A e \in Events : e \notin Given' => calls'[e] = 0
    BY <1>6, <1>7, <1>10 DEF IInv, Counted
  <2>2. ASSUME NEW v \in Workers, NEW i \in 1..Len(worker[v].batch)
        PROVE  calls'[worker[v].batch[i]] = IF i = 1 THEN worker'[v].next - 1 ELSE 0
    <3>1. CASE v = w /\ i = 1
      BY <1>1, <1>3, <1>4, <1>7, <3>1
    <3>2. CASE ~ (v = w /\ i = 1)
      <4>1. worker[v].batch[i] # h
        BY <1>1, <3>2 DEF IInv, Apart
      <4>2. worker[v].batch[i] \in Events
        <5>1. worker[v] \in WorkerRow
          BY DEF IInv, TypeOK
        <5> QED
          BY <5>1, Rows, ElementOfSeq
      <4>3. calls'[worker[v].batch[i]] = calls[worker[v].batch[i]]
        BY <1>7, <4>1, <4>2
      <4>4. calls[worker[v].batch[i]] = IF i = 1 THEN worker[v].next - 1 ELSE 0
        BY DEF IInv, Counted
      <4> QED
        BY <1>4, <3>2, <4>3, <4>4
    <3> QED
      BY <3>1, <3>2
  <2> QED
    BY <1>5, <2>1, <2>2 DEF Counted
<1>12. HandledOnce'
  <2>1. \A e \in Events : calls[e] <= handlers
    BY DEF IInv, HandledOnce
  <2>2. calls'[h] <= handlers
    BY <1>1, <1>7
  <2> QED
    BY <1>7, <2>1, <2>2 DEF HandledOnce
<1>13. AcknowledgedMeansHandled'
  <2>1. \A e \in Events : calls'[e] >= calls[e]
    <3>1. ASSUME NEW e \in Events PROVE calls'[e] >= calls[e]
      <4>1. calls[e] \in Nat
        BY <1>7
      <4>2. calls'[e] = calls[e] \/ calls'[e] = calls[e] + 1
        BY <1>7
      <4> QED
        BY <4>1, <4>2
    <3> QED
      BY <3>1
  <2>2. \A e \in finished' : calls'[e] >= handlers
    BY <1>1, <1>2, <1>7, <2>1 DEF IInv, TypeOK, AcknowledgedMeansHandled
  <2> QED
    BY <1>2, <2>2 DEF IInv, AcknowledgedMeansHandled
<1> QED
  BY <1>8, <1>9, <1>11, <1>12, <1>13 DEF IInv

(* What a worker does after a message.                                       *)
LEMMA Next_Step ==
  ASSUME Bounds, IInv, NEW w \in Workers, worker[w].pc = "calling", NextMessage(w),
         UNCHANGED <<backend, stream, delivered, calls>>
  PROVE  worker' \in [Workers -> WorkerRow] /\ Batches' /\ Apart' /\ Counted' /\ HandledOnce'
<1> DEFINE b == worker[w].batch
<1>1. b \in Seq(Events) /\ b # <<>> /\ Len(b) <= count
  BY AtWork
<1>2. Tail(b) \in Seq(Events) /\ Len(Tail(b)) <= count
  <2>1. Tail(b) \in Seq(Events) /\ Len(Tail(b)) = Len(b) - 1 /\ Len(b) \in Nat
    BY <1>1, HeadTailProperties, LenProperties
  <2> QED
    BY <1>1, <2>1 DEF Bounds
<1>3. Given' = Given
  BY Given_Same
<1>4. Down \in WorkerRow /\ Reading \in WorkerRow
  <2>1. <<>> \in Seq(Events) /\ Len(<<>>) <= count /\ 1 \in 1..(handlers + 1)
    BY DEF Bounds
  <2>2. Reading = [pc |-> "reading", batch |-> <<>>, next |-> 1]
    BY DEF Down, Reading
  <2> QED
    BY <2>1, <2>2, Rows DEF Down
<1>5. CASE Tail(b) # <<>>
  <2> DEFINE row == [pc |-> "calling", batch |-> Tail(b), next |-> 1]
  <2>1. row \in WorkerRow
    <3>1. 1 \in 1..(handlers + 1)
      BY DEF Bounds
    <3> QED
      BY <1>2, <3>1, Rows
  <2>2. Work(w, row)
    BY <1>5 DEF NextMessage
  <2>3. row.pc = "calling" /\ row.batch = Tail(worker[w].batch) /\ row.next = 1 /\ row.batch # <<>>
    BY <1>5
  <2> HIDE DEF row
  <2> QED
    BY <1>1, <1>3, <2>1, <2>2, <2>3, Forget
<1>6. CASE Tail(b) = <<>>
  <2>1. PICK row \in {Down, Reading} : Work(w, row)
    BY <1>6 DEF NextMessage, IInv, TypeOK
  <2>2. row \in WorkerRow /\ row.batch = <<>> /\ row.pc # "calling"
    BY <1>4, <2>1 DEF Down, Reading
  <2> QED
    BY <1>3, <2>1, <2>2, Forget
<1> QED
  BY <1>5, <1>6

LEMMA Acknowledged_Step ==
  ASSUME Bounds, IInv, NEW w \in Workers, Acknowledge(w)
  PROVE  IInv'
<1> DEFINE h == Head(worker[w].batch)
<1>1. worker[w].pc = "calling" /\ worker[w].next > handlers
  BY DEF Acknowledge, Called
<1>2. h \in Events /\ calls[h] >= handlers
  BY <1>1, AtWork DEF Bounds
<1>3. /\ finished' = finished \cup {h} /\ pending' = pending \ {h}
      /\ UNCHANGED <<backend, stream, delivered, calls>>
  BY DEF Acknowledge
<1>4. worker' \in [Workers -> WorkerRow] /\ Batches' /\ Apart' /\ Counted' /\ HandledOnce'
  BY <1>1, <1>3, Next_Step DEF Acknowledge
<1> QED
  BY <1>2, <1>3, <1>4 DEF IInv, TypeOK, AcknowledgedMeansHandled

LEMMA Unacknowledged_Step ==
  ASSUME Bounds, IInv, NEW w \in Workers, AcknowledgeFails(w)
  PROVE  IInv'
<1>1. worker' \in [Workers -> WorkerRow] /\ Batches' /\ Apart' /\ Counted' /\ HandledOnce'
  BY Next_Step DEF AcknowledgeFails, Called
<1> QED
  BY <1>1 DEF AcknowledgeFails, IInv, TypeOK, AcknowledgedMeansHandled

LEMMA StepOK == Bounds /\ IInv /\ [Next]_busVars => IInv'
<1> SUFFICES ASSUME Bounds, IInv, [Next]_busVars PROVE IInv'
  OBVIOUS
<1>1. /\ Down \in WorkerRow /\ Down.pc # "calling" /\ Down.batch = <<>>
      /\ Reading \in WorkerRow /\ Reading.pc # "calling" /\ Reading.batch = <<>>
  <2>1. <<>> \in Seq(Events) /\ Len(<<>>) <= count /\ 1 \in 1..(handlers + 1)
    BY DEF Bounds
  <2>2. Reading = [pc |-> "reading", batch |-> <<>>, next |-> 1]
    BY DEF Down, Reading
  <2> QED
    BY <2>1, <2>2, Rows DEF Down
<1>2. ASSUME NEW w \in Workers, NEW e \in Events, PublishInMemory(w, e)
      PROVE  IInv'
  BY <1>2, Published_Step
<1>3. ASSUME NEW e \in Events, PublishToStream(e)
      PROVE  IInv'
  BY <1>3, Appended_Step
<1>4. ASSUME NEW w \in Workers, Start(w)
      PROVE  IInv'
  BY <1>1, <1>4, Idle_Step DEF Start
<1>5. ASSUME NEW w \in Workers, ReadBatch(w)
      PROVE  IInv'
  BY <1>5, Read_Step
<1>6. ASSUME NEW w \in Workers, LoseBatch(w)
      PROVE  IInv'
  BY <1>6, Lost_Step
<1>7. ASSUME NEW w \in Workers, CallHandler(w)
      PROVE  IInv'
  BY <1>7, Called_Step
<1>8. ASSUME NEW w \in Workers, Acknowledge(w)
      PROVE  IInv'
  BY <1>8, Acknowledged_Step
<1>9. ASSUME NEW w \in Workers, AcknowledgeFails(w)
      PROVE  IInv'
  BY <1>9, Unacknowledged_Step
<1>10. ASSUME NEW w \in Workers, Stop(w)
       PROVE  IInv'
  BY <1>1, <1>10, Idle_Step DEF Stop
<1>11. ASSUME UNCHANGED busVars
       PROVE  IInv'
  <2>1. Given' = Given
    BY <1>11, Given_Same DEF busVars
  <2>2. UNCHANGED <<backend, stream, delivered, pending, finished, worker, calls>>
    BY <1>11 DEF busVars
  <2>3. TypeOK' /\ HandledOnce' /\ AcknowledgedMeansHandled'
    BY <2>2 DEF IInv, TypeOK, HandledOnce, AcknowledgedMeansHandled
  <2>4. Batches' /\ Apart' /\ Counted'
    BY <2>1, <2>2 DEF IInv, Batches, Apart, Counted
  <2> QED
    BY <2>3, <2>4 DEF IInv
<1> QED
  BY <1>2, <1>3, <1>4, <1>5, <1>6, <1>7, <1>8, <1>9, <1>10, <1>11 DEF Next, Quiet
-----------------------------------------------------------------------------
(* The invariant holds in every reachable state.                            *)
THEOREM Inductive == ASSUME Bounds PROVE Spec => []IInv
  BY InitOK, StepOK, PTL DEF Spec

(* Positions, batches and counters keep their types.                        *)
THEOREM TypeCorrect == ASSUME Bounds PROVE Spec => []TypeOK
<1>1. IInv => TypeOK
  BY DEF IInv
<1> QED
  BY <1>1, Inductive, PTL

(* publish() and _consume_loop call every handler at most once for an       *)
(* event, for any number of workers that share the stream and of stops,     *)
(* crashes and lost answers.                                                *)
THEOREM HandledAtMostOnce == ASSUME Bounds PROVE Spec => []HandledOnce
<1>1. IInv => HandledOnce
  BY DEF IInv
<1> QED
  BY <1>1, Inductive, PTL

(* XACK follows the last handler, and what is interrupted stays pending.    *)
THEOREM NothingAcknowledgedEarly == ASSUME Bounds PROVE Spec => []AcknowledgedMeansHandled
<1>1. IInv => AcknowledgedMeansHandled
  BY DEF IInv
<1> QED
  BY <1>1, Inductive, PTL
=============================================================================
