--------------------------- MODULE IpcFifoProofs ---------------------------
(***************************************************************************)
(* The channels of module Ipc implement the bounded FIFO queues of module  *)
(* ChannelFifo, for every value of the constants.                          *)
(***************************************************************************)
EXTENDS IpcProofs

\* The queue that a channel record stands for, and that of every slot.
Queue(ch) == IF ch.open THEN Contents(ch) ELSE NULL

fifo == [c \in Slot |-> IF chan[c].open THEN Contents(chan[c]) ELSE NULL]

\* The queue of an open channel is a sequence, as long as the count says.
LEMMA ContentsSeq ==
  ASSUME NEW c, NEW g, NEW ch, ChanOk(c, ch, g)
  PROVE  /\ Contents(ch) \in Seq(Message \cup {NULL})
         /\ Len(Contents(ch)) = ch.count
         /\ \A i \in 1 .. ch.count : Contents(ch)[i] = ch.ring[At(ch.head + (i - 1))]
         /\ Contents(ch) # NULL
<1>1. /\ ch \in Channel /\ ch.count \in Nat /\ ch.count <= CAPACITY /\ ch.ring \in Ring
      /\ ch.head \in 0 .. CAPACITY - 1 /\ CAPACITY \in Nat
  BY IpcConstants DEF ChanOk, Channel
<1>2. ASSUME NEW i \in 1 .. ch.count
      PROVE  /\ ch.ring[(ch.head + i - 1) % CAPACITY] = ch.ring[At(ch.head + (i - 1))]
             /\ ch.ring[At(ch.head + (i - 1))] \in Message \cup {NULL}
  <2>1. i - 1 \in 0 .. CAPACITY /\ ch.head + i - 1 = ch.head + (i - 1)
    BY <1>1
  <2>2. At(ch.head + (i - 1)) \in 0 .. CAPACITY - 1
    BY <1>1, <2>1, RingIndex, Zenon
  <2>3. At(ch.head + (i - 1)) = (ch.head + i - 1) % CAPACITY
    BY <2>1 DEF At
  <2> QED BY <1>1, <2>2, <2>3 DEF Ring
<1> DEFINE f(i) == ch.ring[At(ch.head + (i - 1))]
<1>3. Contents(ch) = [i \in 1 .. ch.count |-> f(i)]
  BY <1>2 DEF Contents
<1>4. \A i \in 1 .. ch.count : f(i) \in Message \cup {NULL}
  BY <1>2
<1> HIDE DEF f
<1>5. /\ Contents(ch) \in Seq(Message \cup {NULL})
      /\ Len(Contents(ch)) = ch.count
      /\ \A i \in 1 .. ch.count : Contents(ch)[i] = f(i)
  BY <1>1, <1>3, <1>4
<1> QED BY <1>5, NullConstant DEF f

\* ipc_trysend appends the message.
LEMMA PutAppends ==
  ASSUME NEW c \in Slot, NEW g \in Nat, NEW ch, ChanOk(c, ch, g), ch.open,
         ch.count < CAPACITY, NEW m \in Message, m.via = ch.handle
  PROVE  Contents(Put(ch, m)) = Append(Contents(ch), m)
<1> DEFINE p == Put(ch, m)
           S == Message \cup {NULL}
<1>1. ChanOk(c, p, g) /\ ch \in Channel
  BY PutOk DEF ChanOk
<1>2. /\ p.head = ch.head /\ p.count = ch.count + 1
      /\ p.ring = [ch.ring EXCEPT ![ch.tail] = m]
  BY <1>1, PutFields
<1> HIDE DEF p
<1>3. /\ Contents(p) \in Seq(S) /\ Len(Contents(p)) = p.count
      /\ \A i \in 1 .. p.count : Contents(p)[i] = p.ring[At(ch.head + (i - 1))]
  <2>1. \A i \in 1 .. p.count : Contents(p)[i] = p.ring[At(p.head + (i - 1))]
    BY <1>1, ContentsSeq
  <2>2. Contents(p) \in Seq(S) /\ Len(Contents(p)) = p.count
    BY <1>1, ContentsSeq
  <2> QED BY <1>2, <2>1, <2>2
<1>4. /\ Contents(ch) \in Seq(S) /\ Len(Contents(ch)) = ch.count
      /\ \A i \in 1 .. ch.count : Contents(ch)[i] = ch.ring[At(ch.head + (i - 1))]
  BY <1>1, ContentsSeq
<1>5. /\ ch.count \in Nat /\ ch.head \in 0 .. CAPACITY - 1 /\ ch.tail \in 0 .. CAPACITY - 1
      /\ CAPACITY \in Nat /\ ch.ring \in Ring
  BY <1>1, IpcConstants DEF Channel
<1>6. ch.tail = At(ch.head + ch.count)
  BY DEF ChanOk
<1>7. ASSUME NEW i \in 1 .. ch.count
      PROVE  Contents(p)[i] = Contents(ch)[i]
  <2> DEFINE k == i - 1
             j == At(ch.head + k)
  <2>1. k \in 0 .. CAPACITY /\ k < ch.count /\ i \in 1 .. ch.count + 1 /\ ch.count \in 0 .. CAPACITY
    BY <1>5
  <2>2. /\ j = IF ch.head + k < CAPACITY THEN ch.head + k ELSE ch.head + k - CAPACITY
        /\ j \in 0 .. CAPACITY - 1
    BY <1>5, <2>1, RingIndex, Zenon
  <2>3. ch.tail = IF ch.head + ch.count < CAPACITY THEN ch.head + ch.count
                  ELSE ch.head + ch.count - CAPACITY
    BY <1>5, <1>6, <2>1, RingIndex
  <2>4. Contents(p)[i] = p.ring[j] /\ Contents(ch)[i] = ch.ring[j]
    BY <1>2, <1>3, <1>4, <2>1
  <2> HIDE DEF j
  <2>5. j # ch.tail
    BY <1>5, <2>1, <2>2, <2>3
  <2> QED BY <1>2, <1>5, <2>2, <2>4, <2>5 DEF Ring
<1>8. Contents(p)[p.count] = m
  <2>1. p.count \in 1 .. p.count /\ p.count - 1 = ch.count
    BY <1>2, <1>5
  <2>2. Contents(p)[p.count] = p.ring[ch.tail]
    BY <1>3, <1>6, <2>1
  <2> QED BY <1>2, <1>5, <2>2 DEF Ring
<1>9. Contents(p) = Append(Contents(ch), m)
  BY <1>2, <1>3, <1>4, <1>5, <1>7, <1>8
<1> QED BY <1>9 DEF p

\* ipc_tryrecv removes the oldest message.
LEMMA TakeTails ==
  ASSUME NEW c \in Slot, NEW g \in Nat, NEW ch, ChanOk(c, ch, g), ch.count > 0
  PROVE  Contents(Take(ch)) = Tail(Contents(ch)) /\ Contents(ch) # << >>
<1> DEFINE p == Take(ch)
           S == Message \cup {NULL}
<1>1. ChanOk(c, p, g) /\ ch \in Channel
  BY TakeOk DEF ChanOk
<1>2. p.head = At(ch.head + 1) /\ p.count = ch.count - 1 /\ p.ring = ch.ring
  BY <1>1, TakeFields
<1> HIDE DEF p
<1>3. /\ Contents(p) \in Seq(S) /\ Len(Contents(p)) = ch.count - 1
      /\ \A i \in 1 .. ch.count - 1 : Contents(p)[i] = ch.ring[At(p.head + (i - 1))]
  BY <1>1, <1>2, ContentsSeq
<1>4. /\ Contents(ch) \in Seq(S) /\ Len(Contents(ch)) = ch.count
      /\ \A i \in 1 .. ch.count : Contents(ch)[i] = ch.ring[At(ch.head + (i - 1))]
  BY <1>1, ContentsSeq
<1>5. /\ ch.count \in 1 .. CAPACITY /\ ch.head \in 0 .. CAPACITY - 1
      /\ CAPACITY \in Nat \ {0}
  BY <1>1, IpcConstants DEF Channel, ChanOk
<1>6. ASSUME NEW i \in 1 .. ch.count - 1
      PROVE  Contents(p)[i] = Contents(ch)[i + 1]
  <2> DEFINE k == i - 1
  <2>1. k \in 0 .. CAPACITY /\ i \in 0 .. CAPACITY /\ i + 1 \in 1 .. ch.count /\ i + 1 - 1 = i
    BY <1>5
  <2>2. /\ p.head = IF ch.head + 1 < CAPACITY THEN ch.head + 1 ELSE ch.head + 1 - CAPACITY
        /\ p.head \in 0 .. CAPACITY - 1
    BY <1>2, <1>5, NextIndex
  <2>3. At(p.head + k) = IF p.head + k < CAPACITY THEN p.head + k ELSE p.head + k - CAPACITY
    BY <2>1, <2>2, RingIndex
  <2>4. At(ch.head + i) = IF ch.head + i < CAPACITY THEN ch.head + i ELSE ch.head + i - CAPACITY
    BY <1>5, <2>1, RingIndex
  <2>5. At(p.head + k) = At(ch.head + i)
    BY <1>5, <2>1, <2>2, <2>3, <2>4
  <2>6. Contents(ch)[i + 1] = ch.ring[At(ch.head + i)]
    BY <1>4, <2>1
  <2> QED BY <1>3, <2>5, <2>6
<1>7. Contents(p) = Tail(Contents(ch)) /\ Contents(ch) # << >>
  BY <1>3, <1>4, <1>5, <1>6
<1> QED BY <1>7 DEF p

-----------------------------------------------------------------------------
(* Every step is a step of the queues or changes none.                     *)

\* One slot gets a new channel record.
LEMMA FifoUpdate ==
  ASSUME IpcInv, NEW c \in Slot, NEW ch, chan' = [chan EXCEPT ![c] = ch]
  PROVE  fifo' = [fifo EXCEPT ![c] = Queue(ch)]
<1>1. chan \in [Slot -> Channel]
  BY DEF IpcInv, TypeOK
<1>2. \A d \in Slot : chan'[d] = IF d = c THEN ch ELSE chan[d]
  BY <1>1
<1>3. \A d \in Slot : fifo'[d] = Queue(chan'[d]) /\ fifo[d] = Queue(chan[d])
  BY DEF fifo, Queue
<1>4. fifo' = [d \in Slot |-> Queue(chan'[d])] /\ fifo = [d \in Slot |-> Queue(chan[d])]
  BY DEF fifo, Queue
<1> QED BY <1>2, <1>4

\* A slot that keeps its queue.
LEMMA FifoSame ==
  ASSUME IpcInv, NEW c \in Slot, NEW ch, chan' = [chan EXCEPT ![c] = ch],
         Queue(ch) = Queue(chan[c])
  PROVE  fifo' = fifo
<1>1. fifo' = [fifo EXCEPT ![c] = Queue(ch)]
  BY FifoUpdate, Zenon
<1>2. fifo[c] = Queue(ch) /\ fifo = [d \in Slot |-> fifo[d]]
  BY DEF fifo, Queue
<1> QED BY <1>1, <1>2

\* Storing a message is an Enqueue.
LEMMA SendFifo ==
  ASSUME IpcInv, NEW h \in Handle, NEW m \in Message, m.via = h, Live(h),
         ~ Full(h[2]), DoSend(h[2], m)
  PROVE  Fifo!Next
<1> DEFINE c == h[2]
           ch == chan[c]
<1>1. c \in Slot /\ ch \in Channel /\ ch.open /\ ch.handle = h /\ ChanOk(c, ch, gen)
  BY LiveOpen
<1>2. ch.count < CAPACITY /\ gen \in Nat
  BY <1>1, IpcConstants DEF Full, Channel, IpcInv, TypeOK
<1>3. Put(ch, m).open
  BY <1>1, PutFields, Zenon
<1>4. Contents(Put(ch, m)) = Append(Contents(ch), m)
  BY <1>1, <1>2, PutAppends
<1>5. Contents(ch) # NULL /\ Len(Contents(ch)) < CAPACITY
  BY <1>1, <1>2, ContentsSeq
<1>6. chan' = [chan EXCEPT ![c] = Put(ch, m)]
  BY DEF DoSend
<1>7. fifo' = [fifo EXCEPT ![c] = Queue(Put(ch, m))]
  BY <1>1, <1>6, FifoUpdate, Zenon
<1>8. fifo[c] = Contents(ch)
  BY <1>1 DEF fifo
<1>9. fifo' = [fifo EXCEPT ![c] = Append(@, m)]
  BY <1>3, <1>4, <1>7, <1>8 DEF Queue
<1> HIDE DEF c, ch
<1>10. Fifo!Enqueue(c, m)
  BY <1>5, <1>8, <1>9 DEF Fifo!Enqueue, fifo
<1> QED BY <1>1, <1>10 DEF Fifo!Next

\* Taking a message is a Dequeue.
LEMMA RecvFifo ==
  ASSUME IpcInv, NEW h \in Handle, Live(h), ~ Empty(h[2]), DoRecv(h[2])
  PROVE  Fifo!Next
<1> DEFINE c == h[2]
           ch == chan[c]
<1>1. c \in Slot /\ ch \in Channel /\ ch.open /\ ch.handle = h /\ ChanOk(c, ch, gen)
  BY LiveOpen
<1>2. ch.count > 0 /\ gen \in Nat
  BY <1>1 DEF Empty, Channel, IpcInv, TypeOK
<1>3. Take(ch).open
  BY <1>1, <1>2, TakeFields
<1>4. Contents(Take(ch)) = Tail(Contents(ch)) /\ Contents(ch) # << >>
  BY <1>1, <1>2, TakeTails
<1>5. Contents(ch) # NULL
  BY <1>1, ContentsSeq
<1>6. chan' = [chan EXCEPT ![c] = Take(ch)]
  BY DEF DoRecv
<1>7. fifo' = [fifo EXCEPT ![c] = Queue(Take(ch))]
  BY <1>1, <1>6, FifoUpdate, Zenon
<1>8. fifo[c] = Contents(ch)
  BY <1>1 DEF fifo
<1>9. fifo' = [fifo EXCEPT ![c] = Tail(@)]
  BY <1>3, <1>4, <1>7, <1>8 DEF Queue
<1> HIDE DEF c, ch
<1>10. Fifo!Dequeue(c)
  BY <1>4, <1>5, <1>8, <1>9 DEF Fifo!Dequeue, fifo
<1> QED BY <1>1, <1>10 DEF Fifo!Next

\* ipc_channel_create is an Open: a reused slot starts empty.
LEMMA CreateFifo ==
  ASSUME IpcInv, NEW t \in Thread, ipc_channel_create(t)
  PROVE  Fifo!Next
<1>1. PICK c \in Slot :
        /\ ~ chan[c].open
        /\ chan' = [chan EXCEPT ![c] = Reset(@, TRUE, <<gen % GEN_MOD, c>>)]
  BY Zenon DEF ipc_channel_create, Reset
<1> DEFINE hd == <<gen % GEN_MOD, c>>
           p  == Reset(chan[c], TRUE, hd)
           g  == gen + 1
<1>2. gen \in Nat \ {0} /\ gen < GEN_MOD /\ GEN_MOD \in Nat \ {0}
  BY IpcConstants DEF IpcInv, TypeOK, ipc_channel_create
<1>3. gen % GEN_MOD = gen
  BY <1>2, ModSmall
<1>4. hd \in Handle /\ hd[2] = c /\ hd[1] < g /\ g \in Nat
  BY <1>2, <1>3 DEF Handle
<1>5. hd # NULL /\ chan[c] \in Channel
  BY <1>4, NullConstant DEF IpcInv, TypeOK
<1> HIDE DEF hd, g
<1>6. ChanOk(c, p, g) /\ p.open /\ p.count = 0
  <2>1. ChanOk(c, p, g) /\ p.open = TRUE /\ p.count = 0
    BY <1>4, <1>5, ResetOpen, ZenonT(60)
  <2> QED BY <2>1, Zenon
<1>7. chan' = [chan EXCEPT ![c] = p]
  BY <1>1 DEF hd
<1> HIDE DEF p
<1>8. Contents(p) = << >>
  <2>1. Contents(p) \in Seq(Message \cup {NULL}) /\ Len(Contents(p)) = 0
    BY <1>6, ContentsSeq
  <2> QED BY <2>1
<1>9. fifo' = [fifo EXCEPT ![c] = << >>]
  BY <1>6, <1>7, <1>8, FifoUpdate, Zenon DEF Queue
<1>10. fifo[c] = NULL
  BY <1>1 DEF fifo
<1>11. Fifo!Open(c)
  BY <1>9, <1>10 DEF Fifo!Open, fifo
<1> QED BY <1>11 DEF Fifo!Next

\* ipc_channel_destroy is a Close.
LEMMA DestroyFifo ==
  ASSUME IpcInv, NEW t \in Thread, NEW h \in Handle, ipc_channel_destroy(t, h)
  PROVE  Fifo!Next
<1> DEFINE c == h[2]
           p == Reset(chan[c], FALSE, NULL)
<1>1. Live(h)
  BY DEF ipc_channel_destroy
<1>2. c \in Slot /\ chan[c] \in Channel /\ chan[c].open /\ ChanOk(c, chan[c], gen) /\ gen \in Nat
  BY <1>1, LiveOpen DEF IpcInv, TypeOK
<1>3. ~ p.open
  BY <1>2, ResetOk, ZenonT(60)
<1>4. chan' = [chan EXCEPT ![c] = p]
  BY DEF ipc_channel_destroy, Reset
<1> HIDE DEF c, p
<1>5. fifo' = [fifo EXCEPT ![c] = NULL]
  BY <1>2, <1>3, <1>4, FifoUpdate, Zenon DEF Queue
<1>6. fifo[c] # NULL
  BY <1>2, ContentsSeq DEF fifo
<1>7. Fifo!Close(c)
  BY <1>5, <1>6 DEF Fifo!Close, fifo
<1> QED BY <1>2, <1>7 DEF Fifo!Next

\* Registering a waiter, or taking it off, leaves the queue alone.
LEMMA BlockFifo ==
  ASSUME IpcInv, NEW t \in Thread, NEW c \in Slot, NEW side \in {"sender", "receiver"},
         NEW call, BlockOn(t, c, side, call)
  PROVE  fifo' = fifo
<1>1. chan \in [Slot -> Channel]
  BY DEF IpcInv, TypeOK
<1>2. PICK u : chan' = [chan EXCEPT ![c][side] = u]
  BY DEF BlockOn
<1> DEFINE p == [chan[c] EXCEPT ![side] = u]
<1>3. chan' = [chan EXCEPT ![c] = p]
  BY <1>2
<1>4. p.open = chan[c].open /\ p.count = chan[c].count /\ p.head = chan[c].head /\ p.ring = chan[c].ring
  BY <1>1 DEF Channel
<1> HIDE DEF p
<1>5. Queue(p) = Queue(chan[c])
  BY <1>4 DEF Queue, Contents
<1> QED BY <1>3, <1>5, FifoSame, Zenon

\* A round of the retry loop of ipc_send ...
LEMMA SendRoundFifo ==
  ASSUME IpcInv, NEW t \in Thread, NEW h \in Handle, NEW m \in Message, m.via = h,
         SendRound(t, h, m)
  PROVE  Fifo!Next \/ fifo' = fifo
<1>1. CASE ~ Live(h) /\ ReturnError(t)
  BY <1>1 DEF ReturnError, fifo
<1>2. CASE Live(h) /\ ~ Full(h[2]) /\ DoSend(h[2], m) /\ Return(t)
  BY <1>2, SendFifo
<1>3. CASE BlockOn(t, h[2], "sender", [op |-> "send", h |-> h, msg |-> m])
  <2>1. h[2] \in Slot
    BY DEF Handle
  <2> QED BY <1>3, <2>1, BlockFifo
<1> QED BY <1>1, <1>2, <1>3 DEF SendRound

\* ... and of ipc_recv.
LEMMA RecvRoundFifo ==
  ASSUME IpcInv, NEW t \in Thread, NEW h \in Handle, NEW f, RecvRound(t, h, f)
  PROVE  Fifo!Next \/ fifo' = fifo
<1>1. CASE ReturnError(t)
  BY <1>1 DEF ReturnError, fifo
<1>2. CASE Live(h) /\ ~ Empty(h[2]) /\ DoRecv(h[2]) /\ Return(t)
  BY <1>2, RecvFifo
<1>3. CASE BlockOn(t, h[2], "receiver", [op |-> "recv", h |-> h, filter |-> f])
  <2>1. h[2] \in Slot
    BY DEF Handle
  <2> QED BY <1>3, <2>1, BlockFifo
<1> QED BY <1>1, <1>2, <1>3 DEF RecvRound

\* Every step of the channels is a step of the queues, or none.
LEMMA StepFifo == IpcInv /\ [Next]_vars => Fifo!Next \/ fifo' = fifo
<1> SUFFICES ASSUME IpcInv, [Next]_vars
             PROVE  Fifo!Next \/ fifo' = fifo
  OBVIOUS
<1>1. CASE UNCHANGED chan
  BY <1>1 DEF fifo
<1>2. CASE \E t \in Thread : resume(t)
  <2> PICK t \in Thread : resume(t)
    BY <1>2
  <2>1. CASE wait[t].op = "send" /\ SendRound(t, wait[t].h, wait[t].msg)
    <3>1. wait[t] \in SendWait
      BY <2>1, WaitCases
    <3>2. wait[t].h \in Handle /\ wait[t].msg \in Message
      BY <3>1 DEF SendWait
    <3>3. wait[t].msg.via = wait[t].h
      BY <2>1 DEF IpcInv, WaitsOk
    <3> QED BY <2>1, <3>2, <3>3, SendRoundFifo
  <2>2. CASE wait[t].op = "recv" /\ RecvRound(t, wait[t].h, wait[t].filter)
    <3>1. wait[t].h \in Handle
      BY <2>2, WaitCases
    <3> QED BY <2>2, <3>1, RecvRoundFifo
  <2> QED BY <2>1, <2>2 DEF resume
<1>3. CASE \E t \in Thread : ipc_channel_create(t)
  BY <1>3, CreateFifo
<1>4. CASE \E t \in Thread, h \in Issued : ipc_channel_destroy(t, h)
  BY <1>4, DestroyFifo DEF Issued
<1>5. ASSUME NEW t \in Thread, NEW h \in Issued, NEW ty \in Types
      PROVE  LET m == [type |-> ty, via |-> h, body |-> Plain] IN
             ipc_trysend(t, h, m) \/ ipc_send(t, h, m) => Fifo!Next \/ fifo' = fifo
  <2> DEFINE m == [type |-> ty, via |-> h, body |-> Plain]
  <2>1. h \in Handle
    BY DEF Issued
  <2>2. m \in Message /\ m.via = h
    BY <2>1, IpcConstants DEF Message
  <2> HIDE DEF m
  <2>3. ASSUME ipc_trysend(t, h, m) PROVE Fifo!Next
    BY <2>1, <2>2, <2>3, SendFifo DEF ipc_trysend
  <2>4. ASSUME ipc_send(t, h, m) PROVE Fifo!Next \/ fifo' = fifo
    BY <2>1, <2>2, <2>4, SendRoundFifo DEF ipc_send
  <2> QED BY <2>3, <2>4 DEF m
<1>6. ASSUME NEW t \in Thread, NEW h \in Issued, NEW f \in Types \cup {ANY},
             ipc_tryrecv(t, h, f) \/ ipc_recv(t, h, f)
      PROVE  Fifo!Next \/ fifo' = fifo
  <2>1. h \in Handle
    BY DEF Issued
  <2>2. CASE ipc_tryrecv(t, h, f)
    BY <2>1, <2>2, RecvFifo DEF ipc_tryrecv
  <2>3. CASE ipc_recv(t, h, f)
    BY <2>1, <2>3, RecvRoundFifo DEF ipc_recv
  <2> QED BY <1>6, <2>2, <2>3
<1> QED BY <1>1, <1>2, <1>3, <1>4, <1>5, <1>6, ZenonT(60) DEF Next, vars, start_thread, yield

\* The ring buffers of ipc.c, with blocking and non-blocking callers, slot
\* reuse and stale handles, implement bounded FIFO queues.
THEOREM FifoCorrect == Spec => ImplementsFifo
<1>1. Init => Fifo!Init
  BY DEF Init, FreeChannel, Fifo!Init
<1>2. IpcInv /\ [Next]_vars => [Fifo!Next]_fifo
  BY StepFifo
<1>3. Fifo!Spec <=> Fifo!Init /\ [][Fifo!Next]_fifo
  BY DEF Fifo!Spec, fifo
<1> QED BY <1>1, <1>2, <1>3, IpcSafe, PTL DEF Spec, ImplementsFifo
=============================================================================
