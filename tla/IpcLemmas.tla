----------------------------- MODULE IpcLemmas -----------------------------
(***************************************************************************)
(* Lemmas for the theorems about module Ipc: one channel record, the       *)
(* inductive invariant, and the steps that store or take no message.       *)
(***************************************************************************)
EXTENDS Ipc, SchedProofs

-----------------------------------------------------------------------------
(* One channel.                                                            *)

\* The ring slot with index x.
At(x) == x % CAPACITY

\* What holds of the channel record ch of slot c when generations below g
\* have been handed out.
ChanOk(c, ch, g) ==
  /\ ch \in Channel
  /\ ch.count <= CAPACITY
  /\ ch.tail = At(ch.head + ch.count)
  /\ ch.open <=> ch.handle # NULL
  /\ ch.open => ch.handle[2] = c /\ ch.handle[1] < g
  /\ ch.receiver # NULL => ch.open /\ ch.count = 0
  /\ ch.sender # NULL => ch.open /\ ch.count = CAPACITY
  /\ \A i \in 0 .. ch.count - 1 : ch.ring[At(ch.head + i)].via = ch.handle

\* A remainder below the modulus ...
LEMMA ModSmall ==
  ASSUME NEW n \in Nat \ {0}, NEW x \in Nat, x < n
  PROVE  x % n = x
OBVIOUS

\* ... and one that wraps once.
LEMMA ModOnce ==
  ASSUME NEW n \in Nat \ {0}, NEW x \in Nat, n <= x, x < 2 * n
  PROVE  x % n = x - n
OBVIOUS

\* Indices into the ring wrap at most once.
LEMMA RingIndex ==
  ASSUME NEW h \in 0 .. CAPACITY - 1, NEW i \in 0 .. CAPACITY
  PROVE  /\ At(h + i) = IF h + i < CAPACITY THEN h + i ELSE h + i - CAPACITY
         /\ At(h + i) \in 0 .. CAPACITY - 1
<1>1. CAPACITY \in Nat \ {0}
  BY IpcConstants
<1> DEFINE x == h + i
           y == x % CAPACITY
<1>2. x \in Nat /\ x < 2 * CAPACITY
  BY <1>1
<1> HIDE DEF x
<1>3. x < CAPACITY => y = x
  BY <1>1, <1>2, ModSmall
<1>4. x >= CAPACITY => y = x - CAPACITY
  BY <1>1, <1>2, ModOnce, Zenon
<1> HIDE DEF y
<1>5. y = (IF x < CAPACITY THEN x ELSE x - CAPACITY) /\ y \in 0 .. CAPACITY - 1
  BY <1>1, <1>2, <1>3, <1>4
<1>6. At(x) = y
  BY DEF At, y
<1>7. h + i = x
  BY DEF x
<1> QED BY <1>1, <1>2, <1>5, <1>6, <1>7

\* The next ring slot.
LEMMA NextIndex ==
  ASSUME NEW h \in 0 .. CAPACITY - 1
  PROVE  /\ At(h + 1) = IF h + 1 < CAPACITY THEN h + 1 ELSE h + 1 - CAPACITY
         /\ At(h + 1) \in 0 .. CAPACITY - 1
<1>1. 1 \in 0 .. CAPACITY
  BY IpcConstants
<1> QED BY <1>1, RingIndex

\* The fields after ipc_trysend stored a message.
LEMMA PutFields ==
  ASSUME NEW ch \in Channel, NEW m \in Message
  PROVE  LET p == Put(ch, m) IN
         /\ p \in Channel
         /\ p.open = ch.open /\ p.handle = ch.handle /\ p.head = ch.head
         /\ p.tail = At(ch.tail + 1) /\ p.count = ch.count + 1
         /\ p.ring = [ch.ring EXCEPT ![ch.tail] = m]
         /\ p.sender = ch.sender /\ p.receiver = NULL
<1> DEFINE rg == [ch.ring EXCEPT ![ch.tail] = m]
           tl == At(ch.tail + 1)
<1>1. rg \in Ring
  BY DEF Channel, Ring
<1>2. tl \in 0 .. CAPACITY - 1
  BY NextIndex DEF Channel
<1>3. Put(ch, m) = [ch EXCEPT !.ring = rg, !.tail = tl, !.count = ch.count + 1, !.receiver = NULL]
  BY DEF Put, Channel, At
<1>0. ch.count + 1 \in Nat
  BY DEF Channel
<1> HIDE DEF rg, tl
<1>4. LET p == Put(ch, m) IN
      /\ p \in Channel
      /\ p.open = ch.open /\ p.handle = ch.handle /\ p.head = ch.head
      /\ p.tail = tl /\ p.count = ch.count + 1 /\ p.ring = rg
      /\ p.sender = ch.sender /\ p.receiver = NULL
  BY <1>0, <1>1, <1>2, <1>3, Zenon DEF Channel
<1> QED BY <1>4 DEF rg, tl

\* The fields after ipc_tryrecv took the head message.
LEMMA TakeFields ==
  ASSUME NEW ch \in Channel, ch.count > 0
  PROVE  LET p == Take(ch) IN
         /\ p \in Channel
         /\ p.open = ch.open /\ p.handle = ch.handle
         /\ p.head = At(ch.head + 1) /\ p.tail = ch.tail
         /\ p.count = ch.count - 1 /\ p.ring = ch.ring
         /\ p.sender = NULL /\ p.receiver = ch.receiver
<1> DEFINE hd == At(ch.head + 1)
<1>1. hd \in 0 .. CAPACITY - 1
  BY NextIndex DEF Channel
<1>2. Take(ch) = [ch EXCEPT !.head = hd, !.count = ch.count - 1, !.sender = NULL]
  BY DEF Take, Channel, At
<1>3. ch.count - 1 \in Nat
  BY DEF Channel
<1> HIDE DEF hd
<1>4. LET p == Take(ch) IN
      /\ p \in Channel
      /\ p.open = ch.open /\ p.handle = ch.handle
      /\ p.head = hd /\ p.tail = ch.tail
      /\ p.count = ch.count - 1 /\ p.ring = ch.ring
      /\ p.sender = NULL /\ p.receiver = ch.receiver
  BY <1>1, <1>2, <1>3, Zenon DEF Channel
<1> QED BY <1>4 DEF hd

\* Storing a message in a channel with room keeps the channel sound.
LEMMA PutOk ==
  ASSUME NEW c \in Slot, NEW g \in Nat, NEW ch, ChanOk(c, ch, g), ch.open,
         ch.count < CAPACITY, NEW m \in Message, m.via = ch.handle
  PROVE  ChanOk(c, Put(ch, m), g)
<1> DEFINE p == Put(ch, m)
<1>1. ch \in Channel /\ CAPACITY \in Nat \ {0}
  BY IpcConstants DEF ChanOk
<1>2. /\ ch.head \in 0 .. CAPACITY - 1 /\ ch.tail \in 0 .. CAPACITY - 1
      /\ ch.count \in Nat /\ ch.ring \in Ring
  BY <1>1 DEF Channel
<1>3. /\ p \in Channel
      /\ p.open = ch.open /\ p.handle = ch.handle /\ p.head = ch.head
      /\ p.tail = At(ch.tail + 1) /\ p.count = ch.count + 1
      /\ p.ring = [ch.ring EXCEPT ![ch.tail] = m]
      /\ p.sender = ch.sender /\ p.receiver = NULL
  BY <1>1, PutFields, Zenon
<1> HIDE DEF p
<1>4. p.tail = At(p.head + p.count)
  <2>1. ch.tail = At(ch.head + ch.count)
    BY DEF ChanOk
  <2> DEFINE k == ch.count + 1
  <2>2. k \in 0 .. CAPACITY /\ ch.count \in 0 .. CAPACITY /\ 1 \in 0 .. CAPACITY
    BY <1>1, <1>2
  <2>3. At(ch.head + k) = IF ch.head + k < CAPACITY THEN ch.head + k
                                   ELSE ch.head + k - CAPACITY
    BY <1>1, <1>2, <2>2, RingIndex
  <2>4. ch.tail = IF ch.head + ch.count < CAPACITY THEN ch.head + ch.count
                  ELSE ch.head + ch.count - CAPACITY
    BY <1>1, <1>2, <2>1, <2>2, RingIndex
  <2>5. At(ch.tail + 1) = IF ch.tail + 1 < CAPACITY THEN ch.tail + 1
                                   ELSE ch.tail + 1 - CAPACITY
    BY <1>1, <1>2, <2>2, RingIndex
  <2>6. At(ch.tail + 1) = At(ch.head + k)
    BY <1>1, <1>2, <2>3, <2>4, <2>5
  <2> QED BY <1>3, <2>6
<1>5. \A i \in 0 .. p.count - 1 : p.ring[At(p.head + i)].via = p.handle
  <2> TAKE i \in 0 .. p.count - 1
  <2> DEFINE j == At(ch.head + i)
  <2>1. i \in 0 .. CAPACITY
    BY <1>1, <1>2, <1>3
  <2>2. j \in 0 .. CAPACITY - 1
    BY <1>2, <2>1, RingIndex
  <2>3. CASE i = ch.count
    <3>1. j = ch.tail
      BY <2>3 DEF ChanOk
    <3> HIDE DEF j
    <3>2. p.ring[j] = m
      BY <1>2, <1>3, <3>1, Zenon DEF Ring
    <3> QED BY <1>3, <3>2 DEF j
  <2>4. CASE i # ch.count
    <3>1. i \in 0 .. ch.count - 1
      BY <1>2, <1>3, <2>4
    <3>2. j # ch.tail
      <4>1. ch.tail = IF ch.head + ch.count < CAPACITY THEN ch.head + ch.count
                      ELSE ch.head + ch.count - CAPACITY
        BY <1>1, <1>2, RingIndex DEF ChanOk
      <4>2. j = IF ch.head + i < CAPACITY THEN ch.head + i ELSE ch.head + i - CAPACITY
        BY <1>1, <1>2, <2>1, RingIndex
      <4> HIDE DEF j
      <4> QED BY <1>1, <1>2, <2>4, <3>1, <4>1, <4>2
    <3>3. ch.ring[j].via = ch.handle
      BY <3>1 DEF ChanOk
    <3> HIDE DEF j
    <3>4. p.ring[j] = ch.ring[j]
      BY <1>2, <1>3, <2>2, <3>2 DEF Ring
    <3> QED BY <1>3, <3>3, <3>4 DEF j
  <2> QED BY <2>3, <2>4
<1>6. ChanOk(c, p, g)
  BY <1>1, <1>2, <1>3, <1>4, <1>5 DEF ChanOk
<1> QED BY <1>6 DEF p

\* So does taking the head message of a channel that is not empty.
LEMMA TakeOk ==
  ASSUME NEW c \in Slot, NEW g \in Nat, NEW ch, ChanOk(c, ch, g), ch.count > 0
  PROVE  ChanOk(c, Take(ch), g)
<1> DEFINE p == Take(ch)
<1>1. ch \in Channel /\ CAPACITY \in Nat \ {0}
  BY IpcConstants DEF ChanOk
<1>2. /\ ch.head \in 0 .. CAPACITY - 1 /\ ch.tail \in 0 .. CAPACITY - 1
      /\ ch.count \in 1 .. CAPACITY
  BY <1>1 DEF Channel, ChanOk
<1>3. /\ p \in Channel
      /\ p.open = ch.open /\ p.handle = ch.handle
      /\ p.head = At(ch.head + 1) /\ p.tail = ch.tail
      /\ p.count = ch.count - 1 /\ p.ring = ch.ring
      /\ p.sender = NULL /\ p.receiver = ch.receiver
  BY <1>1, TakeFields
<1> HIDE DEF p
<1>4. ASSUME NEW i \in 0 .. ch.count - 1
      PROVE  At(p.head + i) = At(ch.head + (i + 1))
  <2>1. p.head = IF ch.head + 1 < CAPACITY THEN ch.head + 1 ELSE ch.head + 1 - CAPACITY
    BY <1>1, <1>2, <1>3, RingIndex
  <2>2. p.head \in 0 .. CAPACITY - 1
    BY <1>1, <1>2, <2>1
  <2>3. At(p.head + i) = IF p.head + i < CAPACITY THEN p.head + i
                                  ELSE p.head + i - CAPACITY
    BY <1>1, <1>2, <2>2, RingIndex
  <2> DEFINE k == i + 1
  <2>4. k \in 0 .. CAPACITY
    BY <1>1, <1>2
  <2>5. At(ch.head + k) = IF ch.head + k < CAPACITY THEN ch.head + k
                                   ELSE ch.head + k - CAPACITY
    BY <1>1, <1>2, <2>4, RingIndex
  <2> QED BY <1>1, <1>2, <2>1, <2>2, <2>3, <2>5
<1>5. p.tail = At(p.head + p.count)
  <2>1. ch.count - 1 \in 0 .. ch.count - 1 /\ ch.count - 1 + 1 = ch.count
    BY <1>2
  <2>2. At(p.head + (ch.count - 1)) = At(ch.head + ch.count)
    BY <1>4, <2>1
  <2> QED BY <1>3, <2>2 DEF ChanOk
<1>6. \A i \in 0 .. p.count - 1 : p.ring[At(p.head + i)].via = p.handle
  <2> TAKE i \in 0 .. p.count - 1
  <2>1. i \in 0 .. ch.count - 1 /\ i + 1 \in 0 .. ch.count - 1
    BY <1>2, <1>3
  <2>2. At(p.head + i) = At(ch.head + (i + 1))
    BY <1>4, <2>1
  <2>3. ch.ring[At(ch.head + (i + 1))].via = ch.handle
    BY <2>1 DEF ChanOk
  <2> QED BY <1>3, <2>2, <2>3
<1>7. ChanOk(c, p, g)
  BY <1>1, <1>2, <1>3, <1>5, <1>6 DEF ChanOk
<1> QED BY <1>7 DEF p

\* A channel record that is emptied and has no waiters.
Reset(ch, op, hd) ==
  [ch EXCEPT !.open = op, !.handle = hd, !.head = 0, !.tail = 0,
             !.count = 0, !.sender = NULL, !.receiver = NULL]

\* A slot that ipc_channel_create opens or ipc_channel_destroy frees.
LEMMA ResetOk ==
  ASSUME NEW c \in Slot, NEW g \in Nat, NEW ch \in Channel, NEW op \in BOOLEAN,
         NEW hd \in Handle \cup {NULL}, op <=> hd # NULL,
         op => hd[2] = c /\ hd[1] < g
  PROVE  LET p == Reset(ch, op, hd)
         IN  /\ ChanOk(c, p, g)
             /\ p.open = op /\ p.handle = hd /\ p.count = 0
             /\ p.sender = NULL /\ p.receiver = NULL
<1> DEFINE p == Reset(ch, op, hd)
<1>1. CAPACITY \in Nat \ {0} /\ 0 \in 0 .. CAPACITY - 1 /\ 0 \in 0 .. CAPACITY
  BY IpcConstants
<1>2. /\ p \in Channel
      /\ p.open = op /\ p.handle = hd /\ p.head = 0 /\ p.tail = 0 /\ p.count = 0
      /\ p.sender = NULL /\ p.receiver = NULL
  BY <1>1, ZenonT(60) DEF Channel, Reset
<1> HIDE DEF p
<1>3. At(p.head + p.count) = 0
  BY <1>1, <1>2, RingIndex
<1>4. ChanOk(c, p, g)
  BY <1>1, <1>2, <1>3 DEF ChanOk
<1> QED BY <1>2, <1>4 DEF p

\* The slot as ipc_channel_create leaves it.
LEMMA ResetOpen ==
  ASSUME NEW c \in Slot, NEW g \in Nat, NEW ch \in Channel, NEW hd \in Handle,
         hd # NULL, hd[2] = c, hd[1] < g
  PROVE  /\ ChanOk(c, Reset(ch, TRUE, hd), g)
         /\ Reset(ch, TRUE, hd).open = TRUE /\ Reset(ch, TRUE, hd).count = 0
<1>1. TRUE \in BOOLEAN /\ hd \in Handle \cup {NULL} /\ (TRUE <=> hd # NULL)
  OBVIOUS
<1> QED BY <1>1, ResetOk, ZenonT(60)

\* A thread registers as the waiter of a full or empty channel, or leaves.
LEMMA SenderOk ==
  ASSUME NEW c \in Slot, NEW g \in Nat, NEW ch, ChanOk(c, ch, g),
         NEW u \in Thread \cup {NULL}, u # NULL => ch.open /\ ch.count = CAPACITY
  PROVE  LET p == [ch EXCEPT !.sender = u] IN
         /\ ChanOk(c, p, g)
         /\ p.open = ch.open /\ p.handle = ch.handle /\ p.head = ch.head
         /\ p.count = ch.count /\ p.ring = ch.ring
         /\ p.sender = u /\ p.receiver = ch.receiver
BY DEF ChanOk, Channel

\* The same for the receiver.
LEMMA ReceiverOk ==
  ASSUME NEW c \in Slot, NEW g \in Nat, NEW ch, ChanOk(c, ch, g),
         NEW u \in Thread \cup {NULL}, u # NULL => ch.open /\ ch.count = 0
  PROVE  LET p == [ch EXCEPT !.receiver = u] IN
         /\ ChanOk(c, p, g)
         /\ p.open = ch.open /\ p.handle = ch.handle /\ p.head = ch.head
         /\ p.count = ch.count /\ p.ring = ch.ring
         /\ p.sender = ch.sender /\ p.receiver = u
BY DEF ChanOk, Channel

-----------------------------------------------------------------------------
(* The inductive invariant.                                                *)

\* The arguments of the blocking calls: the handle was issued, a message goes
\* through its own handle, and only a thread inside a call is BLOCKED.
WaitsOk ==
  \A t \in Thread :
    /\ wait[t] # Idle => wait[t].h[1] < gen
    /\ wait[t].op = "send" => wait[t].msg.via = wait[t].h
    /\ sched.state[t] = "BLOCKED" => wait[t] # Idle

IpcInv ==
  /\ TypeOK
  /\ Current \in Thread
  /\ sched.state[Current] # "BLOCKED"
  /\ \A c \in Slot : ChanOk(c, chan[c], gen)
  /\ WaiterIsWaiting
  /\ WaitsOk
  /\ NoLostWakeup

\* The scheduler part of a step: nobody but the threads of E is newly BLOCKED.
SchedOk(E) ==
  /\ sched' \in SchedType
  /\ sched'.current \in Thread
  /\ sched'.state[sched'.current] # "BLOCKED"
  /\ NoNewBlocked(sched, sched', E)

\* The thread is outside any call, or inside this one.
InCall(t, op, h) == wait[t] = Idle \/ (wait[t].op = op /\ wait[t].h = h)

\* A record in wait that is not Idle is a call with a handle.
LEMMA WaitCases ==
  ASSUME IpcInv, NEW t \in Thread
  PROVE  /\ wait[t] = Idle <=> wait[t].op = "idle"
         /\ wait[t].op = "send" <=> wait[t] \in SendWait
         /\ wait[t].op = "recv" <=> wait[t] \in RecvWait
         /\ wait[t].op \in {"idle", "send", "recv"}
         /\ wait[t] # Idle => wait[t].h \in Handle
<1>1. wait[t] \in {Idle} \cup SendWait \cup RecvWait
  BY DEF IpcInv, TypeOK
<1>2. CASE wait[t] = Idle
  BY <1>2 DEF Idle, SendWait, RecvWait
<1>3. CASE wait[t] \in SendWait
  BY <1>3 DEF Idle, SendWait, RecvWait
<1>4. CASE wait[t] \in RecvWait
  BY <1>4 DEF Idle, SendWait, RecvWait
<1> QED BY <1>1, <1>2, <1>3, <1>4

\* A live handle names an open channel of its slot.
LEMMA LiveOpen ==
  ASSUME IpcInv, NEW h \in Handle, Live(h)
  PROVE  /\ h[2] \in Slot
         /\ chan[h[2]] \in Channel
         /\ chan[h[2]].open /\ chan[h[2]].handle = h
         /\ ChanOk(h[2], chan[h[2]], gen)
<1>1. h[2] \in Slot
  BY DEF Handle
<1>2. ChanOk(h[2], chan[h[2]], gen)
  BY <1>1 DEF IpcInv
<1> QED BY <1>1, <1>2, NullConstant DEF ChanOk, Live

\* A thread registered as a waiter is blocked on that slot's live handle.
LEMMA Registered ==
  ASSUME IpcInv, NEW c \in Slot, NEW t \in Thread
  PROVE  /\ chan[c].receiver = t =>
              /\ wait[t].op = "recv" /\ wait[t].h = chan[c].handle /\ wait[t].h[2] = c
              /\ chan[c].count = 0 /\ chan[c].open
         /\ chan[c].sender = t =>
              /\ wait[t].op = "send" /\ wait[t].h = chan[c].handle /\ wait[t].h[2] = c
              /\ chan[c].count = CAPACITY /\ chan[c].open
<1>1. ChanOk(c, chan[c], gen) /\ t # NULL
  BY SchedConstants DEF IpcInv
<1> QED BY <1>1 DEF IpcInv, WaiterIsWaiting, ChanOk

\* Waking the thread that a channel had registered.
LEMMA WakeOk ==
  ASSUME IpcInv, NEW w \in Thread \cup {NULL}, sched' = Wake(sched, w)
  PROVE  SchedOk({}) /\ (w # NULL => sched'.state[w] # "BLOCKED")
<1>1. sched \in SchedType /\ sched.current \in Thread /\ sched.state[sched.current] # "BLOCKED"
  BY DEF IpcInv, TypeOK, Current
<1>2. CASE w = NULL
  BY <1>1, <1>2 DEF Wake, SchedOk, NoNewBlocked
<1>3. CASE w # NULL
  <2>1. sched' = sched_unblock(sched, w) /\ w \in Thread
    BY <1>3 DEF Wake
  <2>2. sched' \in SchedType /\ sched'.current = sched.current
    BY <1>1, <2>1, UnblockType
  <2>3. sched'.state[w] # "BLOCKED" /\ NoNewBlocked(sched, sched', {})
    BY <1>1, <2>1, UnblockWakes
  <2> QED BY <1>1, <2>2, <2>3 DEF SchedOk, NoNewBlocked
<1> QED BY <1>2, <1>3

-----------------------------------------------------------------------------
(* The steps.                                                              *)

\* One slot gets a new channel record.
LEMMA ChanUpdate ==
  ASSUME IpcInv, NEW c \in Slot, NEW ch, gen' \in Nat \ {0}, gen' >= gen,
         ChanOk(c, ch, gen'), chan' = [chan EXCEPT ![c] = ch]
  PROVE  /\ chan' \in [Slot -> Channel]
         /\ \A d \in Slot : ChanOk(d, chan'[d], gen')
         /\ chan'[c] = ch
         /\ \A d \in Slot \ {c} : chan'[d] = chan[d]
<1>1. chan \in [Slot -> Channel] /\ gen \in Nat
  BY DEF IpcInv, TypeOK
<1>2. ch \in Channel
  BY DEF ChanOk
<1>3. \A d \in Slot : chan'[d] = IF d = c THEN ch ELSE chan[d]
  BY <1>1
<1>4. ASSUME NEW d \in Slot, d # c
      PROVE  ChanOk(d, chan[d], gen')
  <2>1. ChanOk(d, chan[d], gen)
    BY DEF IpcInv
  <2>2. chan[d].handle \in Handle \cup {NULL}
    BY <1>1 DEF Channel
  <2>3. chan[d].handle # NULL => chan[d].handle[1] \in Nat
    BY <2>2 DEF Handle
  <2> QED BY <1>1, <2>1, <2>3 DEF ChanOk
<1> QED BY <1>1, <1>2, <1>3, <1>4

\* Steps that leave the channels and the calls alone.
LEMMA QuietStep ==
  ASSUME IpcInv, SchedOk({}), UNCHANGED <<chan, gen, wait, displaced>>
  PROVE  IpcInv'
<1>1. TypeOK' /\ (Current \in Thread)' /\ (sched.state[Current] # "BLOCKED")'
  BY DEF IpcInv, SchedOk, TypeOK, Current
<1>2. \A c \in Slot : ChanOk(c, chan'[c], gen')
  BY DEF IpcInv
<1>3. WaiterIsWaiting'
  BY DEF IpcInv, WaiterIsWaiting
<1>4. WaitsOk'
  BY DEF IpcInv, WaitsOk, SchedOk, NoNewBlocked
<1>5. NoLostWakeup'
  BY DEF IpcInv, NoLostWakeup, SchedOk, NoNewBlocked, Live
<1> QED BY <1>1, <1>2, <1>3, <1>4, <1>5 DEF IpcInv

\* start_thread: the thread becomes READY.
LEMMA StartStep ==
  ASSUME IpcInv, NEW t \in Thread, start_thread(t)
  PROVE  IpcInv'
<1> DEFINE q == [sched EXCEPT !.state[t] = "READY"]
<1>1. /\ sched \in SchedType /\ sched.current \in Thread
      /\ sched.state[sched.current] # "BLOCKED" /\ "READY" \in ThreadState
  BY DEF IpcInv, TypeOK, Current, ThreadState
<1>2. q \in SchedType /\ q.state = [sched.state EXCEPT ![t] = "READY"] /\ q.current = sched.current
  BY <1>1, SetStateType
<1>3. sched' = sched_enqueue(q, t)
  BY DEF start_thread
<1> HIDE DEF q
<1>4. sched' \in SchedType /\ sched'.state = q.state /\ sched'.current = q.current
  BY <1>2, <1>3, EnqueueType
<1>5. sched.state \in [Thread -> ThreadState]
  BY <1>1 DEF SchedType
<1>6. SchedOk({})
  BY <1>1, <1>2, <1>4, <1>5 DEF SchedOk, NoNewBlocked
<1> QED BY <1>6, QuietStep DEF start_thread

\* yield: the caller becomes READY and another thread RUNNING.
LEMMA YieldStep ==
  ASSUME IpcInv, NEW t \in Thread, yield(t)
  PROVE  IpcInv'
<1>1. /\ sched \in SchedType /\ sched.current \in Thread
      /\ sched.state[sched.current] # "BLOCKED"
  BY DEF IpcInv, TypeOK, Current
<1>2. sched' = YieldCpu(sched, sched.current)
  BY DEF yield, MayCall, Current
<1>3. sched' \in SchedType /\ sched'.current \in Thread
  BY <1>1, <1>2, YieldCpuSafe
<1>4. NoNewBlocked(sched, sched', {}) /\ sched'.state[sched'.current] # "BLOCKED"
  BY <1>1, <1>2, YieldCpuBlocks
<1> QED BY <1>3, <1>4, QuietStep DEF SchedOk, yield

\* ipc_channel_create and ipc_channel_destroy: a slot without waiters whose
\* handle, if any, was never issued before.
LEMMA ResetStep ==
  ASSUME IpcInv, NEW c \in Slot, NEW op \in BOOLEAN, NEW hd \in Handle \cup {NULL},
         op <=> hd # NULL, op => hd[2] = c /\ hd[1] < gen' /\ hd[1] >= gen,
         gen' \in Nat \ {0}, gen' >= gen,
         chan' = [chan EXCEPT ![c] = Reset(@, op, hd)],
         UNCHANGED <<sched, wait, displaced>>
  PROVE  IpcInv'
<1> DEFINE ch == Reset(chan[c], op, hd)
<1>1. chan \in [Slot -> Channel] /\ chan[c] \in Channel /\ gen \in Nat
  BY DEF IpcInv, TypeOK
<1>2. ChanOk(c, ch, gen') /\ ch.handle = hd /\ ch.sender = NULL /\ ch.receiver = NULL
  BY <1>1, ResetOk
<1>3. chan' = [chan EXCEPT ![c] = ch]
  BY <1>1
<1> HIDE DEF ch
<1>4. /\ chan' \in [Slot -> Channel]
      /\ \A d \in Slot : ChanOk(d, chan'[d], gen')
      /\ chan'[c] = ch
      /\ \A d \in Slot \ {c} : chan'[d] = chan[d]
  BY <1>2, <1>3, ChanUpdate, ZenonT(60)
<1>5. TypeOK' /\ (Current \in Thread)' /\ (sched.state[Current] # "BLOCKED")'
  BY <1>4 DEF IpcInv, TypeOK, Current
<1>6. WaiterIsWaiting'
  BY <1>2, <1>4, SchedConstants DEF IpcInv, WaiterIsWaiting
<1>7. WaitsOk'
  <2>1. ASSUME NEW t \in Thread, wait[t] # Idle PROVE wait[t].h[1] < gen'
    <3>1. wait[t].h[1] < gen /\ wait[t].h \in Handle
      BY <2>1, WaitCases DEF IpcInv, WaitsOk
    <3>2. wait[t].h[1] \in Nat
      BY <3>1 DEF Handle
    <3> QED BY <1>1, <3>1, <3>2
  <2> QED BY <2>1 DEF IpcInv, WaitsOk
<1>8. NoLostWakeup'
  <2> SUFFICES ASSUME NEW t \in Thread \ displaced, sched.state[t] = "BLOCKED",
                      chan'[wait[t].h[2]].handle = wait[t].h
               PROVE  t = IF wait[t].op = "send" THEN chan'[wait[t].h[2]].sender
                          ELSE chan'[wait[t].h[2]].receiver
    BY DEF NoLostWakeup, Live
  <2>1. wait[t] # Idle /\ wait[t].h \in Handle /\ wait[t].h[1] < gen
    BY WaitCases DEF IpcInv, WaitsOk
  <2>2. wait[t].h[2] \in Slot /\ wait[t].h[1] \in Nat
    BY <2>1 DEF Handle
  <2>3. wait[t].h[2] # c
    BY <1>1, <1>2, <1>4, <2>1, <2>2, NullConstant
  <2>4. chan'[wait[t].h[2]] = chan[wait[t].h[2]]
    BY <1>4, <2>2, <2>3
  <2> QED BY <2>4 DEF IpcInv, NoLostWakeup, Live
<1> QED BY <1>4, <1>5, <1>6, <1>7, <1>8 DEF IpcInv

\* ipc_channel_create: the generation was never used in a handle before.
LEMMA CreateStep ==
  ASSUME IpcInv, NEW t \in Thread, ipc_channel_create(t)
  PROVE  IpcInv'
<1>1. PICK c \in Slot :
        chan' = [chan EXCEPT ![c] =
            [@ EXCEPT !.open = TRUE, !.handle = <<gen % GEN_MOD, c>>,
                      !.head = 0, !.tail = 0, !.count = 0,
                      !.sender = NULL, !.receiver = NULL]]
  BY Zenon DEF ipc_channel_create
<1> DEFINE hd == <<gen % GEN_MOD, c>>
<1>2. gen \in Nat \ {0} /\ gen < GEN_MOD /\ GEN_MOD \in Nat \ {0}
  BY IpcConstants DEF IpcInv, TypeOK, ipc_channel_create
<1>3. gen % GEN_MOD = gen
  BY <1>2, ModSmall
<1>4. hd \in Handle /\ hd[2] = c /\ hd[1] = gen
  BY <1>2, <1>3 DEF Handle
<1>5. hd # NULL
  BY <1>4, NullConstant
<1>6. gen' = gen + 1 /\ UNCHANGED <<sched, wait, displaced>>
  BY DEF ipc_channel_create
<1> HIDE DEF hd
<1>7. chan' = [chan EXCEPT ![c] = Reset(@, TRUE, hd)]
  BY <1>1 DEF hd, Reset
<1>8. hd[1] < gen' /\ hd[1] >= gen /\ gen' \in Nat \ {0} /\ gen' >= gen
  BY <1>2, <1>4, <1>6
<1> QED BY <1>4, <1>5, <1>6, <1>7, <1>8, ResetStep, Zenon

\* ipc_channel_destroy: the waiters are forgotten with their handle.
LEMMA DestroyStep ==
  ASSUME IpcInv, NEW t \in Thread, NEW h \in Handle, ipc_channel_destroy(t, h)
  PROVE  IpcInv'
<1>1. h[2] \in Slot
  BY DEF Handle
<1>2. /\ chan' = [chan EXCEPT ![h[2]] = Reset(@, FALSE, NULL)]
      /\ UNCHANGED <<sched, gen, wait, displaced>>
  BY DEF ipc_channel_destroy, Reset
<1>3. gen' \in Nat \ {0} /\ gen' >= gen
  BY <1>2 DEF IpcInv, TypeOK
<1> QED BY <1>1, <1>2, <1>3, ResetStep, Zenon

\* The call returns with an error: the caller is not registered anywhere.
LEMMA ReturnStep ==
  ASSUME IpcInv, NEW t \in Thread, t = Current, ReturnError(t),
         \A c \in Slot : chan[c].sender # t /\ chan[c].receiver # t
  PROVE  IpcInv'
<1>1. /\ wait' = [wait EXCEPT ![t] = Idle]
      /\ UNCHANGED <<sched, chan, gen, displaced>>
  BY DEF ReturnError
<1>2. wait \in [Thread -> {Idle} \cup SendWait \cup RecvWait]
  BY DEF IpcInv, TypeOK
<1>3. wait'[t] = Idle /\ \A u \in Thread \ {t} : wait'[u] = wait[u]
  BY <1>1, <1>2
<1>4. sched.state[t] # "BLOCKED"
  BY DEF IpcInv
<1>5. TypeOK' /\ (Current \in Thread)' /\ (sched.state[Current] # "BLOCKED")'
  BY <1>1, <1>2 DEF IpcInv, TypeOK, Current
<1>6. \A c \in Slot : ChanOk(c, chan'[c], gen')
  BY <1>1 DEF IpcInv
<1>7. WaiterIsWaiting'
  BY <1>1, <1>3 DEF IpcInv, WaiterIsWaiting
<1>8. WaitsOk'
  BY <1>1, <1>3, <1>4 DEF IpcInv, WaitsOk, Idle
<1>9. NoLostWakeup'
  BY <1>1, <1>3, <1>4 DEF IpcInv, NoLostWakeup, Live
<1> QED BY <1>5, <1>6, <1>7, <1>8, <1>9 DEF IpcInv

\* The wait records after a call returned, or a call that never waits.
LEMMA WaitAfter ==
  ASSUME IpcInv, NEW t \in Thread, wait' \in {wait, [wait EXCEPT ![t] = Idle]}
  PROVE  /\ wait' \in [Thread -> {Idle} \cup SendWait \cup RecvWait]
         /\ \A u \in Thread \ {t} : wait'[u] = wait[u]
         /\ wait'[t] \in {Idle, wait[t]}
<1>1. wait \in [Thread -> {Idle} \cup SendWait \cup RecvWait]
  BY DEF IpcInv, TypeOK
<1> QED BY <1>1
=============================================================================
