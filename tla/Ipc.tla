-------------------------------- MODULE Ipc --------------------------------
(***************************************************************************)
(* IPC channels (src/kernel/ipc/ipc.c): a static pool of bounded ring      *)
(* buffers with generation-tagged handles, and blocking send and receive   *)
(* that give up the CPU through the scheduler of module Sched.             *)
(*                                                                         *)
(* Every thread runs between two context switches without interruption.    *)
(* A thread that gave up the CPU inside ipc_send or ipc_recv resumes in    *)
(* the retry loop of that call: wait[t] holds the arguments of the call.   *)
(* CHAN_CLOSED is never assigned by the code and has no counterpart here.  *)
(***************************************************************************)
EXTENDS Sched

CONSTANTS
  MAX_CHANNELS,  \* IPC_MAX_CHANNELS
  CAPACITY,      \* IPC_CHANNEL_CAPACITY
  GEN_MOD,       \* 2^24: the handle keeps 24 bits of the generation
  MaxCreate,     \* bound: channels created in one behaviour
  Types,         \* message type tags, none of them IPC_MSG_TYPE_ANY
  ANY,           \* IPC_MSG_TYPE_ANY
  Payload,       \* what messages carry besides their type
  Plain,         \* the payload of the messages that threads send
  Boot,          \* the thread that executes first
  Calls          \* Calls[t]: the kernel calls thread t makes

ASSUME IpcConstants ==
  /\ MAX_CHANNELS \in Nat \ {0}
  /\ CAPACITY \in Nat \ {0}
  /\ GEN_MOD \in Nat \ {0}
  /\ MaxCreate \in Nat /\ MaxCreate < GEN_MOD
  /\ ANY \notin Types
  /\ Plain \in Payload
  /\ Boot \in Thread

Slot == 1 .. MAX_CHANNELS

\* A handle is the pair (generation & 0xFFFFFF, slot); NULL is handle 0.
Handle == (0 .. GEN_MOD - 1) \X Slot

\* The fields via and body stand for the payload; via is the handle that the
\* sender used.
Message == [type : Types, via : Handle, body : Payload]

\* The null value is neither a handle nor a queue of messages.
ASSUME NullConstant == NULL \notin Handle /\ NULL \notin Seq(Message \cup {NULL})

Ring == [0 .. CAPACITY - 1 -> Message \cup {NULL}]

Channel == [ open : BOOLEAN, handle : Handle \cup {NULL}, head : 0 .. CAPACITY - 1,
             tail : 0 .. CAPACITY - 1, count : Nat, ring : Ring,
             sender : Thread \cup {NULL}, receiver : Thread \cup {NULL} ]

Idle == [op |-> "idle"]
SendWait == [op : {"send"}, h : Handle, msg : Message]
RecvWait == [op : {"recv"}, h : Handle, filter : Types \cup {ANY}]

VARIABLES
  sched,      \* the scheduler state, see module Sched
  chan,       \* s_channels
  gen,        \* s_next_generation
  wait,       \* the blocking call each thread is inside, or Idle
  displaced   \* history: waiters whose registration another thread replaced

vars == <<sched, chan, gen, wait, displaced>>

Current == sched.current

TypeOK ==
  /\ sched \in SchedType
  /\ chan \in [Slot -> Channel]
  /\ gen \in Nat \ {0}
  /\ wait \in [Thread -> {Idle} \cup SendWait \cup RecvWait]
  /\ displaced \subseteq Thread

\* The handles ipc_channel_create has returned so far.
Issued == {h \in Handle : h[1] < gen}

\* Mutant: only the slot index of the handle is looked at.
Live_SlotOnly(h) == chan[h[2]].open

\* chan_from_handle: the handle of the slot must be the handle given.
Live(h) == chan[h[2]].handle = h

EmptyRing == [i \in 0 .. CAPACITY - 1 |-> NULL]

FreeChannel ==
  [ open |-> FALSE, handle |-> NULL, head |-> 0, tail |-> 0, count |-> 0,
    ring |-> EmptyRing, sender |-> NULL, receiver |-> NULL ]

Init ==
  /\ sched = [state    |-> [t \in Thread |-> IF t = Boot THEN "RUNNING" ELSE "INIT"],
              priority |-> [t \in Thread |-> 0],
              ticks    |-> [t \in Thread |-> 0],
              next     |-> [t \in Thread |-> NULL],
              head     |-> [i \in Prio |-> NULL],
              tail     |-> [i \in Prio |-> NULL],
              total    |-> 0,
              mode     |-> "IDLE",
              preempt  |-> FALSE,
              current  |-> Boot]
  /\ chan = [c \in Slot |-> FreeChannel]
  /\ gen = 1
  /\ wait = [t \in Thread |-> Idle]
  /\ displaced = {}

-----------------------------------------------------------------------------
(* Functions of ipc.c on one channel.                                      *)

\* Mutant: the receiver is woken but stays registered.
Put_KeepsReceiver(ch, m) ==
  [ch EXCEPT !.ring[ch.tail] = m, !.tail = (@ + 1) % CAPACITY, !.count = @ + 1]

\* Mutant: the tail does not wrap.
Put_NoWrap(ch, m) ==
  [ch EXCEPT !.ring[ch.tail] = m, !.tail = @ + 1, !.count = @ + 1,
             !.receiver = NULL]

Put(ch, m) ==
  [ch EXCEPT !.ring[ch.tail] = m, !.tail = (@ + 1) % CAPACITY,
             !.count = @ + 1, !.receiver = NULL]

\* Mutant: the head message is copied out but the head stays.
Take_KeepsHead(ch) == [ch EXCEPT !.count = @ - 1, !.sender = NULL]

Take(ch) ==
  [ch EXCEPT !.head = (@ + 1) % CAPACITY, !.count = @ - 1, !.sender = NULL]

\* Mutant: the waiter is unregistered and not woken.
Wake_None(s, waiter) == s

Wake(s, waiter) == IF waiter = NULL THEN s ELSE sched_unblock(s, waiter)

\* ipc_trysend on a live channel that is not full.
DoSend(c, m) ==
  /\ chan' = [chan EXCEPT ![c] = Put(chan[c], m)]
  /\ sched' = Wake(sched, chan[c].receiver)

\* ipc_tryrecv on a live channel whose head message passes the filter.
DoRecv(c) ==
  /\ chan' = [chan EXCEPT ![c] = Take(chan[c])]
  /\ sched' = Wake(sched, chan[c].sender)

\* Mutant: off by one at the capacity.
Full_OffByOne(c) == chan[c].count > CAPACITY

Full(c) == chan[c].count >= CAPACITY
Empty(c) == chan[c].count = 0
HeadType(c) == chan[c].ring[chan[c].head].type
Matches(c, filter) == filter = ANY \/ HeadType(c) = filter

-----------------------------------------------------------------------------
(* Calls of the current thread t.                                          *)

\* t is the executing thread, outside any blocking call, and may make the call.
MayCall(t, call) == t = Current /\ wait[t] = Idle /\ call \in Calls[t]

\* The creator of a thread makes it READY and enqueues it.
start_thread(t) ==
  /\ sched.state[t] = "INIT"
  /\ wait[Current] = Idle
  /\ sched' = sched_enqueue([sched EXCEPT !.state[t] = "READY"], t)
  /\ UNCHANGED <<chan, gen, wait, displaced>>

yield(t) ==
  /\ MayCall(t, "yield")
  /\ sched' = YieldCpu(sched, t)
  /\ UNCHANGED <<chan, gen, wait, displaced>>

\* The first free slot is opened with a fresh generation.
ipc_channel_create(t) ==
  /\ MayCall(t, "create")
  /\ gen <= MaxCreate
  /\ \E c \in Slot :
       /\ ~ chan[c].open
       /\ \A d \in 1 .. c - 1 : chan[d].open
       /\ chan' = [chan EXCEPT ![c] =
            [@ EXCEPT !.open = TRUE, !.handle = <<gen % GEN_MOD, c>>,
                      !.head = 0, !.tail = 0, !.count = 0,
                      !.sender = NULL, !.receiver = NULL]]
  /\ gen' = gen + 1
  /\ UNCHANGED <<sched, wait, displaced>>

\* Mutant: the waiter pointers survive the channel.
ipc_channel_destroy_KeepsWaiters(t, h) ==
  /\ MayCall(t, "destroy")
  /\ Live(h)
  /\ chan' = [chan EXCEPT ![h[2]] =
       [@ EXCEPT !.open = FALSE, !.handle = NULL, !.head = 0, !.tail = 0,
                 !.count = 0]]
  /\ UNCHANGED <<sched, gen, wait, displaced>>

\* Mutant: the handle of the freed slot stays valid.
ipc_channel_destroy_KeepsHandle(t, h) ==
  /\ MayCall(t, "destroy")
  /\ Live(h)
  /\ chan' = [chan EXCEPT ![h[2]] =
       [@ EXCEPT !.open = FALSE, !.head = 0, !.tail = 0, !.count = 0,
                 !.sender = NULL, !.receiver = NULL]]
  /\ UNCHANGED <<sched, gen, wait, displaced>>

\* Waiting threads are forgotten, not woken.
ipc_channel_destroy(t, h) ==
  /\ MayCall(t, "destroy")
  /\ Live(h)
  /\ chan' = [chan EXCEPT ![h[2]] =
       [@ EXCEPT !.open = FALSE, !.handle = NULL, !.head = 0, !.tail = 0,
                 !.count = 0, !.sender = NULL, !.receiver = NULL]]
  /\ UNCHANGED <<sched, gen, wait, displaced>>

\* The calls that return an error change nothing and are left out.
ipc_trysend(t, h, m) ==
  /\ MayCall(t, "trysend")
  /\ Live(h) /\ ~ Full(h[2])
  /\ DoSend(h[2], m)
  /\ UNCHANGED <<gen, wait, displaced>>

ipc_tryrecv(t, h, filter) ==
  /\ MayCall(t, "tryrecv")
  /\ Live(h) /\ ~ Empty(h[2]) /\ Matches(h[2], filter)
  /\ DoRecv(h[2])
  /\ UNCHANGED <<gen, wait, displaced>>

-----------------------------------------------------------------------------
(* Blocking calls.                                                         *)

\* The call returns without an effect on the channel: IPC_ERR_INVAL when the
\* handle is stale, IPC_ERR_TYPE when the head message fails the filter.
ReturnError(t) ==
  /\ wait' = [wait EXCEPT ![t] = Idle]
  /\ UNCHANGED <<sched, chan, gen, displaced>>

Return(t) ==
  /\ wait' = [wait EXCEPT ![t] = Idle]
  /\ UNCHANGED <<gen, displaced>>

\* t registers as the waiter of the channel and gives up the CPU; if nothing
\* else can run it takes itself off again and gets IPC_ERR_AGAIN.
BlockOn(t, c, side, call) ==
  /\ IF BlockOk(sched, t)
     THEN sched' = BlockCpu(sched, t)
     ELSE UNCHANGED sched
  /\ IF BlockOk(sched, t) /\ ~ NothingToRun(sched, t)
     THEN /\ chan' = [chan EXCEPT ![c][side] = t]
          /\ wait' = [wait EXCEPT ![t] = call]
          /\ displaced' = (displaced \ {t}) \cup ({chan[c][side]} \ {NULL, t})
     ELSE /\ chan' = [chan EXCEPT ![c][side] = NULL]
          /\ wait' = [wait EXCEPT ![t] = Idle]
          /\ displaced' = displaced \cup ({chan[c][side]} \ {NULL, t})
  /\ UNCHANGED gen

\* One round of the retry loop of ipc_send.
SendRound(t, h, m) ==
  \/ ~ Live(h) /\ ReturnError(t)
  \/ Live(h) /\ ~ Full(h[2]) /\ DoSend(h[2], m) /\ Return(t)
  \/ Live(h) /\ Full(h[2])
     /\ BlockOn(t, h[2], "sender", [op |-> "send", h |-> h, msg |-> m])

\* One round of the retry loop of ipc_recv.
RecvRound(t, h, filter) ==
  \/ ~ Live(h) /\ ReturnError(t)
  \/ Live(h) /\ ~ Empty(h[2]) /\ ~ Matches(h[2], filter) /\ ReturnError(t)
  \/ Live(h) /\ ~ Empty(h[2]) /\ Matches(h[2], filter) /\ DoRecv(h[2]) /\ Return(t)
  \/ Live(h) /\ Empty(h[2])
     /\ BlockOn(t, h[2], "receiver", [op |-> "recv", h |-> h, filter |-> filter])

ipc_send(t, h, m) == MayCall(t, "send") /\ SendRound(t, h, m)

ipc_recv(t, h, filter) == MayCall(t, "recv") /\ RecvRound(t, h, filter)

\* The thread got the CPU back inside a blocking call and tries again.
resume(t) ==
  /\ t = Current
  /\ \/ wait[t].op = "send" /\ SendRound(t, wait[t].h, wait[t].msg)
     \/ wait[t].op = "recv" /\ RecvRound(t, wait[t].h, wait[t].filter)

Next ==
  \E t \in Thread :
    \/ start_thread(t)
    \/ yield(t)
    \/ resume(t)
    \/ ipc_channel_create(t)
    \/ \E h \in Issued :
         \/ ipc_channel_destroy(t, h)
         \/ \E ty \in Types :
              LET m == [type |-> ty, via |-> h, body |-> Plain] IN
              ipc_trysend(t, h, m) \/ ipc_send(t, h, m)
         \/ \E f \in Types \cup {ANY} : ipc_tryrecv(t, h, f) \/ ipc_recv(t, h, f)

Spec == Init /\ [][Next]_vars

\* The CPU never stops: the executing thread keeps taking steps.
FairSpec == Spec /\ WF_vars(Next)

-----------------------------------------------------------------------------
(* Properties.                                                             *)

\* The ring of every slot is consistent: count never passes the capacity and
\* tail is count places after head, through every send, receive, destroy and
\* reuse of the slot.
RingSound ==
  \A c \in Slot : /\ chan[c].count <= CAPACITY
                  /\ chan[c].tail = (chan[c].head + chan[c].count) % CAPACITY

\* A handle names its own slot and its generation was handed out; a slot has
\* a handle exactly while it is open.  So ipc_channel_create never repeats a
\* handle that is live or stale.
HandleSound ==
  \A c \in Slot :
    /\ chan[c].open <=> chan[c].handle # NULL
    /\ chan[c].open => chan[c].handle[2] = c /\ chan[c].handle[1] < gen

\* A thread is registered as blocked_receiver only while the channel is empty
\* and as blocked_sender only while it is full: ipc_trysend and ipc_tryrecv
\* clear the pointer in the same step that changes the count.
WaiterMatchesRing ==
  \A c \in Slot :
    /\ chan[c].receiver # NULL => chan[c].open /\ chan[c].count = 0
    /\ chan[c].sender # NULL => chan[c].open /\ chan[c].count = CAPACITY

\* The blocked_sender and blocked_receiver pointers are never stale: the
\* thread they name is inside ipc_send or ipc_recv on this very handle, even
\* after the slot was destroyed and created again.
WaiterIsWaiting ==
  \A c \in Slot, t \in Thread :
    /\ chan[c].receiver = t => wait[t].op = "recv" /\ wait[t].h = chan[c].handle
    /\ chan[c].sender = t => wait[t].op = "send" /\ wait[t].h = chan[c].handle

\* No wakeup is lost: a thread blocked inside ipc_send or ipc_recv on a live
\* channel is the one the channel will wake, unless another thread took its
\* place as the waiter.
NoLostWakeup ==
  \A t \in Thread \ displaced :
    sched.state[t] = "BLOCKED" /\ Live(wait[t].h) =>
      t = IF wait[t].op = "send" THEN chan[wait[t].h[2]].sender
                                 ELSE chan[wait[t].h[2]].receiver

\* The messages in the channel, oldest first.
Contents(ch) == [i \in 1 .. ch.count |-> ch.ring[(ch.head + i - 1) % CAPACITY]]

\* A message is only ever received through the handle it was sent through:
\* destroying a channel and reusing its slot leaks nothing into the new one.
NoCrossTalk ==
  \A c \in Slot : \A i \in 1 .. chan[c].count :
    Contents(chan[c])[i].via = chan[c].handle

Fifo ==
  INSTANCE ChannelFifo WITH
    Slots <- Slot, Messages <- Message, Bound <- CAPACITY, Closed <- NULL,
    fifo <- [c \in Slot |-> IF chan[c].open THEN Contents(chan[c]) ELSE NULL]

\* The ring buffers with all their callers implement bounded FIFO queues.
ImplementsFifo == Fifo!Spec

\* The waiter slots are single: the comment of ipc_channel_t says at most one
\* thread blocks on each side of a channel.
AtMostOneWaiter ==
  \A t, u \in Thread :
    /\ sched.state[t] = "BLOCKED" /\ sched.state[u] = "BLOCKED"
    /\ wait[t].op = wait[u].op /\ wait[t].h = wait[u].h
    => t = u

\* A thread that blocks in ipc_send or ipc_recv gets out of the call.
CallReturns == \A t \in Thread : (wait[t] # Idle) ~> (wait[t] = Idle)
=============================================================================
