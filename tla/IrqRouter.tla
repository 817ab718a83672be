----------------------------- MODULE IrqRouter -----------------------------
(***************************************************************************)
(* Interrupts as messages (src/kernel/irq/irq_router.c): a fixed table of  *)
(* subscriptions, and a publisher that runs in interrupt context and puts  *)
(* a numbered message into the channel of every matching subscription.     *)
(*                                                                         *)
(* The driver HAL masks interrupts around its channel operations           *)
(* (zaclr_native_Zapada_Drivers_Hal_DriverHal.cpp), so each of them is one *)
(* step here.  The blocking ipc_recv is not masked: see module IrqRecv.    *)
(***************************************************************************)
EXTENDS Ipc

CONSTANTS
  Irq,                \* interrupt numbers
  IRQ_TYPE,           \* IRQ_ROUTER_MESSAGE_TYPE
  MAX_SUBSCRIPTIONS,  \* IRQ_ROUTER_MAX_SUBSCRIPTIONS
  MaxSubscribe,       \* bound: subscriptions made in one behaviour
  MaxSequence         \* bound: interrupts published to one subscription

ASSUME IrqConstants ==
  /\ MAX_SUBSCRIPTIONS \in Nat \ {0}
  /\ MaxSubscribe \in Nat
  /\ MaxSequence \in Nat
  /\ IRQ_TYPE \in Types

Sub == 1 .. MAX_SUBSCRIPTIONS

\* payload[0] is the interrupt and payload[1] its sequence number.
IrqPayload == Irq \X (1 .. MaxSequence)

\* A subscription handle is the pair (generation & 0xFFFFFF, entry).
SubHandle == (0 .. GEN_MOD - 1) \X Sub

\* handle = NULL is a free entry.
Subscription ==
  [handle : SubHandle \cup {NULL}, irq : Irq \cup {NULL},
   channel : Handle \cup {NULL}, sequence : Nat]

VARIABLES
  sub,      \* s_subscriptions
  subgen,   \* s_next_generation of irq_router.c
  made,     \* history: the subscriptions made, in order
  released, \* history: the members of made that were unsubscribed
  dropped,  \* history: <<channel, irq, number>> that found the channel full
  taken     \* history: <<channel, irq, number>> that a reader has received

irqHistory == <<made, released, dropped, taken>>
irqVars == <<sub, subgen, irqHistory>>

NoSub == [handle |-> NULL, irq |-> NULL, channel |-> NULL, sequence |-> 0]

IrqTypeOK ==
  /\ TypeOK
  /\ sub \in [Sub -> Subscription]
  /\ subgen \in Nat \ {0}
  /\ \A k \in DOMAIN made :
       made[k] \in [handle : SubHandle, irq : Irq, channel : Handle]
  /\ released \subseteq DOMAIN made
  /\ dropped \cup taken \subseteq Handle \X Irq \X (1 .. MaxSequence)

IrqInit ==
  /\ Init
  /\ sub = [i \in Sub |-> NoSub]
  /\ subgen = 1
  /\ made = << >>
  /\ released = {}
  /\ dropped = {}
  /\ taken = {}

\* The handle is an int32 with the 24-bit generation in its upper bits: it is
\* positive while bit 23 of the generation is clear.
HandlePositive(h) == h # NULL /\ h[1] < GEN_MOD \div 2

\* The first free entry i is filled for subscription s.
Enter(i, s) ==
  /\ sub[i].handle = NULL
  /\ \A j \in 1 .. i - 1 : sub[j].handle # NULL
  /\ sub' = [sub EXCEPT ![i] = [handle |-> s.handle, irq |-> s.irq,
                                channel |-> s.channel, sequence |-> 0]]
  /\ made' = Append(made, s)

\* Mutant: make_subscription_handle does not advance the generation.
irq_router_subscribe_SameGen(t, irq, h) ==
  /\ MayCall(t, "subscribe")
  /\ Len(made) < MaxSubscribe
  /\ Live(h)
  /\ \E i \in Sub : Enter(i, [handle |-> <<subgen % GEN_MOD, i>>, irq |-> irq, channel |-> h])
  /\ UNCHANGED <<vars, subgen, released, dropped, taken>>

irq_router_subscribe(t, irq, h) ==
  /\ MayCall(t, "subscribe")
  /\ Len(made) < MaxSubscribe
  /\ Live(h)
  /\ \E i \in Sub : Enter(i, [handle |-> <<subgen % GEN_MOD, i>>, irq |-> irq, channel |-> h])
  /\ subgen' = subgen + 1
  /\ UNCHANGED <<vars, released, dropped, taken>>

\* The owner of the k-th subscription made gives its handle back, perhaps for
\* the second time.  A handle that is not in the table changes nothing.
irq_router_unsubscribe(t, k) ==
  /\ MayCall(t, "unsubscribe")
  /\ HandlePositive(made[k].handle)
  /\ \E i \in Sub :
       /\ sub[i].handle = made[k].handle
       /\ sub' = [sub EXCEPT ![i] = NoSub]
  /\ released' = released \cup {k}
  /\ UNCHANGED <<vars, subgen, made, dropped, taken>>

-----------------------------------------------------------------------------
(* Interrupt context.                                                      *)

Listens(i, irq) == HandlePositive(sub[i].handle) /\ sub[i].irq = irq

IrqMessage(i) ==
  [type |-> IRQ_TYPE, via |-> sub[i].channel, body |-> <<sub[i].irq, sub[i].sequence + 1>>]

\* Mutant: the message goes to whatever channel has the slot.
Deliver_SlotOnly(st, i) ==
  LET c == sub[i].channel[2] IN
  IF ~ st.chan[c].open THEN st
  ELSE IF st.chan[c].count >= CAPACITY
  THEN [st EXCEPT !.dropped = @ \cup {<<sub[i].channel>> \o IrqMessage(i).body}]
  ELSE [st EXCEPT !.chan[c] = Put(@, IrqMessage(i)),
                  !.sched = Wake(@, st.chan[c].receiver)]

\* ipc_trysend in interrupt context, on the channels and threads st.
Deliver(st, i) ==
  LET h == sub[i].channel
      c == h[2]
  IN  IF st.chan[c].handle # h THEN st
      ELSE IF st.chan[c].count >= CAPACITY
      THEN [st EXCEPT !.dropped = @ \cup {<<h>> \o IrqMessage(i).body}]
      ELSE [st EXCEPT !.chan[c] = Put(@, IrqMessage(i)),
                      !.sched = Wake(@, st.chan[c].receiver)]

\* Mutant: every interrupt counts for every subscription.
CountInterrupt_All(irq) ==
  [i \in Sub |-> IF sub[i].handle # NULL THEN [sub[i] EXCEPT !.sequence = @ + 1]
                 ELSE sub[i]]

CountInterrupt(irq) ==
  [i \in Sub |-> IF Listens(i, irq) THEN [sub[i] EXCEPT !.sequence = @ + 1]
                 ELSE sub[i]]

\* The subscriptions are served in table order.
irq_router_publish(irq) ==
  LET st[i \in 0 .. MAX_SUBSCRIPTIONS] ==
        IF i = 0 THEN [chan |-> chan, sched |-> sched, dropped |-> dropped]
        ELSE IF Listens(i, irq) THEN Deliver(st[i - 1], i)
        ELSE st[i - 1]
  IN  /\ \A i \in Sub : Listens(i, irq) => sub[i].sequence < MaxSequence
      /\ chan' = st[MAX_SUBSCRIPTIONS].chan
      /\ sched' = st[MAX_SUBSCRIPTIONS].sched
      /\ dropped' = st[MAX_SUBSCRIPTIONS].dropped
      /\ sub' = CountInterrupt(irq)
      /\ UNCHANGED <<gen, wait, displaced, subgen, made, released, taken>>

-----------------------------------------------------------------------------
(* Calls of threads.                                                       *)

IsIrq(m) == m.body # Plain

\* The interrupt, if it is one, at the head of the channel of h.
HeadIrq(h) ==
  LET m == chan[h[2]].ring[chan[h[2]].head] IN
  IF IsIrq(m) THEN {<<h>> \o m.body} ELSE {}

Receive(t, h, filter) ==
  /\ ipc_tryrecv(t, h, filter)
  /\ taken' = taken \cup HeadIrq(h)
  /\ UNCHANGED <<sub, subgen, made, released, dropped>>

\* The other calls that are one step: the HAL masks interrupts around them, and
\* the run queue operations of start_thread and yield are taken as undisturbed.
OneStep(t) ==
  /\ \/ start_thread(t)
     \/ yield(t)
     \/ ipc_channel_create(t)
     \/ \E h \in Issued :
          \/ ipc_channel_destroy(t, h)
          \/ \E ty \in Types : ipc_trysend(t, h, [type |-> ty, via |-> h, body |-> Plain])
  /\ UNCHANGED irqVars

ThreadStep(t) ==
  \/ OneStep(t)
  \/ \E k \in DOMAIN made : irq_router_unsubscribe(t, k)
  \/ \E h \in Issued :
       \/ \E irq \in Irq : irq_router_subscribe(t, irq, h)
       \/ \E f \in Types \cup {ANY} : Receive(t, h, f)

IrqNext ==
  \/ \E irq \in Irq : irq_router_publish(irq)
  \/ \E t \in Thread : ThreadStep(t)

IrqSpec == IrqInit /\ [][IrqNext]_<<vars, irqVars>>

-----------------------------------------------------------------------------
(* Properties.                                                             *)

\* The numbers of interrupt irq that wait in the channel of slot c, and those
\* of a history set that belong to the channel that is there now.
Waiting(c, irq) ==
  {n \in 1 .. MaxSequence :
     \E i \in 1 .. chan[c].count : Contents(chan[c])[i].body = <<irq, n>>}
Numbers(history, c, irq) ==
  {n \in 1 .. MaxSequence : <<chan[c].handle, irq, n>> \in history}

\* The k-th subscription is the only one that was ever made for its interrupt
\* and its channel.
OnlyOne(k) ==
  \A j \in DOMAIN made : made[j].irq = made[k].irq /\ made[j].channel = made[k].channel => j = k

\* A reader can tell lost interrupts from the sequence numbers alone.  What it
\* receives of an interrupt is strictly increasing, and a number it does not
\* get is that of an interrupt that found the channel full: every interrupt up
\* to the last one is received, waiting in order behind the received ones, or
\* dropped, and only one of the three.  This needs a single subscription of
\* the interrupt for the channel: irq_router_subscribe starts again from 1.
GapsAreDrops ==
  \A k \in DOMAIN made : OnlyOne(k) /\ Live(made[k].channel) =>
    LET c == made[k].channel[2]
        irq == made[k].irq
        q == Contents(chan[c])
        w == Waiting(c, irq)
        r == Numbers(taken, c, irq)
        d == Numbers(dropped, c, irq)
    IN  /\ \A i, j \in 1 .. chan[c].count :
             i < j /\ IsIrq(q[i]) /\ IsIrq(q[j]) /\ q[i].body[1] = irq /\ q[j].body[1] = irq
               => q[i].body[2] < q[j].body[2]
        /\ \A n \in r, m \in w : n < m
        /\ d \cap (r \cup w) = {}
        /\ \A i \in Sub : k \notin released /\ sub[i].handle = made[k].handle =>
             r \cup w \cup d = 1 .. sub[i].sequence

\* A subscription stays in the table until its owner gives it back: handing in
\* a handle a second time, after the entry was used again, removes nothing.
SubscriptionKept ==
  \A k \in DOMAIN made \ released :
    \E i \in Sub : /\ sub[i].handle = made[k].handle
                   /\ sub[i].irq = made[k].irq
                   /\ sub[i].channel = made[k].channel

\* A channel holds interrupts of subscriptions made for that very channel
\* handle, also when the channel a subscription names was destroyed and its
\* slot reused.
NoStrayInterrupt ==
  \A c \in Slot : \A i \in 1 .. chan[c].count :
    LET m == Contents(chan[c])[i] IN IsIrq(m) => m.via = chan[c].handle
=============================================================================
