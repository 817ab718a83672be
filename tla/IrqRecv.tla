------------------------------ MODULE IrqRecv ------------------------------
(***************************************************************************)
(* ipc_recv (src/kernel/ipc/ipc.c) while interrupts publish.  No caller    *)
(* masks interrupts around ipc_recv, so irq_router_publish may run between *)
(* any two of its accesses to the channel: the call is one step for each   *)
(* place from which an interrupt sees a different channel or thread.       *)
(***************************************************************************)
EXTENDS IrqRouter

VARIABLES
  pc,      \* where the executing thread is in ipc_recv, "out" when outside
  loaded,  \* the value of ch->count that ch->count-- has read
  raced    \* history: an interrupt reached the channel in one of the windows

recvVars == <<pc, loaded, raced>>

RecvInit ==
  /\ IrqInit
  /\ pc = "out"
  /\ loaded = 0
  /\ raced = FALSE

\* The channel handle and the slot of the call in progress.
Target == wait[Current].h
TargetSlot == Target[2]

Goto(place) == pc' = place /\ UNCHANGED <<loaded, raced>>

\* The call returns to its caller.
Leave ==
  /\ wait' = [wait EXCEPT ![Current] = Idle]
  /\ pc' = "out"
  /\ loaded' = 0
  /\ UNCHANGED raced

RecvEnter(t, h, filter) ==
  /\ MayCall(t, "recv")
  /\ Live(h)
  /\ wait' = [wait EXCEPT ![t] = [op |-> "recv", h |-> h, filter |-> filter]]
  /\ Goto("test")
  /\ UNCHANGED <<sched, chan, gen, displaced, irqVars>>

\* A thread that got the CPU back in sched_context_switch tries again.
RecvAgain ==
  /\ wait[Current].op = "recv"
  /\ Goto("test")
  /\ UNCHANGED <<vars, irqVars>>

\* ipc_tryrecv finds a stale handle or a message of another type.
RecvError ==
  /\ pc = "test"
  /\ Live(Target) => ~ Empty(TargetSlot) /\ ~ Matches(TargetSlot, wait[Current].filter)
  /\ Leave
  /\ UNCHANGED <<sched, chan, gen, displaced, irqVars>>

\* ipc_tryrecv finds a message, copies it, moves head and reads count ...
RecvTake ==
  /\ pc = "test"
  /\ Live(Target) /\ ~ Empty(TargetSlot) /\ Matches(TargetSlot, wait[Current].filter)
  /\ chan' = [chan EXCEPT ![TargetSlot].head = (@ + 1) % CAPACITY]
  /\ taken' = taken \cup HeadIrq(Target)
  /\ pc' = "store"
  /\ loaded' = chan[TargetSlot].count
  /\ UNCHANGED <<sched, gen, wait, displaced, sub, subgen, made, released, dropped, raced>>

\* Mutant: count is left as it was.
RecvStore_NoDecrement ==
  /\ pc = "store"
  /\ chan' = [chan EXCEPT ![TargetSlot].count = loaded, ![TargetSlot].sender = NULL]
  /\ sched' = Wake(sched, chan[TargetSlot].sender)
  /\ Leave
  /\ UNCHANGED <<gen, displaced, irqVars>>

\* ... and writes count back, wakes a sender and returns.
RecvStore ==
  /\ pc = "store"
  /\ chan' = [chan EXCEPT ![TargetSlot].count = loaded - 1, ![TargetSlot].sender = NULL]
  /\ sched' = Wake(sched, chan[TargetSlot].sender)
  /\ Leave
  /\ UNCHANGED <<gen, displaced, irqVars>>

\* ipc_tryrecv finds the channel empty.
RecvEmpty ==
  /\ pc = "test"
  /\ Live(Target) /\ Empty(TargetSlot)
  /\ Goto("register")
  /\ UNCHANGED <<vars, irqVars>>

\* ch->blocked_receiver = current
RecvRegister ==
  /\ pc = "register"
  /\ chan' = [chan EXCEPT ![TargetSlot].receiver = Current]
  /\ displaced' = (displaced \ {Current}) \cup ({chan[TargetSlot].receiver} \ {NULL, Current})
  /\ Goto("block")
  /\ UNCHANGED <<sched, gen, wait, irqVars>>

\* sched_block(current), or IPC_ERR_AGAIN when it fails.
RecvBlock ==
  /\ pc = "block"
  /\ sched' = sched_block(sched, Current)
  /\ IF BlockOk(sched, Current)
     THEN Goto("switch") /\ UNCHANGED <<chan, wait>>
     ELSE Leave /\ chan' = [chan EXCEPT ![TargetSlot].receiver = NULL]
  /\ UNCHANGED <<gen, displaced, irqVars>>

\* The CPU goes to the next thread, or the block is undone: IPC_ERR_AGAIN.
RecvSwitch ==
  /\ pc = "switch"
  /\ IF DequeueResult(sched) = NULL
     THEN /\ sched' = UndoBlock(sched, Current)
          /\ chan' = [chan EXCEPT ![TargetSlot].receiver = NULL]
          /\ Leave
     ELSE /\ sched' = sched_context_switch(sched_dequeue(sched), DequeueResult(sched))
          /\ Goto("out")
          /\ UNCHANGED <<chan, wait>>
  /\ UNCHANGED <<gen, displaced, irqVars>>

\* The windows of ipc_recv: after the test until the thread is BLOCKED, and
\* inside ch->count--.
Windows == {"register", "block", "store"}

Interrupt(irq) ==
  /\ irq_router_publish(irq)
  /\ raced' = (raced \/ (pc \in Windows /\ chan'[TargetSlot] # chan[TargetSlot]))
  /\ UNCHANGED <<pc, loaded>>

RecvNext ==
  \/ \E irq \in Irq : Interrupt(irq)
  \/ RecvError
  \/ RecvTake
  \/ RecvStore
  \/ RecvEmpty
  \/ RecvRegister
  \/ RecvBlock
  \/ RecvSwitch
  \/ /\ pc = "out"
     /\ \/ RecvAgain
        \/ \E t \in Thread : ThreadStep(t) /\ UNCHANGED recvVars
        \/ \E t \in Thread, h \in Issued, f \in Types \cup {ANY} : RecvEnter(t, h, f)

RecvSpec == RecvInit /\ [][RecvNext]_<<vars, irqVars, recvVars>>

-----------------------------------------------------------------------------
(* Properties.                                                             *)

\* A receiver that gave up the CPU stays blocked only while its channel is
\* empty, as ipc.h says.
\* The code breaks it when an interrupt delivers a message after ipc_recv has
\* tested the channel: before the registration nobody is woken, and after it,
\* while the thread is still RUNNING, sched_unblock fails and the registration
\* is gone.
BlockedOnEmptyOnly ==
  \A t \in Thread \ (displaced \cup {Current}) :
    sched.state[t] = "BLOCKED" /\ wait[t].op = "recv" /\ Live(wait[t].h) =>
      Empty(wait[t].h[2])

\* Outside ipc_tryrecv a channel is the ring buffer ipc.h describes: count is
\* the distance from head to tail.  The code breaks it when an interrupt sends
\* between the read and the write of ch->count--.
RingSettled == pc # "store" => RingSound

\* Those windows are the only ones: as long as no interrupt falls into one of
\* them no message waits beside a blocked receiver, although interrupts come
\* at every other point of ipc_recv, between sched_block and the context
\* switch too.
WakeupOutsideWindows == ~ raced => BlockedOnEmptyOnly

\* As long as no interrupt falls into a window, no update of count is lost.
CountOutsideWindows == ~ raced => RingSettled
=============================================================================
