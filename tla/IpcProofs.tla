----------------------------- MODULE IpcProofs -----------------------------
(***************************************************************************)
(* Theorems about module Ipc, for any number of threads, channels, ring    *)
(* slots, message types and any assignment of calls to threads.            *)
(***************************************************************************)
EXTENDS IpcSteps

-----------------------------------------------------------------------------
(* The calls.                                                              *)

\* One round of ipc_send, for a handle that was issued.
LEMMA SendRoundStep ==
  ASSUME IpcInv, NEW t \in Thread, t = Current, NEW h \in Handle, h[1] < gen,
         NEW m \in Message, m.via = h, InCall(t, "send", h), SendRound(t, h, m)
  PROVE  IpcInv'
<1>0. wait[t] = Idle => wait[t].op = "idle"
  BY WaitCases
<1>1. CASE ~ Live(h) /\ ReturnError(t)
  <2>1. \A c \in Slot : chan[c].sender # t /\ chan[c].receiver # t
    <3> TAKE c \in Slot
    <3> QED BY <1>0, <1>1, Registered DEF InCall, Live
  <2> QED BY <1>1, <2>1, ReturnStep
<1>2. CASE Live(h) /\ ~ Full(h[2]) /\ DoSend(h[2], m) /\ Return(t)
  BY <1>2, SendStep, ZenonT(60) DEF Return
<1>3. CASE /\ Live(h) /\ Full(h[2])
           /\ BlockOn(t, h[2], "sender", [op |-> "send", h |-> h, msg |-> m])
  <2> DEFINE call == [op |-> "send", h |-> h, msg |-> m]
             go   == BlockOk(sched, t) /\ ~ NothingToRun(sched, t)
             u    == IF go THEN t ELSE NULL
             x    == IF go THEN call ELSE Idle
  <2>1. IF go THEN SchedOk({t}) ELSE SchedOk({}) /\ sched'.state[t] # "BLOCKED"
    BY <1>3, BlockSched DEF BlockOn
  <2>2. call \in SendWait /\ call.h = h /\ call.msg.via = h
    BY DEF SendWait
  <2>3. chan \in [Slot -> Channel] /\ h[2] \in Slot
    BY DEF IpcInv, TypeOK, Handle
  <2>4. chan' = [chan EXCEPT ![h[2]] = [@ EXCEPT !.sender = u]]
    BY <1>3, <2>3 DEF BlockOn
  <2>5. wait' = [wait EXCEPT ![t] = x] /\ gen' = gen
    BY <1>3 DEF BlockOn
  <2>6. displaced' = IF go THEN (displaced \ {t}) \cup ({chan[h[2]].sender} \ {NULL, t})
                     ELSE displaced \cup ({chan[h[2]].sender} \ {NULL, t})
    BY <1>3, <2>3 DEF BlockOn
  <2> HIDE DEF call, go
  <2>7. RegisterSender(t, h, x, u)
    BY <2>1, <2>2, <2>4, <2>5, <2>6, ZenonT(60) DEF RegisterSender
  <2> QED BY <1>3, <2>7, SenderStep, ZenonT(60)
<1> QED BY <1>1, <1>2, <1>3 DEF SendRound

\* One round of ipc_recv, for a handle that was issued.
LEMMA RecvRoundStep ==
  ASSUME IpcInv, NEW t \in Thread, t = Current, NEW h \in Handle, h[1] < gen,
         NEW f \in Types \cup {ANY}, InCall(t, "recv", h), RecvRound(t, h, f)
  PROVE  IpcInv'
<1>0. wait[t] = Idle => wait[t].op = "idle"
  BY WaitCases
<1>1. CASE ~ Live(h) /\ ReturnError(t)
  <2>1. \A c \in Slot : chan[c].sender # t /\ chan[c].receiver # t
    <3> TAKE c \in Slot
    <3> QED BY <1>0, <1>1, Registered DEF InCall, Live
  <2> QED BY <1>1, <2>1, ReturnStep
<1>2. CASE Live(h) /\ ~ Empty(h[2]) /\ ReturnError(t)
  <2>1. \A c \in Slot : chan[c].sender # t /\ chan[c].receiver # t
    <3> TAKE c \in Slot
    <3> QED BY <1>0, <1>2, Registered DEF InCall, Empty
  <2> QED BY <1>2, <2>1, ReturnStep
<1>3. CASE Live(h) /\ ~ Empty(h[2]) /\ DoRecv(h[2]) /\ Return(t)
  BY <1>3, RecvStep, Zenon DEF Return
<1>4. CASE /\ Live(h) /\ Empty(h[2])
           /\ BlockOn(t, h[2], "receiver", [op |-> "recv", h |-> h, filter |-> f])
  <2> DEFINE call == [op |-> "recv", h |-> h, filter |-> f]
             go   == BlockOk(sched, t) /\ ~ NothingToRun(sched, t)
             u    == IF go THEN t ELSE NULL
             x    == IF go THEN call ELSE Idle
  <2>1. IF go THEN SchedOk({t}) ELSE SchedOk({}) /\ sched'.state[t] # "BLOCKED"
    BY <1>4, BlockSched DEF BlockOn
  <2>2. call \in RecvWait /\ call.h = h
    BY DEF RecvWait
  <2>3. chan \in [Slot -> Channel] /\ h[2] \in Slot
    BY DEF IpcInv, TypeOK, Handle
  <2>4. chan' = [chan EXCEPT ![h[2]] = [@ EXCEPT !.receiver = u]]
    BY <1>4, <2>3 DEF BlockOn
  <2>5. wait' = [wait EXCEPT ![t] = x] /\ gen' = gen
    BY <1>4 DEF BlockOn
  <2>6. displaced' = IF go THEN (displaced \ {t}) \cup ({chan[h[2]].receiver} \ {NULL, t})
                     ELSE displaced \cup ({chan[h[2]].receiver} \ {NULL, t})
    BY <1>4, <2>3 DEF BlockOn
  <2> HIDE DEF call, go
  <2>7. RegisterReceiver(t, h, x, u)
    BY <2>1, <2>2, <2>4, <2>5, <2>6, ZenonT(60) DEF RegisterReceiver
  <2> QED BY <1>4, <2>7, ReceiverStep, ZenonT(60)
<1> QED BY <1>1, <1>2, <1>3, <1>4 DEF RecvRound

\* A thread that got the CPU back inside a call.
LEMMA ResumeStep ==
  ASSUME IpcInv, NEW t \in Thread, resume(t)
  PROVE  IpcInv'
<1>1. t = Current
  BY DEF resume
<1>2. CASE wait[t].op = "send" /\ SendRound(t, wait[t].h, wait[t].msg)
  <2>1. wait[t] \in SendWait /\ wait[t] # Idle
    BY <1>2, WaitCases
  <2>2. wait[t].h \in Handle /\ wait[t].msg \in Message
    BY <2>1 DEF SendWait
  <2>3. wait[t].h[1] < gen /\ wait[t].msg.via = wait[t].h /\ InCall(t, "send", wait[t].h)
    BY <1>2, <2>1 DEF IpcInv, WaitsOk, InCall
  <2> QED BY <1>1, <1>2, <2>2, <2>3, SendRoundStep
<1>3. CASE wait[t].op = "recv" /\ RecvRound(t, wait[t].h, wait[t].filter)
  <2>1. wait[t] \in RecvWait /\ wait[t] # Idle
    BY <1>3, WaitCases
  <2>2. wait[t].h \in Handle /\ wait[t].filter \in Types \cup {ANY}
    BY <2>1 DEF RecvWait
  <2>3. wait[t].h[1] < gen /\ InCall(t, "recv", wait[t].h)
    BY <1>3, <2>1 DEF IpcInv, WaitsOk, InCall
  <2> QED BY <1>1, <1>3, <2>2, <2>3, RecvRoundStep
<1> QED BY <1>2, <1>3 DEF resume

-----------------------------------------------------------------------------
(* Safety.                                                                 *)

\* ipc_init: every slot is free.
LEMMA InitIpcInv == Init => IpcInv
<1> SUFFICES ASSUME Init PROVE IpcInv
  OBVIOUS
<1>1. CAPACITY \in Nat \ {0} /\ 0 \in 0 .. CAPACITY - 1 /\ 0 \in 0 .. CAPACITY
  BY IpcConstants
<1>2. At(0 + 0) = 0
  BY <1>1, RingIndex
<1>3. FreeChannel \in Channel
  BY <1>1 DEF FreeChannel, EmptyRing, Channel, Ring
<1>4. ASSUME NEW c \in Slot PROVE ChanOk(c, FreeChannel, 1)
  BY <1>1, <1>2, <1>3, SchedConstants DEF ChanOk, FreeChannel
<1>5. \A c \in Slot : chan[c] = FreeChannel
  BY DEF Init
<1>6. sched \in SchedType /\ sched.current = Boot /\ sched.state[Boot] = "RUNNING"
      /\ \A t \in Thread : sched.state[t] # "BLOCKED"
  BY SchedConstants, IpcConstants DEF Init, SchedType, ThreadState, Prio
<1>7. TypeOK /\ Current \in Thread /\ sched.state[Current] # "BLOCKED"
  BY <1>3, <1>6, IpcConstants DEF Init, TypeOK, Current
<1>8. \A c \in Slot : ChanOk(c, chan[c], gen)
  BY <1>4, <1>5 DEF Init
<1>9. \A c \in Slot : chan[c].sender = NULL /\ chan[c].receiver = NULL
  <2>1. FreeChannel.sender = NULL /\ FreeChannel.receiver = NULL
    BY DEF FreeChannel
  <2> QED BY <1>5, <2>1
<1>10. WaiterIsWaiting
  BY <1>9, SchedConstants DEF WaiterIsWaiting
<1>11. WaitsOk
  BY <1>6 DEF Init, WaitsOk, Idle
<1>12. NoLostWakeup
  BY <1>6 DEF NoLostWakeup
<1> QED BY <1>7, <1>8, <1>10, <1>11, <1>12 DEF IpcInv

\* Every step keeps the invariant.
LEMMA StepIpcInv == IpcInv /\ [Next]_vars => IpcInv'
<1> SUFFICES ASSUME IpcInv, [Next]_vars
             PROVE  IpcInv'
  OBVIOUS
<1>1. CASE UNCHANGED vars
  <2>1. SchedOk({})
    BY <1>1 DEF vars, IpcInv, TypeOK, SchedOk, NoNewBlocked, Current
  <2> QED BY <1>1, <2>1, QuietStep DEF vars
<1>2. CASE \E t \in Thread : start_thread(t)
  BY <1>2, StartStep
<1>3. CASE \E t \in Thread : yield(t)
  BY <1>3, YieldStep
<1>4. CASE \E t \in Thread : resume(t)
  BY <1>4, ResumeStep
<1>5. CASE \E t \in Thread : ipc_channel_create(t)
  BY <1>5, CreateStep
<1>6. CASE \E t \in Thread, h \in Issued : ipc_channel_destroy(t, h)
  BY <1>6, DestroyStep DEF Issued
<1>7. ASSUME NEW t \in Thread, NEW h \in Issued, NEW ty \in Types
      PROVE  LET m == [type |-> ty, via |-> h, body |-> Plain] IN
             ipc_trysend(t, h, m) \/ ipc_send(t, h, m) => IpcInv'
  <2> DEFINE m == [type |-> ty, via |-> h, body |-> Plain]
  <2>1. h \in Handle /\ h[1] < gen
    BY DEF Issued
  <2>2. m \in Message /\ m.via = h
    BY <2>1, IpcConstants DEF Message
  <2> HIDE DEF m
  <2>3. ASSUME ipc_trysend(t, h, m) PROVE IpcInv'
    BY <2>1, <2>2, <2>3, SendStep DEF ipc_trysend, MayCall, InCall
  <2>4. ASSUME ipc_send(t, h, m) PROVE IpcInv'
    BY <2>1, <2>2, <2>4, SendRoundStep DEF ipc_send, MayCall, InCall
  <2> QED BY <2>3, <2>4 DEF m
<1>8. ASSUME NEW t \in Thread, NEW h \in Issued, NEW f \in Types \cup {ANY},
             ipc_tryrecv(t, h, f) \/ ipc_recv(t, h, f)
      PROVE  IpcInv'
  <2>1. h \in Handle /\ h[1] < gen
    BY DEF Issued
  <2>2. CASE ipc_tryrecv(t, h, f)
    BY <2>1, <2>2, RecvStep DEF ipc_tryrecv, MayCall, InCall
  <2>3. CASE ipc_recv(t, h, f)
    BY <2>1, <2>3, RecvRoundStep DEF ipc_recv, MayCall, InCall
  <2> QED BY <1>8, <2>2, <2>3
<1> QED BY <1>1, <1>2, <1>3, <1>4, <1>5, <1>6, <1>7, <1>8, ZenonT(60) DEF Next

\* The invariant holds in every reachable state.
THEOREM IpcSafe == Spec => []IpcInv
BY InitIpcInv, StepIpcInv, PTL DEF Spec

\* The channel table, the scheduler and the blocking calls keep their types:
\* head and tail stay inside the ring and every pointer names a thread.
THEOREM TypeCorrect == Spec => []TypeOK
<1>1. IpcInv => TypeOK
  BY DEF IpcInv
<1> QED BY <1>1, IpcSafe, PTL

\* The ring buffers of ipc.c never overflow and head, tail and count agree.
THEOREM RingCorrect == Spec => []RingSound
<1>1. IpcInv => RingSound
  BY DEF IpcInv, RingSound, ChanOk, At
<1> QED BY <1>1, IpcSafe, PTL

\* A slot has a handle exactly while it is open, the handle is its own and
\* its generation was handed out before, through destroy and reuse.
THEOREM HandleCorrect == Spec => []HandleSound
<1>1. IpcInv => HandleSound
  BY DEF IpcInv, HandleSound, ChanOk
<1> QED BY <1>1, IpcSafe, PTL

\* A receiver is registered on empty channels only, a sender on full ones.
THEOREM WaiterRingCorrect == Spec => []WaiterMatchesRing
<1>1. IpcInv => WaiterMatchesRing
  BY DEF IpcInv, WaiterMatchesRing, ChanOk
<1> QED BY <1>1, IpcSafe, PTL

\* blocked_sender and blocked_receiver are never stale.
THEOREM WaiterCorrect == Spec => []WaiterIsWaiting
<1>1. IpcInv => WaiterIsWaiting
  BY DEF IpcInv
<1> QED BY <1>1, IpcSafe, PTL

\* No wakeup is lost: a thread that is BLOCKED on a live channel and was not
\* displaced is the one ipc_trysend or ipc_tryrecv will wake.
THEOREM WakeupCorrect == Spec => []NoLostWakeup
<1>1. IpcInv => NoLostWakeup
  BY DEF IpcInv
<1> QED BY <1>1, IpcSafe, PTL

\* Messages stay with the handle they were sent through: reusing a slot of
\* s_channels never delivers a message of the destroyed channel.
THEOREM CrossTalkCorrect == Spec => []NoCrossTalk
<1>1. IpcInv => NoCrossTalk
  <2> SUFFICES ASSUME IpcInv, NEW c \in Slot, NEW i \in 1 .. chan[c].count
               PROVE  Contents(chan[c])[i].via = chan[c].handle
    BY DEF NoCrossTalk
  <2>1. chan[c] \in Channel /\ ChanOk(c, chan[c], gen)
    BY DEF IpcInv, ChanOk
  <2>2. chan[c].count \in Nat /\ chan[c].head \in Nat
    BY <2>1 DEF Channel
  <2>3. i - 1 \in 0 .. chan[c].count - 1 /\ chan[c].head + i - 1 = chan[c].head + (i - 1)
    BY <2>2
  <2>4. Contents(chan[c])[i] = chan[c].ring[At(chan[c].head + (i - 1))]
    BY <2>3 DEF Contents, At
  <2> QED BY <2>1, <2>3, <2>4 DEF ChanOk
<1> QED BY <1>1, IpcSafe, PTL
=============================================================================
