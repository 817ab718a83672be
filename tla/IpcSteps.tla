----------------------------- MODULE IpcSteps ------------------------------
(***************************************************************************)
(* The steps of module Ipc that store or take a message, or give up the    *)
(* CPU inside a blocking call, preserve the inductive invariant.           *)
(***************************************************************************)
EXTENDS IpcLemmas

\* A message is stored: the receiver is unregistered and woken.
LEMMA SendStep ==
  ASSUME IpcInv, NEW t \in Thread, t = Current, NEW h \in Handle, NEW m \in Message,
         m.via = h, InCall(t, "send", h), Live(h), ~ Full(h[2]), DoSend(h[2], m),
         wait' \in {wait, [wait EXCEPT ![t] = Idle]}, UNCHANGED <<gen, displaced>>
  PROVE  IpcInv'
<1> DEFINE c  == h[2]
           ch == chan[c]
           p  == Put(ch, m)
<1>1. c \in Slot /\ ch \in Channel /\ ch.open /\ ch.handle = h /\ ChanOk(c, ch, gen)
  BY LiveOpen
<1>2. ch.count < CAPACITY
  BY <1>1, IpcConstants DEF Full, Channel
<1>3. gen \in Nat \ {0} /\ gen' \in Nat \ {0} /\ gen' = gen /\ gen' >= gen
  BY DEF IpcInv, TypeOK
<1>4. chan' = [chan EXCEPT ![c] = p] /\ sched' = Wake(sched, ch.receiver)
  BY DEF DoSend
<1>5. p.handle = h /\ p.sender = ch.sender /\ p.receiver = NULL
  BY <1>1, PutFields, ZenonT(60)
<1>6. ChanOk(c, p, gen')
  BY <1>1, <1>2, <1>3, PutOk
<1> HIDE DEF p, c, ch
<1>7. /\ chan' \in [Slot -> Channel]
      /\ \A d \in Slot : ChanOk(d, chan'[d], gen')
      /\ chan'[c] = p
      /\ \A d \in Slot \ {c} : chan'[d] = chan[d]
  BY <1>1, <1>3, <1>4, <1>6, ChanUpdate, ZenonT(60)
<1>8. ch.receiver \in Thread \cup {NULL}
  BY <1>1 DEF Channel
<1>9. SchedOk({}) /\ (ch.receiver # NULL => sched'.state[ch.receiver] # "BLOCKED")
  BY <1>4, <1>8, WakeOk
<1>10. /\ wait' \in [Thread -> {Idle} \cup SendWait \cup RecvWait]
       /\ \A u \in Thread \ {t} : wait'[u] = wait[u]
       /\ wait'[t] \in {Idle, wait[t]}
  BY WaitAfter
<1>11. sched.state[t] # "BLOCKED" /\ sched'.state[t] # "BLOCKED"
  BY <1>9 DEF IpcInv, SchedOk, NoNewBlocked
<1>12. TypeOK' /\ (Current \in Thread)' /\ (sched.state[Current] # "BLOCKED")'
  BY <1>7, <1>9, <1>10 DEF IpcInv, TypeOK, SchedOk, Current
<1>13. \A d \in Slot : chan[d].sender # t /\ chan[d].receiver # t
  <2>1. wait[t] = Idle => wait[t].op = "idle"
    BY WaitCases
  <2>2. TAKE d \in Slot
  <2> QED BY <1>2, <2>1, Registered, IpcConstants DEF InCall, c, ch
<1>14. WaiterIsWaiting'
  <2> SUFFICES ASSUME NEW d \in Slot, NEW u \in Thread
               PROVE  /\ chan'[d].receiver = u => wait'[u].op = "recv" /\ wait'[u].h = chan'[d].handle
                      /\ chan'[d].sender = u => wait'[u].op = "send" /\ wait'[u].h = chan'[d].handle
    BY DEF WaiterIsWaiting
  <2>1. /\ chan'[d].handle = chan[d].handle /\ chan'[d].sender = chan[d].sender
        /\ chan'[d].receiver \in {NULL, chan[d].receiver}
    BY <1>1, <1>5, <1>7 DEF ch
  <2>2. u # NULL
    BY SchedConstants
  <2> QED BY <1>10, <1>13, <2>1, <2>2 DEF IpcInv, WaiterIsWaiting
<1>15. WaitsOk'
  BY <1>3, <1>9, <1>10, <1>11 DEF IpcInv, WaitsOk, SchedOk, NoNewBlocked, Idle
<1>16. NoLostWakeup'
  <2> SUFFICES ASSUME NEW u \in Thread \ displaced, sched'.state[u] = "BLOCKED",
                      chan'[wait'[u].h[2]].handle = wait'[u].h
               PROVE  u = IF wait'[u].op = "send" THEN chan'[wait'[u].h[2]].sender
                          ELSE chan'[wait'[u].h[2]].receiver
    BY DEF NoLostWakeup, Live
  <2>1. u # t /\ sched.state[u] = "BLOCKED" /\ wait'[u] = wait[u]
    BY <1>9, <1>10, <1>11 DEF SchedOk, NoNewBlocked
  <2>2. wait[u].h \in Handle
    BY <2>1, WaitCases DEF IpcInv, WaitsOk
  <2> DEFINE d == wait[u].h[2]
  <2>3. d \in Slot
    BY <2>2 DEF Handle
  <2>4. /\ chan'[d].handle = chan[d].handle /\ chan'[d].sender = chan[d].sender
        /\ d # c => chan'[d].receiver = chan[d].receiver
    BY <1>1, <1>5, <1>7, <2>3 DEF ch
  <2>5. u = IF wait[u].op = "send" THEN chan[d].sender ELSE chan[d].receiver
    BY <2>1, <2>4, ZenonT(60) DEF IpcInv, NoLostWakeup, Live
  <2>6. u # ch.receiver
    BY <1>9, SchedConstants
  <2> QED BY <2>1, <2>4, <2>5, <2>6 DEF ch
<1> QED BY <1>7, <1>12, <1>14, <1>15, <1>16 DEF IpcInv

\* A message is taken: the sender is unregistered and woken.
LEMMA RecvStep ==
  ASSUME IpcInv, NEW t \in Thread, t = Current, NEW h \in Handle,
         InCall(t, "recv", h), Live(h), ~ Empty(h[2]), DoRecv(h[2]),
         wait' \in {wait, [wait EXCEPT ![t] = Idle]}, UNCHANGED <<gen, displaced>>
  PROVE  IpcInv'
<1> DEFINE c  == h[2]
           ch == chan[c]
           p  == Take(ch)
<1>1. c \in Slot /\ ch \in Channel /\ ch.open /\ ch.handle = h /\ ChanOk(c, ch, gen)
  BY LiveOpen, ZenonT(60)
<1>2. ch.count > 0
  BY <1>1 DEF Empty, Channel
<1>3. gen \in Nat \ {0} /\ gen' \in Nat \ {0} /\ gen' = gen /\ gen' >= gen
  BY DEF IpcInv, TypeOK
<1>4. chan' = [chan EXCEPT ![c] = p] /\ sched' = Wake(sched, ch.sender)
  BY DEF DoRecv
<1>5. p.handle = h /\ p.receiver = ch.receiver /\ p.sender = NULL
  BY <1>1, <1>2, TakeFields
<1>6. ChanOk(c, p, gen')
  BY <1>1, <1>2, <1>3, TakeOk
<1> HIDE DEF p, c, ch
<1>7. /\ chan' \in [Slot -> Channel]
      /\ \A d \in Slot : ChanOk(d, chan'[d], gen')
      /\ chan'[c] = p
      /\ \A d \in Slot \ {c} : chan'[d] = chan[d]
  BY <1>1, <1>3, <1>4, <1>6, ChanUpdate, ZenonT(60)
<1>8. ch.sender \in Thread \cup {NULL}
  BY <1>1 DEF Channel
<1>9. SchedOk({}) /\ (ch.sender # NULL => sched'.state[ch.sender] # "BLOCKED")
  BY <1>4, <1>8, WakeOk
<1>10. /\ wait' \in [Thread -> {Idle} \cup SendWait \cup RecvWait]
       /\ \A u \in Thread \ {t} : wait'[u] = wait[u]
       /\ wait'[t] \in {Idle, wait[t]}
  BY WaitAfter
<1>11. sched.state[t] # "BLOCKED" /\ sched'.state[t] # "BLOCKED"
  BY <1>9 DEF IpcInv, SchedOk, NoNewBlocked
<1>12. TypeOK' /\ (Current \in Thread)' /\ (sched.state[Current] # "BLOCKED")'
  BY <1>7, <1>9, <1>10 DEF IpcInv, TypeOK, SchedOk, Current
<1>13. \A d \in Slot : chan[d].sender # t /\ chan[d].receiver # t
  <2>1. wait[t] = Idle => wait[t].op = "idle"
    BY WaitCases
  <2>2. TAKE d \in Slot
  <2> QED BY <1>2, <2>1, Registered, IpcConstants DEF InCall, c, ch
<1>14. WaiterIsWaiting'
  <2> SUFFICES ASSUME NEW d \in Slot, NEW u \in Thread
               PROVE  /\ chan'[d].receiver = u => wait'[u].op = "recv" /\ wait'[u].h = chan'[d].handle
                      /\ chan'[d].sender = u => wait'[u].op = "send" /\ wait'[u].h = chan'[d].handle
    BY DEF WaiterIsWaiting
  <2>1. /\ chan'[d].handle = chan[d].handle /\ chan'[d].receiver = chan[d].receiver
        /\ chan'[d].sender \in {NULL, chan[d].sender}
    BY <1>1, <1>5, <1>7 DEF ch
  <2>2. u # NULL
    BY SchedConstants
  <2> QED BY <1>10, <1>13, <2>1, <2>2 DEF IpcInv, WaiterIsWaiting
<1>15. WaitsOk'
  BY <1>3, <1>9, <1>10, <1>11 DEF IpcInv, WaitsOk, SchedOk, NoNewBlocked, Idle
<1>16. NoLostWakeup'
  <2> SUFFICES ASSUME NEW u \in Thread \ displaced, sched'.state[u] = "BLOCKED",
                      chan'[wait'[u].h[2]].handle = wait'[u].h
               PROVE  u = IF wait'[u].op = "send" THEN chan'[wait'[u].h[2]].sender
                          ELSE chan'[wait'[u].h[2]].receiver
    BY DEF NoLostWakeup, Live
  <2>1. u # t /\ sched.state[u] = "BLOCKED" /\ wait'[u] = wait[u]
    BY <1>9, <1>10, <1>11 DEF SchedOk, NoNewBlocked
  <2>2. wait[u].h \in Handle
    BY <2>1, WaitCases DEF IpcInv, WaitsOk
  <2> DEFINE d == wait[u].h[2]
  <2>3. d \in Slot
    BY <2>2 DEF Handle
  <2>4. /\ chan'[d].handle = chan[d].handle /\ chan'[d].receiver = chan[d].receiver
        /\ d # c => chan'[d].sender = chan[d].sender
    BY <1>1, <1>5, <1>7, <2>3 DEF ch
  <2>5. u = IF wait[u].op = "send" THEN chan[d].sender ELSE chan[d].receiver
    BY <2>1, <2>4, ZenonT(60) DEF IpcInv, NoLostWakeup, Live
  <2>6. u # ch.sender
    BY <1>9, SchedConstants
  <2> QED BY <2>1, <2>4, <2>5, <2>6 DEF ch
<1> QED BY <1>7, <1>12, <1>14, <1>15, <1>16, ZenonT(60) DEF IpcInv

\* The scheduler part of giving up the CPU inside a blocking call.
LEMMA BlockSched ==
  ASSUME IpcInv, NEW t \in Thread, t = Current,
         IF BlockOk(sched, t) THEN sched' = BlockCpu(sched, t) ELSE UNCHANGED sched
  PROVE  IF BlockOk(sched, t) /\ ~ NothingToRun(sched, t)
         THEN SchedOk({t})
         ELSE SchedOk({}) /\ sched'.state[t] # "BLOCKED"
<1>1. /\ sched \in SchedType /\ sched.current \in Thread /\ t = sched.current
      /\ sched.state[sched.current] # "BLOCKED"
  BY DEF IpcInv, TypeOK, Current
<1>2. CASE ~ BlockOk(sched, t)
  BY <1>1, <1>2 DEF SchedOk, NoNewBlocked
<1>3. CASE BlockOk(sched, t)
  <2>1. sched' = BlockCpu(sched, sched.current) /\ BlockOk(sched, sched.current)
    BY <1>1, <1>3
  <2>2. sched' \in SchedType /\ sched'.current \in Thread
    BY <1>1, <2>1, BlockCpuSafe
  <2>3. /\ NoNewBlocked(sched, sched', IF NothingToRun(sched, t) THEN {} ELSE {t})
        /\ NothingToRun(sched, t) => sched'.state[t] # "BLOCKED"
        /\ sched'.state[sched'.current] # "BLOCKED"
    BY <1>1, <2>1, BlockCpuBlocks
  <2> QED BY <1>3, <2>2, <2>3 DEF SchedOk
<1> QED BY <1>2, <1>3

\* What registering u, the caller or nobody, as sender changes: u is the caller
\* when it gives up the CPU, nobody when it goes on running.
RegisterSender(t, h, call, u) ==
  /\ \/ /\ u = t /\ SchedOk({t})
        /\ call \in SendWait /\ call.h = h /\ call.msg.via = h /\ h[1] < gen
        /\ displaced' = (displaced \ {t}) \cup ({chan[h[2]].sender} \ {NULL, t})
     \/ /\ u = NULL /\ SchedOk({}) /\ sched'.state[t] # "BLOCKED"
        /\ call = Idle
        /\ displaced' = displaced \cup ({chan[h[2]].sender} \ {NULL, t})
  /\ chan' = [chan EXCEPT ![h[2]] = [@ EXCEPT !.sender = u]]
  /\ wait' = [wait EXCEPT ![t] = call]
  /\ gen' = gen

\* The channel registers u, the caller or nobody, as its sender.
LEMMA SenderStep ==
  ASSUME IpcInv, NEW t \in Thread, t = Current, NEW h \in Handle, NEW call, NEW u,
         InCall(t, "send", h), Live(h), Full(h[2]),
         RegisterSender(t, h, call, u)
  PROVE  IpcInv'
<1> DEFINE c  == h[2]
           ch == chan[c]
           p  == [ch EXCEPT !.sender = u]
<1>1. c \in Slot /\ ch \in Channel /\ ch.open /\ ch.handle = h /\ ChanOk(c, ch, gen)
  BY LiveOpen
<1>2. ch.count = CAPACITY
  BY <1>1, IpcConstants DEF Full, Channel, ChanOk
<1>3. gen \in Nat \ {0} /\ gen' \in Nat \ {0} /\ gen' = gen /\ gen' >= gen
  BY DEF IpcInv, TypeOK, RegisterSender
<1>4. u \in Thread \cup {NULL} /\ (u = t \/ u = NULL) /\ NULL \notin Thread
  BY SchedConstants DEF RegisterSender
<1>5. p.handle = h /\ p.sender = u /\ p.receiver = ch.receiver /\ ChanOk(c, p, gen')
  BY <1>1, <1>2, <1>3, <1>4, SenderOk
<1>6. chan' = [chan EXCEPT ![c] = p]
  BY DEF IpcInv, TypeOK, RegisterSender
<1> HIDE DEF p, c, ch
<1>7. /\ chan' \in [Slot -> Channel]
      /\ \A d \in Slot : ChanOk(d, chan'[d], gen')
      /\ chan'[c] = p
      /\ \A d \in Slot \ {c} : chan'[d] = chan[d]
  BY <1>1, <1>3, <1>5, <1>6, ChanUpdate, Zenon
<1>8. ch.sender \in Thread \cup {NULL}
  BY <1>1 DEF Channel
<1>9. SchedOk({t}) /\ (call = Idle => sched'.state[t] # "BLOCKED")
  BY DEF RegisterSender, SchedOk, NoNewBlocked, SendWait, Idle
<1>9a. call \in {Idle} \cup SendWait /\ (u = t <=> call \in SendWait)
  BY <1>4 DEF RegisterSender, SendWait, Idle
<1>9b. call # Idle => call.op = "send" /\ call.h = h /\ call.msg.via = h /\ h[1] < gen /\ u = t
  BY <1>9a DEF RegisterSender, SendWait
<1>10. /\ wait' \in [Thread -> {Idle} \cup SendWait \cup RecvWait]
       /\ \A v \in Thread \ {t} : wait'[v] = wait[v]
       /\ wait'[t] = call
  BY DEF IpcInv, TypeOK, RegisterSender
<1>11. \A v \in Thread : v \notin displaced' => (v = t \/ v \notin displaced) /\ (v = t \/ v # ch.sender)
  BY <1>4 DEF c, ch, RegisterSender
<1>12. TypeOK' /\ (Current \in Thread)' /\ (sched.state[Current] # "BLOCKED")'
  <2>1. displaced' \subseteq Thread
    BY <1>8 DEF IpcInv, TypeOK, c, ch, RegisterSender
  <2> QED BY <1>3, <1>7, <1>9, <1>10, <2>1 DEF IpcInv, TypeOK, SchedOk, Current
<1>13. \A d \in Slot : chan[d].receiver # t /\ (chan[d].sender = t => d = c)
  <2>1. wait[t] = Idle => wait[t].op = "idle"
    BY WaitCases
  <2>2. TAKE d \in Slot
  <2> QED BY <2>1, Registered DEF InCall, c
<1>14. ASSUME NEW d \in Slot
       PROVE  /\ chan'[d].handle = chan[d].handle /\ chan'[d].receiver = chan[d].receiver
              /\ d = c => chan'[d].sender = u
              /\ d # c => chan'[d].sender = chan[d].sender
  <2>1. CASE d = c
    BY <1>1, <1>5, <1>7, <2>1 DEF ch
  <2>2. CASE d # c
    <3>1. chan'[d] = chan[d]
      BY <1>7, <2>2
    <3> QED BY <2>2, <3>1, ZenonT(60)
  <2> QED BY <2>1, <2>2
<1>15. WaiterIsWaiting'
  <2> SUFFICES ASSUME NEW d \in Slot, NEW v \in Thread
               PROVE  /\ chan'[d].receiver = v => wait'[v].op = "recv" /\ wait'[v].h = chan'[d].handle
                      /\ chan'[d].sender = v => wait'[v].op = "send" /\ wait'[v].h = chan'[d].handle
    BY DEF WaiterIsWaiting
  <2>1. u # NULL => call.op = "send" /\ call.h = h
    BY <1>9a, <1>4, <1>9b DEF Idle, SendWait
  <2> QED BY <1>1, <1>4, <1>10, <1>13, <1>14, <2>1 DEF IpcInv, WaiterIsWaiting, ch
<1>16. WaitsOk'
  <2> SUFFICES ASSUME NEW v \in Thread
               PROVE  /\ wait'[v] # Idle => wait'[v].h[1] < gen'
                      /\ wait'[v].op = "send" => wait'[v].msg.via = wait'[v].h
                      /\ sched'.state[v] = "BLOCKED" => wait'[v] # Idle
    BY DEF WaitsOk
  <2>1. CASE v = t
    BY <1>3, <1>9, <1>10, <1>9a, <1>9b, <2>1 DEF Idle, SendWait
  <2>2. CASE v # t
    BY <1>3, <1>9, <1>10, <2>2 DEF IpcInv, WaitsOk, SchedOk, NoNewBlocked
  <2> QED BY <2>1, <2>2
<1>17. NoLostWakeup'
  <2> SUFFICES ASSUME NEW v \in Thread, v \notin displaced', sched'.state[v] = "BLOCKED",
                      chan'[wait'[v].h[2]].handle = wait'[v].h
               PROVE  v = IF wait'[v].op = "send" THEN chan'[wait'[v].h[2]].sender
                          ELSE chan'[wait'[v].h[2]].receiver
    BY DEF NoLostWakeup, Live
  <2>1. CASE v = t
    <3>1. call # Idle
      BY <1>9, <2>1
    <3>2. call.op = "send" /\ call.h = h /\ u = t
      BY <3>1, <1>9b
    <3> QED BY <1>1, <1>10, <1>14, <2>1, <3>2 DEF c
  <2>2. CASE v # t
    <3>1. sched.state[v] = "BLOCKED" /\ wait'[v] = wait[v] /\ v \notin displaced /\ v # ch.sender
      BY <1>9, <1>10, <1>11, <2>2 DEF SchedOk, NoNewBlocked
    <3>2. wait[v].h \in Handle
      BY <3>1, WaitCases DEF IpcInv, WaitsOk
    <3> DEFINE d == wait[v].h[2]
    <3>3. d \in Slot
      BY <3>2 DEF Handle
    <3>4. v = IF wait[v].op = "send" THEN chan[d].sender ELSE chan[d].receiver
      BY <1>14, <3>1, <3>3 DEF IpcInv, NoLostWakeup, Live
    <3> QED BY <1>14, <3>1, <3>3, <3>4 DEF ch
  <2> QED BY <2>1, <2>2
<1> QED BY <1>7, <1>12, <1>15, <1>16, <1>17 DEF IpcInv

\* What registering u, the caller or nobody, as receiver changes: u is the caller
\* when it gives up the CPU, nobody when it goes on running.
RegisterReceiver(t, h, call, u) ==
  /\ \/ /\ u = t /\ SchedOk({t})
        /\ call \in RecvWait /\ call.h = h /\ h[1] < gen
        /\ displaced' = (displaced \ {t}) \cup ({chan[h[2]].receiver} \ {NULL, t})
     \/ /\ u = NULL /\ SchedOk({}) /\ sched'.state[t] # "BLOCKED"
        /\ call = Idle
        /\ displaced' = displaced \cup ({chan[h[2]].receiver} \ {NULL, t})
  /\ chan' = [chan EXCEPT ![h[2]] = [@ EXCEPT !.receiver = u]]
  /\ wait' = [wait EXCEPT ![t] = call]
  /\ gen' = gen

\* The channel registers u, the caller or nobody, as its receiver.
LEMMA ReceiverStep ==
  ASSUME IpcInv, NEW t \in Thread, t = Current, NEW h \in Handle, NEW call, NEW u,
         InCall(t, "recv", h), Live(h), Empty(h[2]),
         RegisterReceiver(t, h, call, u)
  PROVE  IpcInv'
<1> DEFINE c  == h[2]
           ch == chan[c]
           p  == [ch EXCEPT !.receiver = u]
<1>1. c \in Slot /\ ch \in Channel /\ ch.open /\ ch.handle = h /\ ChanOk(c, ch, gen)
  BY LiveOpen
<1>2. ch.count = 0
  BY <1>1 DEF Empty
<1>3. gen \in Nat \ {0} /\ gen' \in Nat \ {0} /\ gen' = gen /\ gen' >= gen
  BY DEF IpcInv, TypeOK, RegisterReceiver
<1>4. u \in Thread \cup {NULL} /\ (u = t \/ u = NULL) /\ NULL \notin Thread
  BY SchedConstants DEF RegisterReceiver
<1>5. p.handle = h /\ p.receiver = u /\ p.sender = ch.sender /\ ChanOk(c, p, gen')
  BY <1>1, <1>2, <1>3, <1>4, ReceiverOk
<1>6. chan' = [chan EXCEPT ![c] = p]
  BY DEF IpcInv, TypeOK, RegisterReceiver
<1> HIDE DEF p, c, ch
<1>7. /\ chan' \in [Slot -> Channel]
      /\ \A d \in Slot : ChanOk(d, chan'[d], gen')
      /\ chan'[c] = p
      /\ \A d \in Slot \ {c} : chan'[d] = chan[d]
  BY <1>1, <1>3, <1>5, <1>6, ChanUpdate, Zenon
<1>8. ch.receiver \in Thread \cup {NULL}
  BY <1>1 DEF Channel
<1>9. SchedOk({t}) /\ (call = Idle => sched'.state[t] # "BLOCKED")
  BY DEF RegisterReceiver, SchedOk, NoNewBlocked, RecvWait, Idle
<1>9a. call \in {Idle} \cup RecvWait /\ (u = t <=> call \in RecvWait)
  BY <1>4 DEF RegisterReceiver, RecvWait, Idle
<1>9b. call # Idle => call.op = "recv" /\ call.h = h /\ h[1] < gen /\ u = t
  BY <1>9a DEF RegisterReceiver, RecvWait
<1>10. /\ wait' \in [Thread -> {Idle} \cup SendWait \cup RecvWait]
       /\ \A v \in Thread \ {t} : wait'[v] = wait[v]
       /\ wait'[t] = call
  BY DEF IpcInv, TypeOK, RegisterReceiver
<1>11. \A v \in Thread : v \notin displaced' => (v = t \/ v \notin displaced) /\ (v = t \/ v # ch.receiver)
  BY <1>4 DEF c, ch, RegisterReceiver
<1>12. TypeOK' /\ (Current \in Thread)' /\ (sched.state[Current] # "BLOCKED")'
  <2>1. displaced' \subseteq Thread
    BY <1>8 DEF IpcInv, TypeOK, c, ch, RegisterReceiver
  <2> QED BY <1>3, <1>7, <1>9, <1>10, <2>1 DEF IpcInv, TypeOK, SchedOk, Current
<1>13. \A d \in Slot : chan[d].sender # t /\ (chan[d].receiver = t => d = c)
  <2>1. wait[t] = Idle => wait[t].op = "idle"
    BY WaitCases
  <2>2. TAKE d \in Slot
  <2> QED BY <2>1, Registered DEF InCall, c
<1>14. ASSUME NEW d \in Slot
       PROVE  /\ chan'[d].handle = chan[d].handle /\ chan'[d].sender = chan[d].sender
              /\ d = c => chan'[d].receiver = u
              /\ d # c => chan'[d].receiver = chan[d].receiver
  <2>1. CASE d = c
    BY <1>1, <1>5, <1>7, <2>1 DEF ch
  <2>2. CASE d # c
    <3>1. chan'[d] = chan[d]
      BY <1>7, <2>2
    <3> QED BY <2>2, <3>1, Zenon
  <2> QED BY <2>1, <2>2
<1>15. WaiterIsWaiting'
  <2> SUFFICES ASSUME NEW d \in Slot, NEW v \in Thread
               PROVE  /\ chan'[d].receiver = v => wait'[v].op = "recv" /\ wait'[v].h = chan'[d].handle
                      /\ chan'[d].sender = v => wait'[v].op = "send" /\ wait'[v].h = chan'[d].handle
    BY DEF WaiterIsWaiting
  <2>1. u # NULL => call.op = "recv" /\ call.h = h
    BY <1>9a, <1>4, <1>9b DEF Idle, RecvWait
  <2> QED BY <1>1, <1>4, <1>10, <1>13, <1>14, <2>1 DEF IpcInv, WaiterIsWaiting, ch
<1>16. WaitsOk'
  <2> SUFFICES ASSUME NEW v \in Thread
               PROVE  /\ wait'[v] # Idle => wait'[v].h[1] < gen'
                      /\ wait'[v].op = "send" => wait'[v].msg.via = wait'[v].h
                      /\ sched'.state[v] = "BLOCKED" => wait'[v] # Idle
    BY DEF WaitsOk
  <2>1. CASE v = t
    BY <1>3, <1>9, <1>10, <1>9a, <1>9b, <2>1 DEF Idle, RecvWait
  <2>2. CASE v # t
    BY <1>3, <1>9, <1>10, <2>2 DEF IpcInv, WaitsOk, SchedOk, NoNewBlocked
  <2> QED BY <2>1, <2>2
<1>17. NoLostWakeup'
  <2> SUFFICES ASSUME NEW v \in Thread, v \notin displaced', sched'.state[v] = "BLOCKED",
                      chan'[wait'[v].h[2]].handle = wait'[v].h
               PROVE  v = IF wait'[v].op = "send" THEN chan'[wait'[v].h[2]].sender
                          ELSE chan'[wait'[v].h[2]].receiver
    BY DEF NoLostWakeup, Live
  <2>1. CASE v = t
    <3>1. call # Idle
      BY <1>9, <2>1
    <3>2. call.op = "recv" /\ call.h = h /\ u = t
      BY <3>1, <1>9b
    <3> QED BY <1>1, <1>10, <1>14, <2>1, <3>2 DEF c
  <2>2. CASE v # t
    <3>1. sched.state[v] = "BLOCKED" /\ wait'[v] = wait[v] /\ v \notin displaced /\ v # ch.receiver
      BY <1>9, <1>10, <1>11, <2>2 DEF SchedOk, NoNewBlocked
    <3>2. wait[v].h \in Handle
      BY <3>1, WaitCases DEF IpcInv, WaitsOk
    <3> DEFINE d == wait[v].h[2]
    <3>3. d \in Slot
      BY <3>2 DEF Handle
    <3>4. v = IF wait[v].op = "send" THEN chan[d].sender ELSE chan[d].receiver
      BY <1>14, <3>1, <3>3 DEF IpcInv, NoLostWakeup, Live
    <3> QED BY <1>14, <3>1, <3>3, <3>4 DEF ch
  <2> QED BY <2>1, <2>2
<1> QED BY <1>7, <1>12, <1>15, <1>16, <1>17 DEF IpcInv
=============================================================================
