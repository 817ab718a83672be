---------------------------- MODULE ChannelFifo ----------------------------
(***************************************************************************)
(* What a pool of IPC channels promises: every open channel is a bounded   *)
(* FIFO queue, messages enter at its end one at a time, leave from its     *)
(* front one at a time, and are only discarded when the channel closes.    *)
(***************************************************************************)
EXTENDS Integers, Sequences

CONSTANTS Slots, Messages, Bound, Closed

VARIABLE fifo

Open(c) == fifo[c] = Closed /\ fifo' = [fifo EXCEPT ![c] = << >>]

Close(c) == fifo[c] # Closed /\ fifo' = [fifo EXCEPT ![c] = Closed]

Enqueue(c, m) ==
  /\ fifo[c] # Closed
  /\ Len(fifo[c]) < Bound
  /\ fifo' = [fifo EXCEPT ![c] = Append(@, m)]

Dequeue(c) ==
  /\ fifo[c] # Closed
  /\ fifo[c] # << >>
  /\ fifo' = [fifo EXCEPT ![c] = Tail(@)]

Init == fifo = [c \in Slots |-> Closed]

Next ==
  \E c \in Slots :
    \/ Open(c)
    \/ Close(c)
    \/ Dequeue(c)
    \/ \E m \in Messages : Enqueue(c, m)

Spec == Init /\ [][Next]_fifo
=============================================================================
