------------------------------- MODULE MCIpc -------------------------------
(* Small instances of module Ipc.                                          *)
EXTENDS Ipc

CONSTANTS t1, t2, t3

\* One thread manages the channels and uses them without blocking, the others
\* send and receive.
ManagerAndUsers ==
  [t \in Thread |-> IF t = t1 THEN {"yield", "create", "destroy", "trysend", "tryrecv"}
                    ELSE IF t = t2 THEN {"yield", "send", "recv"}
                    ELSE {"send", "recv"}]

\* One sender, which also creates the channel, one receiver, and an idle
\* thread that only yields.
Pair ==
  [t \in Thread |-> IF t = t1 THEN {"create", "send"}
                    ELSE IF t = t2 THEN {"recv"} ELSE {"yield"}]

\* One thread that creates the channel and blocks like the others.
Crowd == [t \in Thread |-> {"create", "send", "recv"}]
=============================================================================
