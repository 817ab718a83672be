----------------------------- MODULE MCIrqRecv -----------------------------
(* Small instances of module IrqRecv.                                      *)
EXTENDS IrqRecv

CONSTANTS t1, t2

MCPayload == {Plain} \cup IrqPayload

\* The states after an interrupt in a window are not followed.
NotRaced == ~ raced

\* A driver that owns the channel, and a thread that receives from it.
Receivers ==
  [t \in Thread |-> IF t = t1 THEN {"yield", "create", "destroy", "trysend", "recv",
                                    "subscribe"}
                    ELSE {"yield", "recv"}]
=============================================================================
