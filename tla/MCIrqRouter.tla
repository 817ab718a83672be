---------------------------- MODULE MCIrqRouter ----------------------------
(* Small instances of module IrqRouter.                                    *)
EXTENDS IrqRouter, TLC

CONSTANT t1

\* Interrupt numbers are only compared for equality.
IrqSymmetry == Permutations(Irq)

MCPayload == {Plain} \cup IrqPayload

\* A driver that uses the calls of the HAL.
Driver ==
  [t \in Thread |-> {"create", "destroy", "trysend", "tryrecv",
                     "subscribe", "unsubscribe"}]
=============================================================================
