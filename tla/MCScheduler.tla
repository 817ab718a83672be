---------------------------- MODULE MCScheduler ----------------------------
(* Small instances of module Scheduler.                                    *)
EXTENDS Scheduler

CONSTANTS t1, t2, t3, p1, p2

\* t1 boots in process p1; p2 holds the other threads.
MCProcOf == [t \in Thread |-> IF t = t1 THEN p1 ELSE p2]

\* States after a linked thread changed its priority are reached and checked
\* but not continued: the list properties say nothing of what follows.
NotStrayed == ~ strayed
=============================================================================
