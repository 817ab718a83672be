------------------------------- MODULE Sched -------------------------------
(***************************************************************************)
(* The run queue of the kernel scheduler (src/kernel/sched/sched.c) as     *)
(* operators on a scheduler state.  A scheduler state s is a record:       *)
(*   state, priority, ticks   the fields of every thread_t                 *)
(*   next                     thread_t.next, the intrusive link            *)
(*   head, tail               s_queues[i].head and .tail                   *)
(*   total                    s_total_ready                                *)
(*   mode                     s_state                                      *)
(*   preempt                  s_preempt_requested                          *)
(*   current                  s_current                                    *)
(* s_queues[i].count is only printed and is left out.  Each function of    *)
(* sched.c is an operator that returns the new state; its Boolean result   *)
(* is an operator of its own (EnqueueOk, BlockOk, ...).                    *)
(***************************************************************************)
EXTENDS Integers, Sequences, FiniteSets

CONSTANTS
  Thread,       \* every thread_t the kernel ever initialises
  NULL,         \* the null pointer
  PRIO_MAX,     \* SCHED_PRIO_MAX: number of priority bands
  MAX_THREADS,  \* SCHED_MAX_THREADS: capacity of all the bands together
  QUANTUM       \* SCHED_DEFAULT_QUANTUM

ASSUME SchedConstants ==
  /\ IsFiniteSet(Thread)
  /\ NULL \notin Thread
  /\ PRIO_MAX \in Nat \ {0}
  /\ MAX_THREADS \in Nat \ {0}
  /\ QUANTUM \in Nat \ {0}

Prio == 0 .. PRIO_MAX - 1

\* process_state_t; NONE is a slot of process_t.threads with tid TID_INVALID.
ThreadState == {"NONE", "INIT", "READY", "RUNNING", "BLOCKED", "ZOMBIE"}

SchedType ==
  [ state    : [Thread -> ThreadState],
    priority : [Thread -> Nat],
    ticks    : [Thread -> 0 .. QUANTUM],
    next     : [Thread -> Thread \cup {NULL}],
    head     : [Prio -> Thread \cup {NULL}],
    tail     : [Prio -> Thread \cup {NULL}],
    total    : Int,
    mode     : {"IDLE", "RUNNING", "PREEMPT"},
    preempt  : BOOLEAN,
    current  : Thread \cup {NULL} ]

(***************************************************************************)
(* The list that starts at a band's head, as a sequence.  The walk is cut  *)
(* at the number of threads, which no acyclic list exceeds.                *)
(***************************************************************************)
Band(s, i) ==
  LET walk[n \in Nat] ==
        IF n = 0 THEN <<s.head[i]>>
        ELSE LET w == walk[n - 1]
                 l == s.next[w[Len(w)]]
             IN  IF l = NULL THEN w ELSE Append(w, l)
  IN  IF s.head[i] = NULL THEN << >> ELSE walk[Cardinality(Thread) - 1]

queue_contains(s, i, t) == \E k \in DOMAIN Band(s, i) : Band(s, i)[k] = t

\* t is linked into some band.
Queued(s, t) == \E i \in Prio : queue_contains(s, i, t)

\* Mutant: the bands are scanned from the last one.
LeastBand_Reversed(S) == CHOOSE i \in S : \A j \in S : i >= j

LeastBand(S) == CHOOSE i \in S : \A j \in S : i <= j

\* The mode after one thread left the queues (s_total_ready == 0 is IDLE).
ModeAfterLeave(s) == IF s.total = 1 THEN "IDLE" ELSE s.mode

\* The queued threads whose link is t: at most one in a sound list.
Prev(s, i, t) == {u \in Thread : queue_contains(s, i, u) /\ s.next[u] = t}

Unlink(s, i, t) ==
  [s EXCEPT !.head[i] = IF @ = t THEN s.next[t] ELSE @,
            !.next    = [u \in Thread |-> IF u = t THEN NULL
                                          ELSE IF u \in Prev(s, i, t) THEN s.next[t]
                                          ELSE @[u]],
            !.total   = @ - 1,
            !.mode    = ModeAfterLeave(s)]

\* Mutant: the tail pointer of the band is not moved back.
queue_remove_KeepsTail(s, t) ==
  Unlink(s, LeastBand({b \in Prio : queue_contains(s, b, t)}), t)

\* The first band that holds t loses it; only called when Queued(s, t).
queue_remove(s, t) ==
  LET i == LeastBand({b \in Prio : queue_contains(s, b, t)})
      p == Prev(s, i, t)
  IN  [Unlink(s, i, t) EXCEPT
         !.tail[i] = IF @ # t THEN @
                     ELSE IF p = {} THEN NULL ELSE CHOOSE u \in p : TRUE]

EnqueueOk(s, t) ==
  /\ s.state[t] = "READY"
  /\ s.priority[t] \in Prio
  /\ s.total < MAX_THREADS
  /\ ~ queue_contains(s, s.priority[t], t)

\* Mutant: t becomes the head of its band.
Append_to_band_Lifo(s, t) ==
  LET i == s.priority[t] IN
  [s EXCEPT !.head[i] = t,
            !.tail[i] = IF @ = NULL THEN t ELSE @,
            !.next[t] = s.head[i],
            !.total   = @ + 1,
            !.mode    = "RUNNING"]

\* t becomes the tail of its priority band.
Append_to_band(s, t) ==
  LET i == s.priority[t] IN
  [s EXCEPT !.head[i] = IF s.tail[i] = NULL THEN t ELSE @,
            !.tail[i] = t,
            !.next    = [u \in Thread |-> IF u = s.tail[i] THEN t
                                          ELSE IF u = t THEN NULL
                                          ELSE @[u]],
            !.total   = @ + 1,
            !.mode    = "RUNNING"]

sched_enqueue(s, t) == IF EnqueueOk(s, t) THEN Append_to_band(s, t) ELSE s

NonEmptyBands(s) == {i \in Prio : s.head[i] # NULL}

\* What sched_dequeue returns ...
DequeueResult(s) ==
  IF NonEmptyBands(s) = {} THEN NULL ELSE s.head[LeastBand(NonEmptyBands(s))]

\* Mutant: t->next is cleared before it is copied to the band's head.
sched_dequeue_DropsRest(s) ==
  IF NonEmptyBands(s) = {} THEN s ELSE
  LET i == LeastBand(NonEmptyBands(s)) IN
  [s EXCEPT !.head[i] = NULL, !.tail[i] = NULL, !.next[s.head[i]] = NULL,
            !.total = @ - 1, !.mode = ModeAfterLeave(s)]

\* Mutant: the thread is returned without being unlinked.
sched_dequeue_Peek(s) == s

\* ... and what it does to the queues.  The thread's state is left alone.
sched_dequeue(s) ==
  IF NonEmptyBands(s) = {} THEN s ELSE
  LET i == LeastBand(NonEmptyBands(s))
      t == s.head[i]
  IN  [s EXCEPT !.head[i] = s.next[t],
                !.tail[i] = IF s.next[t] = NULL THEN NULL ELSE @,
                !.next[t] = NULL,
                !.total   = @ - 1,
                !.mode    = ModeAfterLeave(s)]

Requeue(s, t) ==
  sched_enqueue([s EXCEPT !.state[t] = "READY", !.ticks[t] = QUANTUM,
                          !.preempt = FALSE], t)

YieldOk(s, t) ==
  /\ s.state[t] = "RUNNING"
  /\ EnqueueOk([s EXCEPT !.state[t] = "READY"], t)

\* A rejected enqueue still leaves the thread READY.
sched_yield(s, t) == IF s.state[t] # "RUNNING" THEN s ELSE Requeue(s, t)

\* Mutant: the tick count is decremented without the test for zero.
sched_tick_Underflow(s, t) ==
  LET left == s.ticks[t] - 1 IN
  IF left = 0
  THEN [s EXCEPT !.ticks[t] = 0, !.preempt = TRUE, !.mode = "PREEMPT"]
  ELSE [s EXCEPT !.ticks[t] = left]

sched_tick(s, t) ==
  LET left == IF s.ticks[t] > 0 THEN s.ticks[t] - 1 ELSE 0 IN
  IF left = 0
  THEN [s EXCEPT !.ticks[t] = 0, !.preempt = TRUE, !.mode = "PREEMPT"]
  ELSE [s EXCEPT !.ticks[t] = left]

BlockOk(s, t) ==
  \/ s.state[t] \in {"BLOCKED", "RUNNING"}
  \/ s.state[t] = "READY" /\ Queued(s, t)

sched_block(s, t) ==
  IF ~ BlockOk(s, t) THEN s
  ELSE [(IF s.state[t] = "READY" THEN queue_remove(s, t) ELSE s)
          EXCEPT !.state[t] = "BLOCKED"]

\* The caller gets false when the thread is not BLOCKED or the enqueue fails.
sched_unblock(s, t) ==
  IF s.state[t] # "BLOCKED" THEN s
  ELSE sched_enqueue([s EXCEPT !.state[t] = "READY"], t)

sched_context_switch(s, t) ==
  [s EXCEPT !.state[t] = "RUNNING", !.current = t]

\* Mutant: the preempted thread is not requeued.
PreemptRequeue_None(s, t) == [s EXCEPT !.preempt = FALSE]

\* sched_next: preempted threads are requeued before the next is selected.
PreemptRequeue(s, t) ==
  IF s.preempt /\ s.state[t] = "RUNNING" THEN Requeue(s, t) ELSE s

NextResult(s, t) ==
  LET p == PreemptRequeue(s, t) IN
  IF DequeueResult(p) # NULL THEN DequeueResult(p)
  ELSE IF p.state[t] = "RUNNING" THEN t ELSE NULL

sched_next(s, t) ==
  LET p == PreemptRequeue(s, t)
      n == DequeueResult(p)
  IN  IF n # NULL
      THEN [sched_dequeue(p) EXCEPT !.ticks[n] = IF @ = 0 THEN QUANTUM ELSE @]
      ELSE IF p.state[t] = "RUNNING" THEN p ELSE [p EXCEPT !.mode = "IDLE"]

(***************************************************************************)
(* The two ways the callers of sched.c give up the CPU.                    *)
(***************************************************************************)

\* handle_yield and handle_sched_sleep.
YieldCpu(s, t) ==
  LET y == sched_yield(s, t)
      n == DequeueResult(y)
  IN  IF ~ YieldOk(s, t) THEN y
      ELSE IF n = NULL THEN sched_context_switch(y, t)
      ELSE sched_context_switch(sched_dequeue(y), n)

\* No thread to switch to: the caller undoes its block and goes on running.
UndoBlock(s, t) ==
  sched_context_switch(sched_enqueue([s EXCEPT !.state[t] = "READY"], t), t)

\* handle_sched_block, and the blocking part of ipc_send and ipc_recv.
\* Called when BlockOk(s, t).
NothingToRun(s, t) == DequeueResult(sched_block(s, t)) = NULL

\* Mutant: the caller switches away without blocking itself.
BlockCpu_StaysRunning(s, t) ==
  IF NothingToRun(s, t) THEN UndoBlock(sched_block(s, t), t)
  ELSE sched_context_switch(sched_dequeue(s), DequeueResult(s))

BlockCpu(s, t) ==
  LET b == sched_block(s, t) IN
  IF NothingToRun(s, t) THEN UndoBlock(b, t)
  ELSE sched_context_switch(sched_dequeue(b), DequeueResult(b))
=============================================================================
