----------------------------- MODULE Scheduler -----------------------------
(***************************************************************************)
(* Threads and processes on one CPU: the scheduling system calls of        *)
(* src/kernel/syscall/syscall.c and the lifecycle of                       *)
(* src/kernel/process/process.c on top of the run queue of module Sched.   *)
(*                                                                         *)
(* The thread sched.current is the one executing; it runs undisturbed      *)
(* until it gives up the CPU, so every call it makes is one action.        *)
(***************************************************************************)
EXTENDS Sched

CONSTANTS
  Process,      \* every process_t
  ProcOf,       \* the process_t whose threads[] array holds a thread
  Boot,         \* the thread that executes when the model starts
  Priorities,   \* the priorities callers pass, in range or not
  Syscalls      \* the calls the threads of the workload issue

ASSUME SchedulerConstants ==
  /\ ProcOf \in [Thread -> Process]
  /\ Boot \in Thread
  /\ Priorities \subseteq Nat /\ Priorities \cap Prio # {}
  /\ Syscalls \subseteq {"yield", "block", "set_priority", "exit", "tick"}

VARIABLES
  sched,     \* the scheduler state, see module Sched
  pstate,    \* process_t.state; NONE before process_init
  main,      \* process_t.main_thread
  leftover,  \* history: threads queued by UndoBlock and not yet dequeued
  strayed    \* history: a linked thread has changed its priority

vars == <<sched, pstate, main, leftover, strayed>>

Current == sched.current

TypeOK ==
  /\ sched \in SchedType
  /\ pstate \in [Process -> {"NONE", "INIT", "READY", "ZOMBIE"}]
  /\ main \in [Process -> Thread \cup {NULL}]
  /\ leftover \subseteq Thread
  /\ strayed \in BOOLEAN

\* sched_init, then the boot code makes one thread the running one.
Init ==
  /\ \E p \in Priorities \cap Prio :
       sched = [state    |-> [t \in Thread |-> IF t = Boot THEN "RUNNING"
                                                           ELSE "NONE"],
                priority |-> [t \in Thread |-> p],
                ticks    |-> [t \in Thread |-> 0],
                next     |-> [t \in Thread |-> NULL],
                head     |-> [i \in Prio |-> NULL],
                tail     |-> [i \in Prio |-> NULL],
                total    |-> 0,
                mode     |-> "IDLE",
                preempt  |-> FALSE,
                current  |-> Boot]
  /\ pstate = [p \in Process |-> IF p = ProcOf[Boot] THEN "READY" ELSE "NONE"]
  /\ main = [p \in Process |-> IF p = ProcOf[Boot] THEN Boot ELSE NULL]
  /\ leftover = {}
  /\ strayed = FALSE

\* The scheduler state becomes s; the threads of undone were requeued by it.
Commit(s, undone) ==
  /\ sched' = s
  /\ leftover' = {t \in leftover \cup undone : Queued(s, t)}

-----------------------------------------------------------------------------
(* Process lifecycle.                                                      *)

process_init(p) ==
  /\ pstate[p] = "NONE"
  /\ pstate' = [pstate EXCEPT ![p] = "INIT"]
  /\ UNCHANGED <<sched, main, leftover, strayed>>

\* Any priority is stored; sched_enqueue is the one to refuse it.
process_add_thread(t, prio) ==
  /\ pstate[ProcOf[t]] # "NONE"
  /\ sched.state[t] = "NONE"
  /\ Commit([sched EXCEPT !.state[t] = "INIT", !.priority[t] = prio,
                          !.ticks[t] = 0, !.next[t] = NULL], {})
  /\ main' = [main EXCEPT ![ProcOf[t]] = IF @ = NULL THEN t ELSE @]
  /\ UNCHANGED <<pstate, strayed>>

\* The process becomes READY, and so does its main thread if that has not
\* been started.  The run queue is left alone.
process_ready(p) ==
  /\ pstate[p] = "INIT"
  /\ pstate' = [pstate EXCEPT ![p] = "READY"]
  /\ LET t == main[p] IN
     Commit(IF t # NULL /\ sched.state[t] = "INIT"
            THEN [sched EXCEPT !.state[t] = "READY"]
            ELSE sched, {})
  /\ UNCHANGED <<main, strayed>>

\* The creator hands a READY thread to the scheduler, now, later or never.
EnqueueThread(t) ==
  /\ t # Current
  /\ EnqueueOk(sched, t)
  /\ Commit(sched_enqueue(sched, t), {})
  /\ UNCHANGED <<pstate, main, strayed>>

\* A thread may also be made READY and enqueued by hand.
StartThread(t) ==
  /\ sched.state[t] = "INIT"
  /\ Commit(sched_enqueue([sched EXCEPT !.state[t] = "READY"], t), {})
  /\ UNCHANGED <<pstate, main, strayed>>

\* The run queue is not consulted: a ZOMBIE may stay queued or current.  A
\* second exit takes the threads that were added after the first.
process_exit(p) ==
  /\ "exit" \in Syscalls
  /\ pstate[p] # "NONE"
  /\ pstate' = [pstate EXCEPT ![p] = "ZOMBIE"]
  /\ Commit([sched EXCEPT !.state = [t \in Thread |->
               IF ProcOf[t] = p /\ @[t] # "NONE" THEN "ZOMBIE" ELSE @[t]]], {})
  /\ UNCHANGED <<main, strayed>>

-----------------------------------------------------------------------------
(* System calls of the current thread.                                     *)

handle_yield ==
  /\ "yield" \in Syscalls
  /\ Commit(YieldCpu(sched, Current), {})
  /\ UNCHANGED <<pstate, main, strayed>>

handle_sched_block ==
  /\ "block" \in Syscalls
  /\ BlockOk(sched, Current)
  /\ Commit(BlockCpu(sched, Current),
            IF NothingToRun(sched, Current) THEN {Current} ELSE {})
  /\ UNCHANGED <<pstate, main, strayed>>

\* Kernel code run by the current thread wakes a blocked thread.
unblock(t) ==
  /\ sched.state[t] = "BLOCKED"
  /\ Commit(sched_unblock(sched, t), {})
  /\ UNCHANGED <<pstate, main, strayed>>

\* The priority is overwritten in place: a thread that an undone block left
\* queued stays linked into the band of its old priority.
handle_sched_set_priority(prio) ==
  /\ "set_priority" \in Syscalls
  /\ prio \in Prio
  /\ Commit([sched EXCEPT !.priority[Current] = prio], {})
  /\ strayed' = (strayed \/ (prio # sched.priority[Current] /\ Queued(sched, Current)))
  /\ UNCHANGED <<pstate, main>>

\* Preemption as test_scheduler of phase2b.c plays it: sched_tick on the
\* running thread, then sched_next when the scheduler state is PREEMPT, and
\* the thread it returns runs.  The kernel installs no tick callback yet.
Tick ==
  /\ "tick" \in Syscalls
  /\ LET s == sched_tick(sched, Current)
         n == NextResult(s, Current)
     IN  Commit(IF s.mode # "PREEMPT" THEN s
                ELSE IF n = NULL THEN sched_next(s, Current)
                ELSE sched_context_switch(sched_next(s, Current), n), {})
  /\ UNCHANGED <<pstate, main, strayed>>

Next ==
  \/ \E p \in Process : process_init(p) \/ process_ready(p) \/ process_exit(p)
  \/ \E t \in Thread, prio \in Priorities : process_add_thread(t, prio)
  \/ \E t \in Thread : EnqueueThread(t) \/ StartThread(t) \/ unblock(t)
  \/ handle_yield
  \/ handle_sched_block
  \/ \E prio \in Priorities : handle_sched_set_priority(prio)
  \/ Tick

Spec == Init /\ [][Next]_vars

\* Cooperative threads: whoever has the CPU yields sooner or later.
FairSpec == Spec /\ WF_vars(handle_yield)

-----------------------------------------------------------------------------
(* Properties.                                                             *)

\* At most one thread is RUNNING, and it is the one s_current names: no
\* switch, undo or exit path of the callers of sched_context_switch leaves
\* the state of the previous thread RUNNING.
OneRunning == \A t \in Thread : sched.state[t] = "RUNNING" => t = Current

\* The run queue holds READY threads only.  The exceptions are the ones the
\* code makes: a thread requeued by an undone block and a thread whose
\* process exited while it was queued.  Like the properties of the lists below
\* it ends when a linked thread changes its priority.
QueuedIsReady ==
  ~ strayed => \A t \in Thread : Queued(sched, t) =>
    sched.state[t] \in {"READY", "ZOMBIE"} \/ t \in leftover

\* No thread is lost: one that runs, is blocked or is linked into a band does
\* not become READY without being linked, unless the bands had no room or a
\* linked thread has changed its priority.  A thread that its creator never
\* enqueued, or that sched_enqueue refused for its priority, is not meant.
NoThreadLost ==
  [][ Cardinality(Thread) <= MAX_THREADS /\ ~ strayed' =>
        \A t \in Thread :
          /\ sched.state[t] \in {"RUNNING", "BLOCKED"} \/ Queued(sched, t)
          /\ sched'.state[t] = "READY"
          => Queued(sched', t) ]_vars

\* The intrusive lists are sound: a band's list ends at its tail, holds no
\* thread twice and only threads of that priority, and s_total_ready is the
\* number of linked threads.  It ends when a linked thread changes its
\* priority, which handle_sched_set_priority does not prevent.
ListsSound ==
  ~ strayed =>
    /\ \A i \in Prio :
         LET q == Band(sched, i) IN
         /\ sched.tail[i] = IF q = << >> THEN NULL ELSE q[Len(q)]
         /\ \A k \in DOMAIN q :
              /\ sched.priority[q[k]] = i
              /\ sched.next[q[k]] = IF k = Len(q) THEN NULL ELSE q[k + 1]
    /\ sched.total = Cardinality({t \in Thread : Queued(sched, t)})

\* A switch passes over no queued thread of a better priority, as long as no
\* linked thread has changed its priority.
SwitchTakesBest ==
  [][ ~ strayed' /\ sched'.current # sched.current =>
        \A t \in Thread : Queued(sched', t) =>
          sched'.priority[t] >= sched'.priority[sched'.current] ]_vars


\* Every thread in the run queue gets the CPU, when all threads have one
\* priority and the thread on the CPU keeps yielding: the bands are FIFO.
ReadyRuns == \A t \in Thread : Queued(sched, t) ~> (Current = t)

\* A blocked thread does not get the CPU until sched_unblock has made it
\* READY, as the contract of sched_block says.  The code breaks it: a thread
\* that an undone block left in the run queue may block and be dequeued.
BlockedStaysOff ==
  [][ \A t \in Thread :
        sched.state[t] = "BLOCKED" => sched'.state[t] # "RUNNING" ]_vars

\* A thread that exited never executes again: ZOMBIE has no successor but
\* being freed.  The code breaks it: process_exit leaves the thread queued.
ZombieIsFinal ==
  [][ \A t \in Thread :
        sched.state[t] = "ZOMBIE" => sched'.state[t] = "ZOMBIE" ]_vars
=============================================================================
