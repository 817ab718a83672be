-------------------------- MODULE SchedulerProofs --------------------------
(***************************************************************************)
(* Theorems about module Scheduler, for any number of threads, processes,  *)
(* priority bands and any workload.                                        *)
(***************************************************************************)
EXTENDS Scheduler, SchedProofs

\* There is always an executing thread: s_current is never NULL after boot.
TypeInv == TypeOK /\ Current \in Thread

\* The state the boot code leaves is well typed.
LEMMA InitTypeInv == Init => TypeInv
<1> SUFFICES ASSUME Init PROVE TypeInv
  OBVIOUS
<1> PICK p \in Priorities \cap Prio :
      sched = [state    |-> [t \in Thread |-> IF t = Boot THEN "RUNNING" ELSE "NONE"],
               priority |-> [t \in Thread |-> p],
               ticks    |-> [t \in Thread |-> 0],
               next     |-> [t \in Thread |-> NULL],
               head     |-> [i \in Prio |-> NULL],
               tail     |-> [i \in Prio |-> NULL],
               total    |-> 0,
               mode     |-> "IDLE",
               preempt  |-> FALSE,
               current  |-> Boot]
  BY DEF Init
<1>1. p \in Nat
  BY SchedulerConstants
<1>2. sched \in SchedType
  BY <1>1, SchedConstants, SchedulerConstants DEF SchedType, ThreadState
<1> QED
  BY <1>2, SchedulerConstants DEF Init, TypeInv, TypeOK, Current

\* Making a thread READY and enqueuing it, as creators do.
LEMMA ReadyType ==
  ASSUME NEW s \in SchedType, NEW t \in Thread
  PROVE  LET r == sched_enqueue([s EXCEPT !.state[t] = "READY"], t) IN
         /\ r \in SchedType
         /\ r.state = [s.state EXCEPT ![t] = "READY"]
         /\ r.current = s.current
<1>1. "READY" \in ThreadState
  BY DEF ThreadState
<1> DEFINE q == [s EXCEPT !.state[t] = "READY"]
<1>2. /\ q \in SchedType
      /\ q.state = [s.state EXCEPT ![t] = "READY"]
      /\ q.current = s.current
  BY <1>1, SetStateType
<1> HIDE DEF q
<1>3. /\ sched_enqueue(q, t) \in SchedType
      /\ sched_enqueue(q, t).state = q.state
      /\ sched_enqueue(q, t).current = q.current
  BY <1>2, EnqueueType
<1> QED BY <1>2, <1>3 DEF q

\* What the actions of processes, and the change of a priority, make of the
\* scheduler state.
Added(t, prio) ==
  [sched EXCEPT !.state[t] = "INIT", !.priority[t] = prio, !.ticks[t] = 0,
                !.next[t] = NULL]

Exited(p) ==
  [sched EXCEPT !.state = [t \in Thread |->
     IF ProcOf[t] = p /\ @[t] # "NONE" THEN "ZOMBIE" ELSE @[t]]]

\* process_add_thread makes a thread INIT and leaves the CPU alone.
LEMMA AddedType ==
  ASSUME TypeInv, NEW t \in Thread, NEW prio \in Nat
  PROVE  /\ Added(t, prio) \in SchedType
         /\ Added(t, prio).state = [sched.state EXCEPT ![t] = "INIT"]
         /\ Added(t, prio).current = sched.current
<1> DEFINE st == [sched.state EXCEPT ![t] = "INIT"]
           pr == [sched.priority EXCEPT ![t] = prio]
           tk == [sched.ticks EXCEPT ![t] = 0]
           nx == [sched.next EXCEPT ![t] = NULL]
<1>1. sched \in SchedType
  BY DEF TypeInv, TypeOK
<1>2. st \in [Thread -> ThreadState] /\ pr \in [Thread -> Nat]
  BY <1>1 DEF SchedType, ThreadState
<1>3. tk \in [Thread -> 0 .. QUANTUM] /\ nx \in [Thread -> Thread \cup {NULL}]
  BY <1>1, SchedConstants DEF SchedType
<1>4. Added(t, prio) = [sched EXCEPT !.state = st, !.priority = pr, !.ticks = tk, !.next = nx]
  BY <1>1 DEF Added, SchedType
<1> HIDE DEF st, pr, tk, nx
<1>5. Added(t, prio) \in SchedType /\ Added(t, prio).state = st
      /\ Added(t, prio).current = sched.current
  BY <1>1, <1>2, <1>3, <1>4, Zenon DEF SchedType
<1> QED BY <1>5 DEF st

\* process_exit makes threads ZOMBIE and leaves the CPU alone.
LEMMA ExitedType ==
  ASSUME TypeInv, NEW p
  PROVE  /\ Exited(p) \in SchedType
         /\ \A t \in Thread : Exited(p).state[t] \in {sched.state[t], "ZOMBIE"}
         /\ Exited(p).current = sched.current
<1>1. sched \in SchedType
  BY DEF TypeInv, TypeOK
<1> DEFINE st == [t \in Thread |-> IF ProcOf[t] = p /\ sched.state[t] # "NONE"
                                   THEN "ZOMBIE" ELSE sched.state[t]]
<1>2. st \in [Thread -> ThreadState]
  BY <1>1 DEF SchedType, ThreadState
<1>3. Exited(p) = [sched EXCEPT !.state = st]
  BY DEF Exited
<1>4. \A t \in Thread : st[t] \in {sched.state[t], "ZOMBIE"}
  OBVIOUS
<1> HIDE DEF st
<1>5. Exited(p) \in SchedType /\ Exited(p).state = st /\ Exited(p).current = sched.current
  BY <1>1, <1>2, <1>3 DEF SchedType
<1> QED BY <1>4, <1>5

-----------------------------------------------------------------------------
(* One step.                                                               *)

\* A scheduler state that is fit to follow the present one.
Fit(s) ==
  /\ s \in SchedType
  /\ s.current \in Thread
  /\ OneRun(sched) => OneRun(s)

\* A step that only takes threads out of the RUNNING state.
LEMMA QuietFit ==
  ASSUME TypeInv, NEW s \in SchedType, s.current = sched.current,
         \A t \in Thread : s.state[t] = "RUNNING" => sched.state[t] = "RUNNING"
  PROVE  Fit(s)
BY DEF Fit, OneRun, TypeInv, Current

\* An action that commits a fit state keeps what the state had.
LEMMA CommitFit ==
  ASSUME TypeInv, NEW s, NEW U \in SUBSET Thread, Fit(s), Commit(s, U)
  PROVE  Fit(sched') /\ leftover' \subseteq Thread
BY DEF Commit, TypeInv, TypeOK, Fit

\* process_add_thread: the new thread is INIT, not RUNNING.
LEMMA AddThreadFit ==
  ASSUME TypeInv, NEW t \in Thread, NEW prio \in Priorities, process_add_thread(t, prio)
  PROVE  Fit(sched') /\ leftover' \subseteq Thread /\ main' \in [Process -> Thread \cup {NULL}]
<1>1. prio \in Nat
  BY SchedulerConstants
<1>2. sched.state \in [Thread -> ThreadState]
  BY DEF TypeInv, TypeOK, SchedType
<1>3. Commit(Added(t, prio), {})
  BY DEF process_add_thread, Added
<1>4. Fit(Added(t, prio))
  <2>0. Added(t, prio).state = [sched.state EXCEPT ![t] = "INIT"]
    BY <1>1, AddedType
  <2>1. \A u \in Thread : Added(t, prio).state[u] = "RUNNING" => sched.state[u] = "RUNNING"
    BY <1>2, <2>0
  <2> QED BY <1>1, <2>1, AddedType, QuietFit, Zenon
<1>5. main' \in [Process -> Thread \cup {NULL}]
  BY Zenon DEF process_add_thread, TypeInv, TypeOK
<1> QED BY <1>3, <1>4, <1>5, CommitFit

\* Starting a thread: it is READY, not RUNNING.
LEMMA MakeReadyFit ==
  ASSUME TypeInv, NEW t \in Thread
  PROVE  Fit(sched_enqueue([sched EXCEPT !.state[t] = "READY"], t))
<1> DEFINE r == sched_enqueue([sched EXCEPT !.state[t] = "READY"], t)
<1>1. sched \in SchedType
  BY DEF TypeInv, TypeOK
<1>2. /\ r \in SchedType
      /\ r.state = [sched.state EXCEPT ![t] = "READY"]
      /\ r.current = sched.current
  BY <1>1, ReadyType
<1> HIDE DEF r
<1>3. \A u \in Thread : r.state[u] = "RUNNING" => sched.state[u] = "RUNNING"
  BY <1>1, <1>2 DEF SchedType
<1>4. Fit(r)
  BY <1>2, <1>3, QuietFit, Zenon
<1> QED BY <1>4 DEF r

\* A thread that is made READY and not enqueued.
LEMMA SetReadyFit ==
  ASSUME TypeInv, NEW t \in Thread
  PROVE  Fit([sched EXCEPT !.state[t] = "READY"])
<1> DEFINE r == [sched EXCEPT !.state[t] = "READY"]
<1>1. sched \in SchedType /\ "READY" \in ThreadState
  BY DEF TypeInv, TypeOK, ThreadState
<1>2. /\ r \in SchedType
      /\ r.state = [sched.state EXCEPT ![t] = "READY"]
      /\ r.current = sched.current
  BY <1>1, SetStateType
<1> HIDE DEF r
<1>3. \A u \in Thread : r.state[u] = "RUNNING" => sched.state[u] = "RUNNING"
  BY <1>1, <1>2 DEF SchedType
<1>4. Fit(r)
  BY <1>2, <1>3, QuietFit, Zenon
<1> QED BY <1>4 DEF r

\* The scheduler state may stay as it is.
LEMMA SameFit == TypeInv => Fit(sched)
BY DEF Fit, TypeInv, TypeOK, Current

\* process_ready makes the main thread READY or leaves the scheduler alone.
LEMMA ReadyFit ==
  ASSUME TypeInv, NEW p \in Process, process_ready(p)
  PROVE  Fit(sched') /\ leftover' \subseteq Thread
<1> DEFINE t == main[p]
           r == IF t # NULL /\ sched.state[t] = "INIT"
                THEN [sched EXCEPT !.state[t] = "READY"]
                ELSE sched
<1>1. Commit(r, {})
  BY DEF process_ready
<1>2. t # NULL => t \in Thread
  BY DEF TypeInv, TypeOK
<1>3. Fit(r)
  BY <1>2, SetReadyFit, SameFit
<1> HIDE DEF r
<1> QED BY <1>1, <1>3, CommitFit

\* A creator that enqueues a READY thread.
LEMMA EnqueueFit ==
  ASSUME TypeInv, NEW t \in Thread, EnqueueThread(t)
  PROVE  Fit(sched') /\ leftover' \subseteq Thread
<1> DEFINE r == sched_enqueue(sched, t)
<1>1. sched \in SchedType
  BY DEF TypeInv, TypeOK
<1>2. r \in SchedType /\ r.state = sched.state /\ r.current = sched.current
  BY <1>1, EnqueueType
<1>3. Commit(r, {})
  BY DEF EnqueueThread
<1> HIDE DEF r
<1>4. Fit(r)
  BY <1>2, QuietFit
<1> QED BY <1>3, <1>4, CommitFit

\* A creator that starts a thread by hand.
LEMMA StartFit ==
  ASSUME TypeInv, NEW t \in Thread, StartThread(t)
  PROVE  Fit(sched') /\ leftover' \subseteq Thread
BY MakeReadyFit, CommitFit DEF StartThread

\* process_exit takes threads out of the RUNNING state.
LEMMA ExitFit ==
  ASSUME TypeInv, NEW p \in Process, process_exit(p)
  PROVE  Fit(sched') /\ leftover' \subseteq Thread
<1>1. Commit(Exited(p), {})
  BY DEF process_exit, Exited
<1>2. Fit(Exited(p))
  <2>1. \A t \in Thread : Exited(p).state[t] = "RUNNING" => sched.state[t] = "RUNNING"
    BY ExitedType
  <2> QED BY <2>1, ExitedType, QuietFit
<1> QED BY <1>1, <1>2, CommitFit

\* handle_yield, by the lemma on the yield path.
LEMMA YieldFit ==
  ASSUME TypeInv, handle_yield
  PROVE  Fit(sched') /\ leftover' \subseteq Thread
<1>1. Commit(YieldCpu(sched, sched.current), {})
  BY DEF handle_yield, Current
<1>2. Fit(YieldCpu(sched, sched.current))
  BY YieldCpuSafe DEF Fit, TypeInv, TypeOK, Current
<1> QED BY <1>1, <1>2, CommitFit

\* handle_sched_block, by the lemma on the block and undo paths.
LEMMA BlockFit ==
  ASSUME TypeInv, handle_sched_block
  PROVE  Fit(sched') /\ leftover' \subseteq Thread
<1> DEFINE U == IF NothingToRun(sched, Current) THEN {Current} ELSE {}
<1>1. Commit(BlockCpu(sched, sched.current), U)
  BY DEF handle_sched_block, Current
<1>2. Fit(BlockCpu(sched, sched.current))
  BY BlockCpuSafe DEF Fit, TypeInv, TypeOK, Current, handle_sched_block
<1>3. U \in SUBSET Thread
  BY DEF TypeInv
<1> HIDE DEF U
<1> QED BY <1>1, <1>2, <1>3, CommitFit

\* sched_unblock makes a thread READY.
LEMMA UnblockFit ==
  ASSUME TypeInv, NEW t \in Thread, unblock(t)
  PROVE  Fit(sched') /\ leftover' \subseteq Thread
<1> DEFINE r == sched_unblock(sched, t)
<1>1. sched \in SchedType
  BY DEF TypeInv, TypeOK
<1>2. /\ r \in SchedType
      /\ r.state \in {sched.state, [sched.state EXCEPT ![t] = "READY"]}
      /\ r.current = sched.current
  BY <1>1, UnblockType
<1>3. Commit(r, {})
  BY DEF unblock
<1> HIDE DEF r
<1>4. \A u \in Thread : r.state[u] = "RUNNING" => sched.state[u] = "RUNNING"
  BY <1>1, <1>2 DEF SchedType
<1>5. Fit(r)
  BY <1>2, <1>4, QuietFit
<1> QED BY <1>3, <1>5, CommitFit

\* handle_sched_set_priority changes no state.
LEMMA SetPriorityFit ==
  ASSUME TypeInv, NEW prio \in Priorities, handle_sched_set_priority(prio)
  PROVE  Fit(sched') /\ leftover' \subseteq Thread
<1> DEFINE pr == [sched.priority EXCEPT ![Current] = prio]
           r  == [sched EXCEPT !.priority = pr]
<1>1. sched \in SchedType
  BY DEF TypeInv, TypeOK
<1>2. pr \in [Thread -> Nat]
  BY <1>1, SchedulerConstants, Zenon DEF SchedType
<1>3. Commit(r, {})
  BY <1>1 DEF handle_sched_set_priority, SchedType
<1> HIDE DEF pr
<1>4. r \in SchedType /\ r.state = sched.state /\ r.current = sched.current
  BY <1>1, <1>2 DEF SchedType
<1> HIDE DEF r
<1>5. Fit(r)
  BY <1>4, QuietFit
<1> QED BY <1>3, <1>5, CommitFit

\* The timer tick keeps the types.  It does not keep OneRun when
\* a block was undone before.
LEMMA TickTyped ==
  ASSUME TypeInv, Tick
  PROVE  sched' \in SchedType /\ sched'.current \in Thread /\ leftover' \subseteq Thread
<1> DEFINE s == sched_tick(sched, Current)
           n == NextResult(s, Current)
           x == sched_next(s, Current)
           r == IF s.mode # "PREEMPT" THEN s
                ELSE IF n = NULL THEN x ELSE sched_context_switch(x, n)
<1>1. sched \in SchedType /\ sched.current \in Thread /\ Current = sched.current
  BY DEF TypeInv, TypeOK, Current
<1>2. s \in SchedType /\ s.current = sched.current
  BY <1>1, TickType
<1>3. Commit(r, {})
  BY DEF Tick
<1> HIDE DEF s
<1>4. x \in SchedType /\ x.current = s.current /\ n \in Thread \cup {NULL}
  BY <1>1, <1>2, NextType
<1> HIDE DEF x, n
<1>5. r \in SchedType /\ r.current \in Thread
  BY <1>1, <1>2, <1>4, SwitchType, Zenon
<1> HIDE DEF r
<1> QED BY <1>3, <1>5 DEF Commit, TypeInv, TypeOK

\* Every step but the timer tick leads to a fit state.
LEMMA StepFit ==
  ASSUME TypeInv, Next, ~Tick
  PROVE  Fit(sched') /\ leftover' \subseteq Thread
<1>1. CASE \E p \in Process : process_init(p)
  BY <1>1, SameFit DEF process_init, TypeInv, TypeOK, Fit
<1>2. CASE \E p \in Process : process_ready(p)
  BY <1>2, ReadyFit
<1>3. CASE \E p \in Process : process_exit(p)
  BY <1>3, ExitFit
<1>4. CASE \E t \in Thread, prio \in Priorities : process_add_thread(t, prio)
  BY <1>4, AddThreadFit
<1>5. CASE \E t \in Thread : StartThread(t)
  BY <1>5, StartFit
<1>6. CASE \E t \in Thread : unblock(t)
  BY <1>6, UnblockFit
<1>7. CASE handle_yield
  BY <1>7, YieldFit
<1>8. CASE handle_sched_block
  BY <1>8, BlockFit
<1>9. CASE \E prio \in Priorities : handle_sched_set_priority(prio)
  BY <1>9, SetPriorityFit
<1>10. CASE \E t \in Thread : EnqueueThread(t)
  BY <1>10, EnqueueFit
<1> QED BY <1>1, <1>2, <1>3, <1>4, <1>5, <1>6, <1>7, <1>8, <1>9, <1>10 DEF Next

\* The process table keeps its types in every step.
LEMMA ProcessTyped ==
  ASSUME TypeInv, Next
  PROVE  /\ pstate' \in [Process -> {"NONE", "INIT", "READY", "ZOMBIE"}]
         /\ main' \in [Process -> Thread \cup {NULL}]
         /\ strayed' \in BOOLEAN
<1>0. strayed' \in BOOLEAN
  BY DEF Next, process_init, process_ready, process_exit, process_add_thread,
         EnqueueThread, StartThread, unblock, handle_yield, handle_sched_block,
         handle_sched_set_priority, Tick, TypeInv, TypeOK
<1>1. CASE \E p \in Process : process_init(p) \/ process_ready(p) \/ process_exit(p)
  BY <1>0, <1>1 DEF process_init, process_ready, process_exit, TypeInv, TypeOK
<1>2. CASE \E t \in Thread, prio \in Priorities : process_add_thread(t, prio)
  BY <1>0, <1>2, AddThreadFit, Zenon DEF process_add_thread, TypeInv, TypeOK
<1>3. CASE UNCHANGED <<pstate, main>>
  BY <1>0, <1>3 DEF TypeInv, TypeOK
<1> QED
  BY <1>0, <1>1, <1>2, <1>3, Zenon
     DEF Next, EnqueueThread, StartThread, unblock, handle_yield, handle_sched_block,
         handle_sched_set_priority, Tick

\* Every step keeps the types and an executing thread.
LEMMA StepTypeInv == TypeInv /\ [Next]_vars => TypeInv'
<1> SUFFICES ASSUME TypeInv, [Next]_vars
             PROVE  TypeInv'
  OBVIOUS
<1>1. CASE UNCHANGED vars
  BY <1>1 DEF vars, TypeInv, TypeOK, Current
<1>2. CASE Next
  <2>1. sched' \in SchedType /\ sched'.current \in Thread /\ leftover' \subseteq Thread
    BY <1>2, StepFit, TickTyped DEF Fit
  <2> QED BY <1>2, <2>1, ProcessTyped DEF TypeInv, TypeOK, Current
<1> QED BY <1>1, <1>2

\* For every workload, the timer included, the scheduler's fields keep their
\* types: no list operation, undo or exit path of sched.c, process.c or the
\* scheduling system calls leaves a dangling link, a counter out of range or
\* an unknown state, and some thread always has the CPU.
THEOREM TypeCorrect == Spec => []TypeOK
<1>1. TypeInv => TypeOK
  BY DEF TypeInv
<1> QED BY <1>1, InitTypeInv, StepTypeInv, PTL DEF Spec

\* Without the timer callback (the kernel installs none) at most one thread
\* is RUNNING and it is s_current, for any number of threads, processes and
\* bands: the inductive invariant is TypeInv /\ OneRunning.
THEOREM OneRunningCorrect ==
  ASSUME "tick" \notin Syscalls
  PROVE  Spec => []OneRunning
<1> DEFINE IInv == TypeInv /\ OneRunning
<1>1. Init => IInv
  <2>1. ASSUME Init PROVE OneRunning
    <3>1. \A t \in Thread : sched.state[t] = IF t = Boot THEN "RUNNING" ELSE "NONE"
      BY <2>1 DEF Init
    <3>2. Current = Boot
      BY <2>1 DEF Init, Current
    <3> QED BY <3>1, <3>2 DEF OneRunning
  <2> QED BY <2>1, InitTypeInv
<1>2. IInv /\ [Next]_vars => IInv'
  <2> SUFFICES ASSUME IInv, [Next]_vars
               PROVE  OneRunning'
    BY StepTypeInv
  <2>1. CASE UNCHANGED vars
    BY <2>1 DEF vars, OneRunning, Current
  <2>2. CASE Next
    <3>1. ~Tick
      BY DEF Tick
    <3>2. Fit(sched')
      BY <2>2, <3>1, StepFit
    <3> QED BY <3>2 DEF Fit, OneRun, OneRunning, Current
  <2> QED BY <2>1, <2>2
<1>3. IInv => OneRunning
  OBVIOUS
<1> QED BY <1>1, <1>2, <1>3, PTL DEF Spec
=============================================================================
