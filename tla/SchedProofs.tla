---------------------------- MODULE SchedProofs ----------------------------
(***************************************************************************)
(* Lemmas on the run queue operators of module Sched: each of them keeps   *)
(* a scheduler state well typed, and what each does to thread states.      *)
(***************************************************************************)
EXTENDS Sched, TLAPS

LOCAL INSTANCE WellFoundedInduction

\* LeastBand, the loop over the bands in sched_dequeue and queue_remove, finds
\* a member of every non-empty set of bands.
LEMMA LeastBandExists ==
  ASSUME NEW S \in SUBSET Nat, S # {}
  PROVE  LeastBand(S) \in S
<1> DEFINE R == {p \in Nat \X Nat : p[1] < p[2]}
<1>1. IsWellFoundedOn(R, Nat)
  BY NatLessThanWellFounded, Zenon DEF OpToRel
<1>2. PICK x \in S : \A y \in S : ~ (<<y, x>> \in R)
  <2> HIDE DEF R
  <2> QED BY <1>1, WFMin, Zenon
<1>3. ASSUME NEW y \in S PROVE x <= y
  <2> SUFFICES ASSUME y < x PROVE FALSE
    BY SMT
  <2> DEFINE yx == <<y, x>>
  <2>1. yx \in Nat \X Nat /\ yx[1] < yx[2]
    BY SMT
  <2>2. yx \in R
    <3> HIDE DEF yx
    <3> QED BY <2>1, Zenon
  <2> QED BY <1>2, <2>2, Zenon
<1> QED BY <1>3, Zenon DEF LeastBand

-----------------------------------------------------------------------------
(* Well-typedness.                                                         *)

\* The state with its queue fields replaced.
QueueUpdate(s, hd, tl, nx, n, m) ==
  [s EXCEPT !.head = hd, !.tail = tl, !.next = nx, !.total = n, !.mode = m]

\* sched_dequeue returns a thread or NULL and touches the queues only.
LEMMA DequeueType ==
  ASSUME NEW s \in SchedType
  PROVE  /\ DequeueResult(s) \in Thread \cup {NULL}
         /\ sched_dequeue(s) \in SchedType
         /\ sched_dequeue(s).state = s.state
         /\ sched_dequeue(s).current = s.current
<1>1. CASE NonEmptyBands(s) = {}
  BY <1>1 DEF DequeueResult, sched_dequeue
<1>2. CASE NonEmptyBands(s) # {}
  <2> DEFINE i == LeastBand(NonEmptyBands(s))
             t == s.head[i]
  <2>1. i \in NonEmptyBands(s)
    <3>1. NonEmptyBands(s) \in SUBSET Nat
      BY SchedConstants DEF NonEmptyBands, Prio
    <3> QED BY <1>2, <3>1, LeastBandExists
  <2>2. i \in Prio /\ t \in Thread
    BY <2>1 DEF NonEmptyBands, SchedType
  <2>3. DequeueResult(s) = t
    BY <1>2 DEF DequeueResult
  <2> DEFINE hd == [s.head EXCEPT ![i] = s.next[t]]
             tl == [s.tail EXCEPT ![i] = IF s.next[t] = NULL THEN NULL ELSE @]
             nx == [s.next EXCEPT ![t] = NULL]
             m  == ModeAfterLeave(s)
  <2>4. sched_dequeue(s) = QueueUpdate(s, hd, tl, nx, s.total - 1, m)
    BY <1>2 DEF sched_dequeue, SchedType, QueueUpdate
  <2>5. /\ hd \in [Prio -> Thread \cup {NULL}] /\ tl \in [Prio -> Thread \cup {NULL}]
        /\ nx \in [Thread -> Thread \cup {NULL}] /\ s.total - 1 \in Int
        /\ m \in {"IDLE", "RUNNING", "PREEMPT"}
    <3> HIDE DEF i
    <3> QED BY <2>2 DEF SchedType, ModeAfterLeave
  <2> HIDE DEF hd, tl, nx, m, i
  <2>6. /\ QueueUpdate(s, hd, tl, nx, s.total - 1, m) \in SchedType
      /\ QueueUpdate(s, hd, tl, nx, s.total - 1, m).state = s.state
      /\ QueueUpdate(s, hd, tl, nx, s.total - 1, m).current = s.current
    BY <2>5, Zenon DEF QueueUpdate, SchedType
  <2> QED BY <2>2, <2>3, <2>4, <2>6, Zenon
<1> QED BY <1>1, <1>2

\* sched_enqueue touches the queues only.
LEMMA EnqueueType ==
  ASSUME NEW s \in SchedType, NEW t \in Thread
  PROVE  /\ sched_enqueue(s, t) \in SchedType
         /\ sched_enqueue(s, t).state = s.state
         /\ sched_enqueue(s, t).current = s.current
<1>1. CASE ~ EnqueueOk(s, t)
  BY <1>1 DEF sched_enqueue
<1>2. CASE EnqueueOk(s, t)
  <2> DEFINE i  == s.priority[t]
             hd == [s.head EXCEPT ![i] = IF s.tail[i] = NULL THEN t ELSE @]
             tl == [s.tail EXCEPT ![i] = t]
             nx == [u \in Thread |-> IF u = s.tail[i] THEN t
                                     ELSE IF u = t THEN NULL ELSE s.next[u]]
  <2>0. i \in Prio
    BY <1>2 DEF EnqueueOk
  <2>1. sched_enqueue(s, t) = QueueUpdate(s, hd, tl, nx, s.total + 1, "RUNNING")
    BY <1>2 DEF sched_enqueue, Append_to_band, SchedType, QueueUpdate
  <2>2. /\ hd \in [Prio -> Thread \cup {NULL}] /\ tl \in [Prio -> Thread \cup {NULL}]
        /\ nx \in [Thread -> Thread \cup {NULL}] /\ s.total + 1 \in Int
        /\ "RUNNING" \in {"IDLE", "RUNNING", "PREEMPT"}
    <3> HIDE DEF i
    <3> QED BY <2>0 DEF SchedType
  <2> HIDE DEF hd, tl, nx
  <2>3. /\ QueueUpdate(s, hd, tl, nx, s.total + 1, "RUNNING") \in SchedType
      /\ QueueUpdate(s, hd, tl, nx, s.total + 1, "RUNNING").state = s.state
      /\ QueueUpdate(s, hd, tl, nx, s.total + 1, "RUNNING").current = s.current
    BY <2>2, Zenon DEF QueueUpdate, SchedType
  <2> QED BY <2>1, <2>3, Zenon
<1> QED BY <1>1, <1>2

\* queue_remove touches the queues only.
LEMMA RemoveType ==
  ASSUME NEW s \in SchedType, NEW t \in Thread
  PROVE  /\ queue_remove(s, t) \in SchedType
         /\ queue_remove(s, t).state = s.state
         /\ queue_remove(s, t).current = s.current
<1> DEFINE i  == LeastBand({b \in Prio : queue_contains(s, b, t)})
           p  == Prev(s, i, t)
           hd == [s.head EXCEPT ![i] = IF @ = t THEN s.next[t] ELSE @]
           w  == IF p = {} THEN NULL ELSE CHOOSE u \in p : TRUE
           tl == [s.tail EXCEPT ![i] = IF @ # t THEN @ ELSE w]
           nx == [u \in Thread |-> IF u = t THEN NULL
                                   ELSE IF u \in p THEN s.next[t] ELSE s.next[u]]
           m  == ModeAfterLeave(s)
<1>1. queue_remove(s, t) = QueueUpdate(s, hd, tl, nx, s.total - 1, m)
  <2> HIDE DEF i
  <2> QED BY ZenonT(60) DEF queue_remove, Unlink, SchedType, QueueUpdate, i
<1>2. p \subseteq Thread
  BY DEF Prev
<1>3. w \in Thread \cup {NULL}
  <2> HIDE DEF p
  <2> QED BY <1>2
<1>4. /\ hd \in [Prio -> Thread \cup {NULL}] /\ tl \in [Prio -> Thread \cup {NULL}]
      /\ nx \in [Thread -> Thread \cup {NULL}] /\ s.total - 1 \in Int
      /\ m \in {"IDLE", "RUNNING", "PREEMPT"}
  <2> HIDE DEF i, p, w
  <2>1. /\ s.head \in [Prio -> Thread \cup {NULL}]
        /\ s.tail \in [Prio -> Thread \cup {NULL}]
        /\ s.next \in [Thread -> Thread \cup {NULL}]
    BY DEF SchedType
  <2>2. hd \in [Prio -> Thread \cup {NULL}]
    BY <2>1, Zenon
  <2>3. tl \in [Prio -> Thread \cup {NULL}]
    BY <2>1, <1>3, Zenon
  <2>4. nx \in [Thread -> Thread \cup {NULL}]
    BY <2>1
  <2>5. s.total - 1 \in Int /\ m \in {"IDLE", "RUNNING", "PREEMPT"}
    BY DEF SchedType, ModeAfterLeave
  <2> QED BY <2>2, <2>3, <2>4, <2>5
<1> HIDE DEF hd, tl, nx, m
<1>5. /\ QueueUpdate(s, hd, tl, nx, s.total - 1, m) \in SchedType
      /\ QueueUpdate(s, hd, tl, nx, s.total - 1, m).state = s.state
      /\ QueueUpdate(s, hd, tl, nx, s.total - 1, m).current = s.current
  BY <1>4, Zenon DEF QueueUpdate, SchedType
<1> QED BY <1>1, <1>5, Zenon

-----------------------------------------------------------------------------
(* The operations on a thread.                                             *)

\* At most one thread is RUNNING, the current one.
OneRun(s) == \A t \in Thread : s.state[t] = "RUNNING" => t = s.current

NoneRun(s) == \A t \in Thread : s.state[t] # "RUNNING"

\* Setting a thread's state, or its ticks and the preemption request.
LEMMA SetStateType ==
  ASSUME NEW s \in SchedType, NEW t \in Thread, NEW st \in ThreadState
  PROVE  /\ [s EXCEPT !.state[t] = st] \in SchedType
         /\ [s EXCEPT !.state[t] = st].state = [s.state EXCEPT ![t] = st]
         /\ [s EXCEPT !.state[t] = st].current = s.current
BY DEF SchedType

\* Requeue makes the thread READY and changes no other thread's state.
LEMMA RequeueType ==
  ASSUME NEW s \in SchedType, NEW t \in Thread
  PROVE  /\ Requeue(s, t) \in SchedType
         /\ Requeue(s, t).state = [s.state EXCEPT ![t] = "READY"]
         /\ Requeue(s, t).current = s.current
<1> DEFINE r == [s EXCEPT !.state[t] = "READY", !.ticks[t] = QUANTUM, !.preempt = FALSE]
<1>1. /\ r \in SchedType
      /\ r.state = [s.state EXCEPT ![t] = "READY"]
      /\ r.current = s.current
  <2> DEFINE st == [s.state EXCEPT ![t] = "READY"]
             tk == [s.ticks EXCEPT ![t] = QUANTUM]
  <2>1. st \in [Thread -> ThreadState]
    BY DEF SchedType, ThreadState
  <2>2. tk \in [Thread -> 0 .. QUANTUM]
    BY SchedConstants DEF SchedType
  <2>3. r = [s EXCEPT !.state = st, !.ticks = tk, !.preempt = FALSE]
    BY DEF SchedType
  <2> HIDE DEF st, tk, r
  <2>4. r \in SchedType /\ r.state = st /\ r.current = s.current
    BY <2>1, <2>2, <2>3, Zenon DEF SchedType
  <2> QED BY <2>4 DEF st
<1> HIDE DEF r
<1>2. Requeue(s, t) = sched_enqueue(r, t)
  BY DEF Requeue, r
<1> QED BY <1>1, <1>2, EnqueueType

\* A switch makes its target the current and RUNNING thread.
LEMMA SwitchType ==
  ASSUME NEW s \in SchedType, NEW t \in Thread
  PROVE  /\ sched_context_switch(s, t) \in SchedType
         /\ sched_context_switch(s, t).state = [s.state EXCEPT ![t] = "RUNNING"]
         /\ sched_context_switch(s, t).current = t
BY Zenon DEF sched_context_switch, SchedType, ThreadState

\* So it establishes OneRun when the thread it leaves is not RUNNING.
LEMMA SwitchOneRun ==
  ASSUME NEW s \in SchedType, NEW t \in Thread, NoneRun(s)
  PROVE  OneRun(sched_context_switch(s, t))
<1>1. s.state \in [Thread -> ThreadState]
  BY DEF SchedType
<1> DEFINE r == sched_context_switch(s, t)
<1>2. r.state = [s.state EXCEPT ![t] = "RUNNING"] /\ r.current = t
  BY SwitchType
<1> HIDE DEF r
<1>3. OneRun(r)
  BY <1>1, <1>2 DEF OneRun, NoneRun
<1> QED BY <1>3 DEF r

\* The same, with the types.
LEMMA SwitchSafe ==
  ASSUME NEW s \in SchedType, NEW t \in Thread
  PROVE  /\ sched_context_switch(s, t) \in SchedType
         /\ sched_context_switch(s, t).current \in Thread
         /\ NoneRun(s) => OneRun(sched_context_switch(s, t))
BY SwitchType, SwitchOneRun, Zenon

\* sched_block stops the thread.
LEMMA BlockType ==
  ASSUME NEW s \in SchedType, NEW t \in Thread
  PROVE  /\ sched_block(s, t) \in SchedType
         /\ BlockOk(s, t) => sched_block(s, t).state = [s.state EXCEPT ![t] = "BLOCKED"]
         /\ sched_block(s, t).current = s.current
<1> DEFINE r == IF s.state[t] = "READY" THEN queue_remove(s, t) ELSE s
<1>1. r \in SchedType /\ r.state = s.state /\ r.current = s.current
  BY RemoveType
<1>2. sched_block(s, t) = IF BlockOk(s, t) THEN [r EXCEPT !.state[t] = "BLOCKED"] ELSE s
  BY DEF sched_block
<1> HIDE DEF r
<1>3. "BLOCKED" \in ThreadState
  BY DEF ThreadState
<1> QED BY <1>1, <1>2, <1>3, SetStateType

\* sched_unblock makes no thread RUNNING.
LEMMA UnblockType ==
  ASSUME NEW s \in SchedType, NEW t \in Thread
  PROVE  /\ sched_unblock(s, t) \in SchedType
         /\ sched_unblock(s, t).state \in {s.state, [s.state EXCEPT ![t] = "READY"]}
         /\ sched_unblock(s, t).current = s.current
<1> DEFINE r == [s EXCEPT !.state[t] = "READY"]
<1>1. "READY" \in ThreadState
  BY DEF ThreadState
<1>2. /\ r \in SchedType
      /\ r.state = [s.state EXCEPT ![t] = "READY"]
      /\ r.current = s.current
  BY <1>1, SetStateType
<1>3. sched_unblock(s, t) = IF s.state[t] # "BLOCKED" THEN s ELSE sched_enqueue(r, t)
  BY DEF sched_unblock
<1> HIDE DEF r
<1> QED BY <1>2, <1>3, EnqueueType

-----------------------------------------------------------------------------
(* Giving up the CPU.                                                      *)

\* handle_yield leaves the old thread READY before it switches.
LEMMA YieldCpuSafe ==
  ASSUME NEW s \in SchedType, s.current \in Thread
  PROVE  /\ YieldCpu(s, s.current) \in SchedType
         /\ YieldCpu(s, s.current).current \in Thread
         /\ OneRun(s) => OneRun(YieldCpu(s, s.current))
<1> DEFINE t == s.current
           y == sched_yield(s, t)
           n == DequeueResult(y)
           d == sched_dequeue(y)
<1>1. s.state \in [Thread -> ThreadState]
  BY DEF SchedType
<1>2. CASE s.state[t] # "RUNNING"
  <2>1. YieldCpu(s, t) = s
    BY <1>2 DEF YieldCpu, YieldOk, sched_yield
  <2> QED BY <2>1
<1>3. CASE s.state[t] = "RUNNING"
  <2>1. y = Requeue(s, t)
    BY <1>3 DEF sched_yield
  <2> HIDE DEF y
  <2>2. y \in SchedType /\ y.state = [s.state EXCEPT ![t] = "READY"] /\ y.current = t
    BY <2>1, RequeueType
  <2>3. OneRun(s) => NoneRun(y)
    BY <1>1, <2>2 DEF NoneRun, OneRun
  <2> HIDE DEF n, d
  <2>4. n \in Thread \cup {NULL} /\ d \in SchedType /\ d.state = y.state
    BY <2>2, DequeueType DEF n, d
  <2>5. OneRun(s) => NoneRun(d)
    BY <2>3, <2>4 DEF NoneRun
  <2>6. OneRun(s) => OneRun(y)
    BY <2>3 DEF NoneRun, OneRun
  <2>7. YieldCpu(s, t) = IF ~ YieldOk(s, t) THEN y
                         ELSE IF n = NULL THEN sched_context_switch(y, t)
                         ELSE sched_context_switch(d, n)
    BY DEF YieldCpu, y, n, d
  <2>8. CASE ~ YieldOk(s, t)
    BY <2>2, <2>6, <2>7, <2>8
  <2>9. CASE YieldOk(s, t) /\ n = NULL
    <3>1. YieldCpu(s, t) = sched_context_switch(y, t)
      BY <2>7, <2>9
    <3>2. /\ sched_context_switch(y, t) \in SchedType
          /\ sched_context_switch(y, t).current \in Thread
          /\ OneRun(s) => OneRun(sched_context_switch(y, t))
      BY <2>2, <2>3, SwitchSafe
    <3> QED BY <3>1, <3>2, Zenon
  <2>10. CASE YieldOk(s, t) /\ n # NULL
    <3>1. n \in Thread
      BY <2>4, <2>10
    <3>2. YieldCpu(s, t) = sched_context_switch(d, n)
      BY <2>7, <2>10
    <3>3. /\ sched_context_switch(d, n) \in SchedType
          /\ sched_context_switch(d, n).current \in Thread
          /\ OneRun(s) => OneRun(sched_context_switch(d, n))
      BY <2>4, <2>5, <3>1, SwitchSafe
    <3> QED BY <3>2, <3>3, Zenon
  <2> QED BY <2>8, <2>9, <2>10
<1> QED BY <1>2, <1>3

\* The blocking calls leave the old thread BLOCKED before they switch, and
\* make it RUNNING again when there is nothing to switch to.
LEMMA BlockCpuSafe ==
  ASSUME NEW s \in SchedType, s.current \in Thread, BlockOk(s, s.current)
  PROVE  /\ BlockCpu(s, s.current) \in SchedType
         /\ BlockCpu(s, s.current).current \in Thread
         /\ OneRun(s) => OneRun(BlockCpu(s, s.current))
<1> DEFINE t == s.current
           b == sched_block(s, t)
           n == DequeueResult(b)
           d == sched_dequeue(b)
<1>1. s.state \in [Thread -> ThreadState]
  BY DEF SchedType
<1>2. b \in SchedType /\ b.state = [s.state EXCEPT ![t] = "BLOCKED"]
  BY BlockType
<1> HIDE DEF b
<1>3. OneRun(s) => NoneRun(b)
  BY <1>1, <1>2 DEF NoneRun, OneRun
<1> HIDE DEF n, d
<1>4. n \in Thread \cup {NULL} /\ d \in SchedType /\ d.state = b.state
  BY <1>2, DequeueType DEF n, d
<1>5. OneRun(s) => NoneRun(d)
  BY <1>3, <1>4 DEF NoneRun
<1>6. BlockCpu(s, t) = IF n = NULL THEN UndoBlock(b, t) ELSE sched_context_switch(d, n)
  BY DEF BlockCpu, NothingToRun, b, n, d
<1>7. CASE n = NULL
  <2> DEFINE r == [b EXCEPT !.state[t] = "READY"]
             e == sched_enqueue(r, t)
  <2>1. "READY" \in ThreadState
    BY DEF ThreadState
  <2>2. r \in SchedType /\ r.state = [b.state EXCEPT ![t] = "READY"]
    BY <1>2, <2>1, SetStateType
  <2> HIDE DEF r
  <2>3. e \in SchedType /\ e.state = r.state
    BY <2>2, EnqueueType
  <2> HIDE DEF e
  <2>4. OneRun(s) => NoneRun(e)
    BY <1>1, <1>2, <1>3, <2>2, <2>3 DEF NoneRun
  <2>5. UndoBlock(b, t) = sched_context_switch(e, t)
    BY DEF UndoBlock, e, r
  <2>6. BlockCpu(s, t) = sched_context_switch(e, t)
    BY <1>6, <1>7, <2>5
  <2>7. /\ sched_context_switch(e, t) \in SchedType
        /\ sched_context_switch(e, t).current \in Thread
        /\ OneRun(s) => OneRun(sched_context_switch(e, t))
    BY <2>3, <2>4, SwitchSafe
  <2> QED BY <2>6, <2>7, Zenon
<1>8. CASE n # NULL
  <2>1. n \in Thread
    BY <1>4, <1>8
  <2>2. BlockCpu(s, t) = sched_context_switch(d, n)
    BY <1>6, <1>8
  <2>3. /\ sched_context_switch(d, n) \in SchedType
        /\ sched_context_switch(d, n).current \in Thread
        /\ OneRun(s) => OneRun(sched_context_switch(d, n))
    BY <1>4, <1>5, <2>1, SwitchSafe
  <2> QED BY <2>2, <2>3, Zenon
<1> QED BY <1>7, <1>8

-----------------------------------------------------------------------------
(* Ticks.                                                                  *)

\* sched_tick keeps ticks_remaining within the quantum.
LEMMA TickType ==
  ASSUME NEW s \in SchedType, NEW t \in Thread
  PROVE  sched_tick(s, t) \in SchedType /\ sched_tick(s, t).current = s.current
<1> DEFINE left == IF s.ticks[t] > 0 THEN s.ticks[t] - 1 ELSE 0
           tk   == [s.ticks EXCEPT ![t] = left]
<1>1. s.ticks \in [Thread -> 0 .. QUANTUM]
  BY DEF SchedType
<1>2. left \in 0 .. QUANTUM
  BY <1>1, SchedConstants
<1>3. tk \in [Thread -> 0 .. QUANTUM]
  BY <1>1, <1>2
<1>4. sched_tick(s, t) = IF left = 0
                         THEN [s EXCEPT !.ticks = tk, !.preempt = TRUE, !.mode = "PREEMPT"]
                         ELSE [s EXCEPT !.ticks = tk]
  <2> HIDE DEF left
  <2>1. left = 0 => [s EXCEPT !.ticks = tk, !.preempt = TRUE, !.mode = "PREEMPT"] =
                      [s EXCEPT !.ticks[t] = 0, !.preempt = TRUE, !.mode = "PREEMPT"]
    BY DEF SchedType
  <2> QED BY <2>1, Zenon DEF sched_tick, SchedType, left
<1> HIDE DEF left, tk
<1>5. /\ [s EXCEPT !.ticks = tk, !.preempt = TRUE, !.mode = "PREEMPT"] \in SchedType
      /\ [s EXCEPT !.ticks = tk, !.preempt = TRUE, !.mode = "PREEMPT"].current = s.current
  BY <1>3, Zenon DEF SchedType
<1>6. [s EXCEPT !.ticks = tk] \in SchedType /\ [s EXCEPT !.ticks = tk].current = s.current
  BY <1>3, Zenon DEF SchedType
<1>7. CASE left = 0
  <2>1. sched_tick(s, t) = [s EXCEPT !.ticks = tk, !.preempt = TRUE, !.mode = "PREEMPT"]
    BY <1>4, <1>7
  <2> QED BY <1>5, <2>1, Zenon
<1>8. CASE left # 0
  <2>1. sched_tick(s, t) = [s EXCEPT !.ticks = tk]
    BY <1>4, <1>8
  <2> QED BY <1>6, <2>1, Zenon
<1> QED BY <1>7, <1>8

\* sched_next returns a thread or NULL.
LEMMA NextType ==
  ASSUME NEW s \in SchedType, NEW t \in Thread
  PROVE  /\ sched_next(s, t) \in SchedType
         /\ sched_next(s, t).current = s.current
         /\ NextResult(s, t) \in Thread \cup {NULL}
<1> DEFINE p == PreemptRequeue(s, t)
           n == DequeueResult(p)
           d == sched_dequeue(p)
<1>1. p \in SchedType /\ p.current = s.current
  BY RequeueType, Zenon DEF PreemptRequeue
<1> HIDE DEF p
<1>2. n \in Thread \cup {NULL} /\ d \in SchedType /\ d.current = s.current
  BY <1>1, DequeueType
<1> HIDE DEF n, d
<1>3. NextResult(s, t) \in Thread \cup {NULL}
  BY <1>2 DEF NextResult, n, p
<1>4. CASE n = NULL
  BY <1>1, <1>3, <1>4 DEF sched_next, n, p, SchedType
<1>5. CASE n # NULL
  <2> DEFINE tk == [d.ticks EXCEPT ![n] = IF @ = 0 THEN QUANTUM ELSE @]
  <2>0. d.ticks \in [Thread -> 0 .. QUANTUM] /\ QUANTUM \in 0 .. QUANTUM
    BY <1>2, SchedConstants DEF SchedType
  <2>1. tk \in [Thread -> 0 .. QUANTUM]
    BY <2>0, Zenon
  <2>2. sched_next(s, t) = [d EXCEPT !.ticks = tk]
    BY <1>2, <1>5 DEF sched_next, n, d, p, SchedType
  <2> HIDE DEF tk
  <2>3. sched_next(s, t) \in SchedType /\ sched_next(s, t).current = s.current
    BY <1>2, <2>1, <2>2 DEF SchedType
  <2> QED BY <1>3, <2>3
<1> QED BY <1>4, <1>5

-----------------------------------------------------------------------------
(* Who is BLOCKED.                                                         *)

\* No thread but those of E is BLOCKED in r that was not BLOCKED in s.
NoNewBlocked(s, r, E) ==
  \A u \in Thread \ E : r.state[u] = "BLOCKED" => s.state[u] = "BLOCKED"

\* sched_unblock takes the thread out of BLOCKED, also when it cannot be queued.
LEMMA UnblockWakes ==
  ASSUME NEW s \in SchedType, NEW t \in Thread
  PROVE  /\ sched_unblock(s, t).state[t] # "BLOCKED"
         /\ NoNewBlocked(s, sched_unblock(s, t), {})
<1> DEFINE r == [s EXCEPT !.state[t] = "READY"]
           e == sched_enqueue(r, t)
<1>1. s.state \in [Thread -> ThreadState] /\ "READY" \in ThreadState
  BY DEF SchedType, ThreadState
<1>2. r \in SchedType /\ r.state = [s.state EXCEPT ![t] = "READY"]
  BY <1>1, SetStateType
<1>3. sched_unblock(s, t) = IF s.state[t] # "BLOCKED" THEN s ELSE e
  BY DEF sched_unblock
<1> HIDE DEF r
<1>4. e.state = r.state
  BY <1>2, EnqueueType
<1> HIDE DEF e
<1> QED BY <1>1, <1>2, <1>3, <1>4 DEF NoNewBlocked

\* A yield blocks nobody.
LEMMA YieldCpuBlocks ==
  ASSUME NEW s \in SchedType, s.current \in Thread,
         s.state[s.current] # "BLOCKED"
  PROVE  LET r == YieldCpu(s, s.current) IN
         NoNewBlocked(s, r, {}) /\ r.state[r.current] # "BLOCKED"
<1> DEFINE t == s.current
           y == sched_yield(s, t)
           n == DequeueResult(y)
           d == sched_dequeue(y)
           r == YieldCpu(s, t)
<1>1. s.state \in [Thread -> ThreadState]
  BY DEF SchedType
<1>2. y \in SchedType /\ y.state \in {s.state, [s.state EXCEPT ![t] = "READY"]} /\ y.current = t
  BY RequeueType DEF sched_yield
<1>3. r = IF ~ YieldOk(s, t) THEN y
          ELSE IF n = NULL THEN sched_context_switch(y, t)
          ELSE sched_context_switch(d, n)
  BY DEF YieldCpu
<1> HIDE DEF y, r
<1>4. n \in Thread \cup {NULL} /\ d \in SchedType /\ d.state = y.state
  BY <1>2, DequeueType
<1> HIDE DEF n, d
<1>5. NoNewBlocked(s, y, {}) /\ y.state[t] # "BLOCKED"
  BY <1>1, <1>2 DEF NoNewBlocked
<1>6. y.state \in [Thread -> ThreadState]
  BY <1>2 DEF SchedType
<1>7. CASE ~ YieldOk(s, t)
  BY <1>2, <1>3, <1>5, <1>7 DEF r
<1>8. CASE YieldOk(s, t) /\ n = NULL
  <2>1. r = sched_context_switch(y, t)
    BY <1>3, <1>8
  <2>2. r.state = [y.state EXCEPT ![t] = "RUNNING"] /\ r.current = t
    BY <1>2, <2>1, SwitchType
  <2> QED BY <1>5, <1>6, <2>2 DEF NoNewBlocked, r
<1>9. CASE YieldOk(s, t) /\ n # NULL
  <2>1. r = sched_context_switch(d, n)
    BY <1>3, <1>9
  <2>2. r.state = [y.state EXCEPT ![n] = "RUNNING"] /\ r.current = n
    BY <1>4, <1>9, <2>1, SwitchType
  <2> QED BY <1>4, <1>5, <1>6, <1>9, <2>2 DEF NoNewBlocked, r
<1> QED BY <1>7, <1>8, <1>9

\* A blocking call blocks its caller only, and not even that when it is undone.
LEMMA BlockCpuBlocks ==
  ASSUME NEW s \in SchedType, s.current \in Thread, BlockOk(s, s.current)
  PROVE  LET r == BlockCpu(s, s.current) IN
         /\ NoNewBlocked(s, r, IF NothingToRun(s, s.current) THEN {} ELSE {s.current})
         /\ NothingToRun(s, s.current) => r.state[s.current] # "BLOCKED"
         /\ r.state[r.current] # "BLOCKED"
<1> DEFINE t == s.current
           b == sched_block(s, t)
           n == DequeueResult(b)
           d == sched_dequeue(b)
           q == BlockCpu(s, t)
<1>1. s.state \in [Thread -> ThreadState] /\ "READY" \in ThreadState
  BY DEF SchedType, ThreadState
<1>2. b \in SchedType /\ b.state = [s.state EXCEPT ![t] = "BLOCKED"]
  BY BlockType
<1>3. q = IF n = NULL THEN UndoBlock(b, t) ELSE sched_context_switch(d, n)
  BY DEF BlockCpu, NothingToRun
<1>4. NothingToRun(s, t) <=> n = NULL
  BY DEF NothingToRun
<1> HIDE DEF b, q
<1>5. n \in Thread \cup {NULL} /\ d \in SchedType /\ d.state = b.state
  BY <1>2, DequeueType
<1>6. CASE n = NULL
  <2> DEFINE r == [b EXCEPT !.state[t] = "READY"]
             e == sched_enqueue(r, t)
  <2>1. r \in SchedType /\ r.state = [b.state EXCEPT ![t] = "READY"]
    BY <1>1, <1>2, SetStateType
  <2>2. q = sched_context_switch(e, t)
    BY <1>3, <1>6 DEF UndoBlock
  <2> HIDE DEF r
  <2>3. e \in SchedType /\ e.state = r.state
    BY <2>1, EnqueueType
  <2> HIDE DEF e
  <2>4. q.state = [e.state EXCEPT ![t] = "RUNNING"] /\ q.current = t
    BY <2>2, <2>3, SwitchType
  <2>5. q.state = [s.state EXCEPT ![t] = "RUNNING"]
    BY <1>1, <1>2, <2>1, <2>3, <2>4, SMTT(30)
  <2>6. NoNewBlocked(s, q, {}) /\ q.state[t] # "BLOCKED" /\ q.state[q.current] # "BLOCKED"
    BY <1>1, <2>4, <2>5 DEF NoNewBlocked
  <2> QED BY <1>4, <1>6, <2>6 DEF q
<1>7. CASE n # NULL
  <2> HIDE DEF n, d
  <2>1. q = sched_context_switch(d, n)
    BY <1>3, <1>7
  <2>2. q.state = [d.state EXCEPT ![n] = "RUNNING"] /\ q.current = n
    BY <1>5, <1>7, <2>1, SwitchType
  <2>3. NoNewBlocked(s, q, {t}) /\ q.state[q.current] # "BLOCKED"
    BY <1>1, <1>2, <1>5, <1>7, <2>2 DEF NoNewBlocked
  <2> QED BY <1>4, <1>7, <2>3 DEF q
<1> QED BY <1>6, <1>7
=============================================================================
