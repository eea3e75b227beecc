------------------------------- MODULE Kernel -------------------------------
(***************************************************************************)
(* The kernel core every other module is built on: ready table, priority   *)
(* bitmap, running thread, scheduler lock, suspend lists, thread timers    *)
(* and the tick interrupt (src/scheduler.c, src/thread.c, src/timer.c,     *)
(* src/clock.c, the list helpers of src/ipc.c).                            *)
(*                                                                         *)
(* The kernel's globals and the thread control blocks form one record k.   *)
(* Each routine that runs with interrupts disabled is an operator from a   *)
(* kernel record to the next one and keeps the routine's name, so that a   *)
(* routine that calls another applies its operator.  A component module    *)
(* turns every region between two interrupt-enable points into an action.  *)
(*                                                                         *)
(* There is one core: k.cur alone executes thread code, and an interrupt   *)
(* (isr) may run between any two of its steps.  Interrupts do not nest.    *)
(***************************************************************************)
EXTENDS Integers, Sequences, FiniteSets, SequencesExt

CONSTANTS Thread,      \* thread control blocks
          Idle,        \* the idle thread (idle.c)
          NoThread,    \* RT_NULL
          PrioMax,     \* RT_THREAD_PRIORITY_MAX
          WaitList,    \* suspend_thread lists of the IPC objects in the system
          Defunct,     \* the list rt_thread_defunct
          InitTick,    \* time slice given to every thread at creation
          MaxDelay     \* largest timeout, in ticks, a caller asks for

Prio == 0..(PrioMax - 1)
IdlePrio == PrioMax - 1
ListHead == Prio \cup WaitList \cup {Defunct}

ASSUME ThreadAssumption ==
  /\ Idle \in Thread
  /\ NoThread \notin Thread
ASSUME BoundAssumption ==
  /\ PrioMax \in Nat \ {0}
  /\ InitTick \in Nat \ {0}
  /\ MaxDelay \in Nat
ASSUME ListAssumption ==
  /\ WaitList \cap Prio = {}
  /\ Defunct \notin Prio \cup WaitList

VARIABLES k,     \* globals of the kernel and fields of the thread objects
          isr,   \* "none", or "timer" while rt_timer_check serves the tick
          pc     \* where each thread is in the call it makes; "run" is outside

Stat == {"INIT", "READY", "SUSPEND", "CLOSE"}
Error == {"EOK", "ETIMEOUT", "ERROR"}

KernelState ==
  [stat   : [Thread -> Stat],
   prio   : [Thread -> Prio],          \* current_priority; number_mask = 1 << it
   init   : [Thread -> Prio],          \* init_priority
   err    : [Thread -> Error],
   slice  : [Thread -> 1..InitTick],   \* remaining_tick
   list   : [ListHead -> Seq(Thread)], \* every rt_list_t a tlist node may be on
   group  : SUBSET Prio,               \* rt_thread_ready_priority_group
   cur    : Thread \cup {NoThread},    \* rt_current_thread
   nest   : Nat,                       \* rt_scheduler_lock_nest
   timers : Seq(Thread),               \* active thread timers, soonest first
   left   : [Thread -> Nat]]           \* timeout_tick - rt_tick

-----------------------------------------------------------------------------
(* Lists (rtservice.h) and timers                                          *)

Index(q, t) == CHOOSE i \in DOMAIN q : q[i] = t
Without(q, t) == IF t \in ToSet(q) THEN RemoveAt(q, Index(q, t)) ELSE q

\* Mutation of rt_list_remove: the defunct list keeps the node.
UnlinkReadyOnly(s, t) ==
  [s EXCEPT !.list = [l \in ListHead |-> IF l = Defunct THEN s.list[l] ELSE Without(s.list[l], t)]]

\* rt_list_remove(&thread->tlist): from whatever list the node is on.
rt_list_remove(s, t) ==
  [s EXCEPT !.list = [l \in ListHead |-> Without(s.list[l], t)]]

\* Mutation of rt_timer_stop: the timer keeps running.
StopKeepsTimer(s, t) == s

\* rt_timer_stop, rt_timer_detach: off the list, which clears ACTIVATED too.
rt_timer_stop(s, t) ==
  [s EXCEPT !.timers = Without(@, t), !.left[t] = 0]

\* rt_timer_start after RT_TIMER_CTRL_SET_TIME: behind the timers that expire
\* no later than this one.
rt_timer_start(s, t, delay) ==
  LET q == Without(s.timers, t)
      i == Cardinality({j \in DOMAIN q : s.left[q[j]] <= delay}) + 1
  IN  [s EXCEPT !.timers = InsertAt(q, i, t), !.left[t] = delay]

TimerActive(s, t) == t \in ToSet(s.timers)
TimerExpired(s) == s.timers # <<>> /\ s.left[Head(s.timers)] = 0

-----------------------------------------------------------------------------
(* Scheduler                                                               *)

Highest(s) == CHOOSE p \in s.group : \A q \in s.group : p <= q

\* Mutation of rt_schedule: no test of rt_scheduler_lock_nest.
ScheduleAlways(s) == [s EXCEPT !.cur = Head(s.list[Highest(s)])]

rt_schedule(s) ==
  IF s.nest = 0 THEN [s EXCEPT !.cur = Head(s.list[Highest(s)])] ELSE s

rt_schedule_insert_thread(s, t) ==
  [s EXCEPT !.stat[t] = "READY",
            !.list[s.prio[t]] = Append(@, t),
            !.group = @ \cup {s.prio[t]}]

\* Mutations of rt_schedule_remove_thread: the bit of an emptied queue stays
\* set; the node stays on the queue.
RemoveKeepsBit(s, t) == rt_list_remove(s, t)
RemoveKeepsNode(s, t) == s

rt_schedule_remove_thread(s, t) ==
  LET u == rt_list_remove(s, t)
  IN  [u EXCEPT !.group = IF u.list[s.prio[t]] = <<>> THEN @ \ {s.prio[t]} ELSE @]

rt_enter_critical(s) == [s EXCEPT !.nest = @ + 1]

\* The nesting count only; at zero the caller goes on to rt_schedule.
rt_exit_critical(s) == [s EXCEPT !.nest = IF @ > 0 THEN @ - 1 ELSE 0]

-----------------------------------------------------------------------------
(* Threads                                                                 *)

\* A thread that is not READY is left alone (-RT_ERROR).
rt_thread_suspend(s, t) ==
  IF s.stat[t] # "READY" THEN s
  ELSE rt_timer_stop(rt_schedule_remove_thread([s EXCEPT !.stat[t] = "SUSPEND"], t), t)

\* The first half of rt_thread_resume, up to its interrupt-enable.
ResumeUnlink(s, t) == rt_timer_stop(rt_list_remove(s, t), t)

\* Mutation of rt_thread_resume: the second half is missing.
ResumeHalf(s, t) == IF s.stat[t] # "SUSPEND" THEN s ELSE ResumeUnlink(s, t)

\* The whole of it, as its callers with interrupts disabled see it.
rt_thread_resume(s, t) ==
  IF s.stat[t] # "SUSPEND" THEN s
  ELSE rt_schedule_insert_thread(ResumeUnlink(s, t), t)

\* rt_thread_yield: to the end of its queue, if it shares it, and reschedule.
SharesQueue(s, t) == s.stat[t] = "READY" /\ Len(s.list[s.prio[t]]) > 1
\* Mutation of ToQueueEnd: inserted again without being removed.
AppendAgain(s, t) == [s EXCEPT !.list[s.prio[t]] = Append(@, t)]
ToQueueEnd(s, t) == [rt_list_remove(s, t) EXCEPT !.list[s.prio[t]] = Append(@, t)]
rt_thread_yield(s) ==
  IF SharesQueue(s, s.cur) THEN rt_schedule(ToQueueEnd(s, s.cur)) ELSE s

\* Mutation of ChangePriority: a READY thread stays on its old queue.
PriorityOnly(s, t, p) == [s EXCEPT !.prio[t] = p]

ChangePriority(s, t, p) ==
  IF s.stat[t] = "READY"
  THEN rt_schedule_insert_thread(
         [rt_schedule_remove_thread(s, t) EXCEPT !.prio[t] = p], t)
  ELSE [s EXCEPT !.prio[t] = p]

\* Mutations of rt_thread_timeout: no rescheduling; still on the suspend list;
\* not READY.
TimeoutNoSchedule(s, t) ==
  rt_schedule_insert_thread(rt_list_remove([s EXCEPT !.err[t] = "ETIMEOUT"], t), t)
TimeoutKeepsNode(s, t) ==
  rt_schedule(rt_schedule_insert_thread([s EXCEPT !.err[t] = "ETIMEOUT"], t))
TimeoutNoInsert(s, t) == rt_list_remove([s EXCEPT !.err[t] = "ETIMEOUT"], t)

\* Timeout function of the thread timer, called with the timer taken off.
rt_thread_timeout(s, t) ==
  rt_schedule(rt_schedule_insert_thread(
    rt_list_remove([s EXCEPT !.err[t] = "ETIMEOUT"], t), t))

\* rt_thread_sleep up to its rt_schedule, under one interrupt lock.
rt_thread_sleep(s, t, delay) == rt_timer_start(rt_thread_suspend(s, t), t, delay)

-----------------------------------------------------------------------------
(* Suspend lists of the IPC objects.  A list with the PRIO flag is kept in *)
(* priority order, a thread behind its equals; a FIFO list in call order.  *)

\* Mutation of rt_ipc_list_suspend: always in call order.
SuspendFifo(s, w, t, flag) ==
  [rt_thread_suspend(s, t) EXCEPT !.list[w] = Append(@, t)]

rt_ipc_list_suspend(s, w, t, flag) ==
  LET u == rt_thread_suspend(s, t)
      lower == {i \in DOMAIN u.list[w] : u.prio[t] < u.prio[u.list[w][i]]}
      i == IF flag = "PRIO" /\ lower # {}
           THEN CHOOSE i \in lower : \A j \in lower : i <= j
           ELSE Len(u.list[w]) + 1
  IN  [u EXCEPT !.list[w] = InsertAt(@, i, t)]

rt_ipc_list_resume(s, w) == rt_thread_resume(s, Head(s.list[w]))

Forever == -1  \* RT_WAITING_FOREVER
Timeout == {Forever} \cup 0..MaxDelay

\* The body of the waiting loop up to the interrupt-enable.
BlockOn(s, w, t, flag, time) ==
  LET u == rt_ipc_list_suspend([s EXCEPT !.err[t] = "EOK"], w, t, flag)
  IN  IF time = Forever THEN u ELSE rt_timer_start(u, t, time)

ResumeFirst(s, w) == IF s.list[w] # <<>> THEN rt_ipc_list_resume(s, w) ELSE s

ResumeWithError(s, w) ==
  rt_ipc_list_resume([s EXCEPT !.err[Head(s.list[w])] = "ERROR"], w)

\* rt_ipc_list_resume_all called with interrupts disabled.
rt_ipc_list_resume_all(s, w) ==
  LET after[n \in 0..Len(s.list[w])] ==
        IF n = 0 THEN s ELSE ResumeWithError(after[n - 1], w)
  IN  after[Len(s.list[w])]

-----------------------------------------------------------------------------
(* The tick interrupt.  rt_tick_increase counts the slice of the running   *)
(* thread down and then serves the expired timers one by one with          *)
(* interrupts disabled: one TimerFire step each, no thread step between.   *)

\* Mutation of TickIncrease: the slice is not refilled.
TickNoRefill(s) == [s EXCEPT !.slice[s.cur] = @ - 1]

TickIncrease(s) ==
  LET t == s.cur
      aged == [s EXCEPT !.left = [u \in Thread |-> IF s.left[u] > 0 THEN s.left[u] - 1
                                                   ELSE 0],
                        !.slice[t] = IF @ = 1 THEN InitTick ELSE @ - 1]
  IN  IF s.slice[t] = 1 THEN rt_thread_yield(aged) ELSE aged

TimerFire(s) ==
  LET t == Head(s.timers) IN rt_thread_timeout([s EXCEPT !.timers = Tail(@)], t)

-----------------------------------------------------------------------------
(* Steps of threads and interrupts.                                        *)

Running(t, label) == isr = "none" /\ k.cur = t /\ pc[t] = label
Goto(t, label) == pc' = [pc EXCEPT ![t] = label]

\* A call of rt_schedule with interrupts enabled, between two labels.
ScheduleStep(t, from, to) ==
  /\ Running(t, from)
  /\ k' = rt_schedule(k)
  /\ Goto(t, to)
  /\ UNCHANGED isr

IsrAfter(s) == IF TimerExpired(s) THEN "timer" ELSE "none"

rt_tick_increase ==
  /\ isr = "none"
  /\ k.cur # NoThread
  /\ k' = TickIncrease(k)
  /\ isr' = IsrAfter(k')
  /\ UNCHANGED pc

rt_timer_check ==
  /\ isr = "timer"
  /\ k' = TimerFire(k)
  /\ isr' = IsrAfter(k')
  /\ UNCHANGED pc

-----------------------------------------------------------------------------
(* Power on, and a kernel that has started every thread at its priority in *)
(* initPrio and runs the first of them.                                    *)

PowerOn(initPrio) ==
  [stat |-> [t \in Thread |-> "CLOSE"], prio |-> initPrio, init |-> initPrio,
   err |-> [t \in Thread |-> "EOK"], slice |-> [t \in Thread |-> InitTick],
   list |-> [l \in ListHead |-> <<>>], group |-> {}, cur |-> NoThread,
   nest |-> 0, timers |-> <<>>, left |-> [t \in Thread |-> 0]]

Booted(initPrio) ==
  LET At(p) == {t \in Thread : initPrio[t] = p}
      s == [PowerOn(initPrio) EXCEPT
             !.stat = [t \in Thread |-> "READY"],
             !.list = [l \in ListHead |-> IF l \in Prio THEN SetToSeq(At(l)) ELSE <<>>],
             !.group = {p \in Prio : At(p) # {}}]
  IN  rt_schedule(s)
=============================================================================
