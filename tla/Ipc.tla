-------------------------------- MODULE Ipc ---------------------------------
(***************************************************************************)
(* What the IPC objects with a waiting loop share (src/ipc.c): the timeout *)
(* that is worked out again after each wake-up, and the loop that fails    *)
(* the waiters of a list one by one with interrupts enabled.               *)
(*                                                                         *)
(* The code keeps timeout and tick_delta, the tick at which the wait began *)
(* (the two are written in one region), and on a retry subtracts from      *)
(* timeout the ticks that have passed since.  timeout[t] is here the value *)
(* this subtraction gives if it is done now: the tick counts it down.      *)
(***************************************************************************)
EXTENDS Kernel

CONSTANTS InitPrio,  \* priority each thread is created with
          Prog       \* Prog[t]: the calls thread t makes

\* The idle thread is created with the lowest priority (rt_thread_idle_init).
ASSUME IpcAssumption ==
  /\ IsFiniteSet(Thread)
  /\ InitPrio \in [Thread -> Prio] /\ InitPrio[Idle] = IdlePrio
  /\ DOMAIN Prog = Thread

VARIABLE timeout     \* of the call each thread makes, 0 outside a call

\* The threads run, outside every call.
IpcInit ==
  /\ k = Booted(InitPrio)
  /\ isr = "none"
  /\ pc = [t \in Thread |-> "run"]
  /\ timeout = [t \in Thread |-> 0]

IpcTypeOK ==
  /\ k \in KernelState
  /\ isr \in {"none", "timer"}
  /\ timeout \in [Thread -> Timeout]

Calls(t, op) == Running(t, "run") /\ op \in Prog[t]
WaitsFor(t, time) == timeout' = [timeout EXCEPT ![t] = time]

\* Return with an error, or nothing done: the timeout was a local variable of
\* the call, and thread->error is read by no other call than the one that
\* slept, so that the model forgets both.
Return(t) ==
  /\ k' = [k EXCEPT !.err[t] = "EOK"]
  /\ Goto(t, "run")
  /\ WaitsFor(t, 0)

-----------------------------------------------------------------------------
\* Called with interrupts enabled the list is tested outside the lock.  With
\* an empty list the code takes the list head for a thread: no step here.
CloseList(t, w, loop, resume, next) ==
  \/ /\ Running(t, loop)
     /\ Goto(t, IF k.list[w] # <<>> THEN resume ELSE next)
     /\ UNCHANGED k
  \/ /\ Running(t, resume)
     /\ k.list[w] # <<>>
     /\ k' = ResumeWithError(k, w)
     /\ Goto(t, loop)

-----------------------------------------------------------------------------
\* Mutation of Elapsed: every wait starts with the whole timeout again.
NotElapsed(time) == time
Elapsed(time) == [t \in Thread |-> IF time[t] > 0 THEN time[t] - 1 ELSE time[t]]

IpcTick == rt_tick_increase /\ timeout' = Elapsed(timeout)
IpcTimerCheck == rt_timer_check /\ UNCHANGED timeout
IpcSchedule(t, from, to) == ScheduleStep(t, from, to) /\ UNCHANGED timeout

\* A thread sleeps between two calls (rt_thread_delay).
Pause(t) ==
  /\ Calls(t, "pause")
  /\ k' = rt_thread_sleep(k, t, 1)
  /\ Goto(t, "sched")
  /\ UNCHANGED <<isr, timeout>>
=============================================================================
