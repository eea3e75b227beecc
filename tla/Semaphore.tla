------------------------------ MODULE Semaphore ------------------------------
(***************************************************************************)
(* The counting semaphore of src/ipc.c, used by threads that take with any *)
(* timeout, release, reset and delete it, and by interrupt handlers that   *)
(* release it and try to take it.                                          *)
(*                                                                         *)
(* rt_sem_take is two regions: it decides, or suspends and starts the      *)
(* timer, with interrupts disabled; after rt_schedule it reads the error   *)
(* code that whoever woke it has left in the thread.                       *)
(*                                                                         *)
(* Rules of use: nobody starts a call on a semaphore that is being deleted *)
(* and interrupt handlers leave it alone from then on; unless DeleteTimed, *)
(* nobody waits for it with a timeout when its deletion begins.            *)
(***************************************************************************)
EXTENDS Kernel

CONSTANTS Sem,        \* the semaphore: sem->parent.suspend_thread
          Flag,       \* RT_IPC_FLAG_FIFO or RT_IPC_FLAG_PRIO
          ValueSize,  \* 2^16, the range of sem->value
          InitPrio,
          Prog,       \* Prog[t]: the calls thread t makes
          DeleteTimed \* may it be deleted while a timed waiter sleeps on it?

Op == {"take", "trytake", "takewait", "release", "reset", "delete", "create"}

ASSUME SemAssumption ==
  /\ IsFiniteSet(Thread)
  /\ WaitList = {Sem}
  /\ Flag \in {"FIFO", "PRIO"}
  /\ ValueSize \in Nat \ {0, 1}
  /\ InitPrio \in [Thread -> Prio] /\ InitPrio[Idle] = IdlePrio
  /\ Prog \in [Thread -> SUBSET Op]
  /\ {"take", "takewait"} \cap Prog[Idle] = {}   \* the idle thread never waits
  /\ DeleteTimed \in BOOLEAN

VARIABLES value,    \* sem->value
          alive,    \* "alive", "dying" while it is deleted, "gone" after
          released, \* auxiliary: parity of the number of releases so far,
          reset     \* and of the resets and new semaphores

calls == <<released, reset>>
vars == <<k, isr, pc, value, alive, calls>>

Label == {"run", "sched", "take_sched", "take_back", "delete_loop", "delete_resume"}

TypeOK ==
  /\ k \in KernelState
  /\ isr \in {"none", "timer"}
  /\ pc \in [Thread -> Label]
  /\ value \in 0..(ValueSize - 1)
  /\ alive \in {"alive", "dying", "gone"}
  /\ released \in {0, 1} /\ reset \in {0, 1}

Waiters == k.list[Sem]
Calls(t, op) == Running(t, "run") /\ op \in Prog[t] /\ alive = "alive"

Init ==
  /\ k = Booted(InitPrio)
  /\ isr = "none"
  /\ pc = [t \in Thread |-> "run"]
  /\ value = 0
  /\ alive = "alive"
  /\ released = 0 /\ reset = 0

-----------------------------------------------------------------------------
(* rt_sem_take, rt_sem_trytake.  The call with no token and time = 0       *)
(* returns -RT_ETIMEOUT and changes nothing.                               *)

TakeToken(t) ==
  /\ Calls(t, "take") \/ Calls(t, "trytake") \/ Calls(t, "takewait")
  /\ value > 0
  /\ value' = value - 1
  /\ UNCHANGED <<k, isr, pc, alive, calls>>

\* Mutation of SuspendTaker: the error code of an earlier call stays.
SuspendStaleError(t, time) ==
  LET s == rt_ipc_list_suspend(k, Sem, t, Flag)
  IN  IF time = Forever THEN s ELSE rt_timer_start(s, t, time)

SuspendTaker(t, time) ==
  LET s == rt_ipc_list_suspend([k EXCEPT !.err[t] = "EOK"], Sem, t, Flag)
  IN  IF time = Forever THEN s ELSE rt_timer_start(s, t, time)

TakeSuspend(t, time) ==
  /\ Calls(t, IF time = Forever THEN "takewait" ELSE "take")
  /\ value = 0
  /\ k' = SuspendTaker(t, time)
  /\ Goto(t, "take_sched")
  /\ UNCHANGED <<isr, value, alive, calls>>

TakeSchedule(t) == ScheduleStep(t, "take_sched", "take_back") /\ UNCHANGED <<value, alive, calls>>

\* The call returns k.err[t].
TakeBack(t) ==
  /\ Running(t, "take_back")
  /\ Goto(t, "run")
  /\ UNCHANGED <<k, isr, value, alive, calls>>

\* In a handler only rt_sem_trytake is allowed.
IsrTryTake ==
  /\ isr = "none" /\ alive = "alive"
  /\ value > 0
  /\ value' = value - 1
  /\ UNCHANGED <<k, isr, pc, alive, calls>>

-----------------------------------------------------------------------------
(* rt_sem_release: resume the first waiter, whose take keeps the token, or *)
(* count up.  The counter is 16 bits wide and nothing checks it.           *)

ReleaseKernel(s) == IF s.list[Sem] # <<>> THEN rt_ipc_list_resume(s, Sem) ELSE s

\* Mutations of ReleaseValue: no wrap-around; counted and handed over.
CountNoWrap(s) == IF s.list[Sem] # <<>> THEN value ELSE value + 1
CountAlways(s) == (value + 1) % ValueSize
ReleaseValue(s) == IF s.list[Sem] # <<>> THEN value ELSE (value + 1) % ValueSize

Release(t) ==
  /\ Calls(t, "release")
  /\ k' = ReleaseKernel(k)
  /\ value' = ReleaseValue(k)
  /\ Goto(t, IF Waiters # <<>> THEN "sched" ELSE "run")
  /\ released' = 1 - released /\ UNCHANGED reset
  /\ UNCHANGED <<isr, alive>>

IsrRelease ==
  /\ isr = "none" /\ alive = "alive"
  /\ k' = IF Waiters # <<>> THEN rt_schedule(ReleaseKernel(k)) ELSE k
  /\ value' = ReleaseValue(k)
  /\ released' = 1 - released /\ UNCHANGED reset
  /\ UNCHANGED <<isr, pc, alive>>

Schedule(t) == ScheduleStep(t, "sched", "run") /\ UNCHANGED <<value, alive, calls>>

-----------------------------------------------------------------------------
(* rt_ipc_list_resume_all gives every waiter -RT_ERROR, head first.        *)

\* rt_sem_control(RT_IPC_CMD_RESET) does it under one interrupt lock.
Reset(t, v) ==
  /\ Calls(t, "reset")
  /\ k' = rt_ipc_list_resume_all(k, Sem)
  /\ value' = v
  /\ Goto(t, "sched")
  /\ reset' = 1 - reset
  /\ UNCHANGED <<isr, alive, released>>

\* rt_sem_delete and rt_sem_detach enable interrupts after each waiter, and
\* return without rescheduling.
Delete(t) ==
  /\ Calls(t, "delete")
  /\ DeleteTimed \/ \A u \in ToSet(Waiters) : ~TimerActive(k, u)
  /\ alive' = "dying"
  /\ Goto(t, "delete_loop")
  /\ UNCHANGED <<k, isr, value, calls>>

\* The loop tests the list before it disables interrupts.
DeleteTest(t) ==
  /\ Running(t, "delete_loop")
  /\ Waiters # <<>>
  /\ Goto(t, "delete_resume")
  /\ UNCHANGED <<k, isr, value, alive, calls>>

\* With an empty list the code takes the list head for a thread and writes
\* through it: undefined, and no step here.
DeleteResume(t) ==
  /\ Running(t, "delete_resume")
  /\ Waiters # <<>>
  /\ k' = ResumeWithError(k, Sem)
  /\ Goto(t, "delete_loop")
  /\ UNCHANGED <<isr, value, alive, calls>>

DeleteObject(t) ==
  /\ Running(t, "delete_loop")
  /\ Waiters = <<>>
  /\ alive' = "gone"
  /\ Goto(t, "run")
  /\ UNCHANGED <<k, isr, value, calls>>

\* rt_sem_create or rt_sem_init of a new semaphore in the same place.  Calls on the old one
\* may be on their way back: all they still read is their own thread->error.
Create(t, v) ==
  /\ Running(t, "run") /\ "create" \in Prog[t]
  /\ alive = "gone"
  /\ alive' = "alive"
  /\ value' = v
  /\ k' = [k EXCEPT !.list[Sem] = <<>>]
  /\ reset' = 1 - reset
  /\ UNCHANGED <<isr, pc, released>>

-----------------------------------------------------------------------------
Tick == rt_tick_increase /\ UNCHANGED <<value, alive, calls>>
TimerCheck == rt_timer_check /\ UNCHANGED <<value, alive, calls>>

Step(t) ==
  \/ TakeToken(t)
  \/ \E time \in {Forever} \cup 1..MaxDelay : TakeSuspend(t, time)
  \/ TakeSchedule(t) \/ TakeBack(t)
  \/ Release(t) \/ Schedule(t)
  \/ \E v \in 0..(ValueSize - 1) : Reset(t, v) \/ Create(t, v)
  \/ Delete(t) \/ DeleteTest(t) \/ DeleteResume(t) \/ DeleteObject(t)

Interrupt == Tick \/ TimerCheck \/ IsrRelease \/ IsrTryTake

Next == (\E t \in Thread : Step(t)) \/ Interrupt

Spec == Init /\ [][Next]_vars

\* The tick interrupt keeps coming and is served to the end; a thread that
\* is given the processor again and again makes progress in the end.
Fairness ==
  /\ WF_vars(Tick)
  /\ WF_vars(TimerCheck)
  /\ \A t \in Thread : SF_vars(Step(t))

FairSpec == Spec /\ Fairness

-----------------------------------------------------------------------------
(* Properties.                                                             *)

InTake(t) == pc[t] \in {"take_sched", "take_back"}

\* The semaphore implements the abstract one: what a blocked take returns
\* is fixed by whoever takes it off the suspend list, and each token is
\* counted or handed over, never both and never neither.
Outcome(t) ==
  IF ~InTake(t) THEN "idle"
  ELSE IF t \in ToSet(Waiters) THEN "waiting"
  ELSE k.err[t]

Abstract == INSTANCE SemaphoreSpec WITH tokens <- value, outcome <- [t \in Thread |-> Outcome(t)],
                                          puts <- released, resets <- reset

ImplementsSemaphore == Abstract!Spec

\* A token is never left on the counter while a thread sleeps on the list.
NoIdleToken == Abstract!NoIdleToken

\* A suspended thread is on the suspend list or on no list and no timer will
\* ever wake it: here there is no such thread, whichever of release, reset,
\* delete and timeout comes first.
NoLostWaiter ==
  \A t \in Thread : k.stat[t] = "SUSPEND" => t \in ToSet(Waiters) /\ InTake(t)

\* "get next suspend thread" (rt_ipc_list_resume_all, ipc.c:185): the node the
\* deleting thread takes off the list is a thread suspended on it.
ResumesAWaiter == \A t \in Thread : pc[t] = "delete_resume" => Waiters # <<>>

\* With RT_IPC_FLAG_PRIO no thread is woken by a release before a waiter of
\* higher priority.
WakesHighestFirst ==
  [][\A t, u \in ToSet(Waiters) :
       Flag = "PRIO" /\ k.prio[u] < k.prio[t] /\ u \in ToSet(Waiters')
         => t \in ToSet(Waiters') \/ k'.err[t] = "ETIMEOUT"]_vars

\* A take with a timeout does not sleep for ever, however many other threads
\* release, reset, delete and take.
TimedTakeWakes ==
  \A t \in Thread : (TimerActive(k, t) ~> k.stat[t] = "READY")
=============================================================================
