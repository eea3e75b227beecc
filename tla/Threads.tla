------------------------------ MODULE Threads -------------------------------
(***************************************************************************)
(* The life of a thread: creation, startup, sleep, yield, suspend, resume, *)
(* change of priority, deletion, exit, and the idle thread that frees what *)
(* the others left behind (src/thread.c, src/idle.c, src/components.c).    *)
(*                                                                         *)
(* Prog gives each thread the kernel calls it may make, in any order.  A   *)
(* call is cut at each point where the code enables interrupts; arg holds  *)
(* the thread a call in progress works on.  Calls that find the argument   *)
(* in the wrong state and return -RT_ERROR change nothing and are left     *)
(* out.  The rules of use the code relies on without checking them are the *)
(* operators Free and Quiet below.                                         *)
(***************************************************************************)
EXTENDS Kernel

CONSTANTS Static,      \* threads made by rt_thread_init, without a cleanup function
          Prog,        \* Prog[t]: the calls thread t makes
          InitPrio,    \* InitPrio[t]: the priority t is created with
          DeleteTimed  \* may a thread be deleted while its timer runs?

Op == {"create", "startup", "sleep", "yield", "suspend", "resume", "priority",
       "delete", "exit", "critical", "isr"}

ASSUME ProgAssumption ==
  /\ Static \subseteq Thread \ {Idle}
  /\ Prog \in [Thread -> SUBSET Op]
  /\ InitPrio \in [Thread -> Prio]
  /\ InitPrio[Idle] = IdlePrio
  /\ Prog[Idle] = {}   \* the idle hook never blocks (idle.c)
  /\ DeleteTimed \in BOOLEAN

VARIABLES arg,    \* the thread a call in progress works on
          alloc,  \* thread objects in the object container
          owed    \* a call made a thread READY, or moved one, and left the
                  \* rescheduling to its caller, who has not done it yet

vars == <<k, isr, pc, arg, alloc, owed>>

Label == {"run", "startup_insert", "sched", "sleep_sched", "sleep_back",
          "suspend_body", "resume_body", "resume_insert", "delete_timer",
          "delete_close", "delete_put", "idle_free", "exit_sched"}
MovesNode == {"startup_insert", "suspend_body", "resume_body", "resume_insert",
              "delete_timer", "delete_close", "delete_put"}

TypeOK ==
  /\ k \in KernelState
  /\ isr \in {"none", "timer"}
  /\ pc \in [Thread -> Label]
  /\ arg \in [Thread -> Thread \cup {NoThread}]
  /\ alloc \in SUBSET Thread
  /\ owed \in BOOLEAN

-----------------------------------------------------------------------------
(* Rules of use.                                                           *)

Held(u) == \E t \in Thread : arg[t] = u

\* No other call is moving u, and u is not a dead thread.
Free(u) == u \in alloc /\ k.stat[u] # "CLOSE" /\ ~Held(u)

\* The timer of u is not running, so the tick does not move u.
Quiet(u) == ~TimerActive(k, u)

-----------------------------------------------------------------------------
Calls(t, op) == Running(t, "run") /\ op \in Prog[t]
Work(t, label, u) == Goto(t, label) /\ arg' = [arg EXCEPT ![t] = u]

\* _rt_thread_init, with u's slot taken from the heap or the caller.
CreatedThread(s, u) ==
  [s EXCEPT !.stat[u] = "INIT", !.prio[u] = InitPrio[u], !.init[u] = InitPrio[u],
            !.slice[u] = InitTick, !.err[u] = "EOK"]

\* rt_thread_startup up to the insertion done by rt_thread_resume.
StartedThread(s, u) ==
  ResumeUnlink([s EXCEPT !.stat[u] = "SUSPEND", !.prio[u] = s.init[u]], u)

\* rtthread_startup up to rt_system_scheduler_start: the idle thread is in the
\* ready table, interrupts are off.
Init ==
  /\ k = rt_schedule_insert_thread(StartedThread(CreatedThread(PowerOn(InitPrio), Idle), Idle), Idle)
  /\ isr = "none"
  /\ pc = [t \in Thread |-> "run"]
  /\ arg = [t \in Thread |-> NoThread]
  /\ alloc = {Idle}
  /\ owed = FALSE

\* rt_application_init: a thread created and started while k.cur is RT_NULL,
\* which rt_thread_startup inserts and does not schedule.
AppInit(u) ==
  /\ k.cur = NoThread /\ isr = "none"
  /\ u \notin alloc
  /\ k' = rt_schedule_insert_thread(StartedThread(CreatedThread(k, u), u), u)
  /\ alloc' = alloc \cup {u}
  /\ UNCHANGED <<isr, pc, arg, owed>>

rt_system_scheduler_start ==
  /\ k.cur = NoThread /\ isr = "none"
  /\ k' = [k EXCEPT !.cur = Head(k.list[Highest(k)])]
  /\ UNCHANGED <<isr, pc, arg, alloc, owed>>

-----------------------------------------------------------------------------
(* rt_schedule, the last thing most calls do, and where it returns to.     *)

Sched(t, from, to) ==
  /\ ScheduleStep(t, from, to)
  /\ owed' = (owed /\ k.nest > 0)
  /\ UNCHANGED <<arg, alloc>>

Schedule(t) == Sched(t, "sched", "run")

\* A dead thread never comes back from its last rt_schedule.
ExitSchedule(t) == Sched(t, "exit_sched", "exit_sched")

\* The caller of rt_thread_resume and the like does its own rescheduling.
Reschedule(t) == owed /\ Sched(t, "run", "run")

-----------------------------------------------------------------------------
Create(t, u) ==
  /\ Calls(t, "create")
  /\ u \notin alloc
  /\ u # k.cur
  /\ k' = CreatedThread(k, u)
  /\ alloc' = alloc \cup {u}
  /\ pc' = [pc EXCEPT ![u] = "run"]
  /\ UNCHANGED <<isr, arg, owed>>

Startup(t, u) ==
  /\ Calls(t, "startup")
  /\ Free(u) /\ k.stat[u] = "INIT"
  /\ k' = StartedThread(k, u)
  /\ Work(t, "startup_insert", u)
  /\ UNCHANGED <<isr, alloc, owed>>

StartupInsert(t) ==
  /\ Running(t, "startup_insert")
  /\ k' = rt_schedule_insert_thread(k, arg[t])
  /\ owed' = TRUE
  /\ Work(t, "sched", NoThread)
  /\ UNCHANGED <<isr, alloc>>

Sleep(t, n) ==
  /\ Calls(t, "sleep")
  /\ k.nest = 0 /\ ~Held(t)
  /\ k' = rt_thread_sleep(k, t, n)
  /\ Goto(t, "sleep_sched")
  /\ UNCHANGED <<isr, arg, alloc, owed>>

SleepSchedule(t) == Sched(t, "sleep_sched", "sleep_back")

SleepBack(t) ==
  /\ Running(t, "sleep_back")
  /\ k' = [k EXCEPT !.err[t] = IF @ = "ETIMEOUT" THEN "EOK" ELSE @]
  /\ Goto(t, "run")
  /\ UNCHANGED <<isr, arg, alloc, owed>>

\* Alone in its queue, the thread returns without rescheduling.
Yield(t) ==
  /\ Calls(t, "yield")
  /\ SharesQueue(k, t)
  /\ k' = ToQueueEnd(k, t)
  /\ owed' = TRUE
  /\ Goto(t, "sched")
  /\ UNCHANGED <<isr, arg, alloc>>

-----------------------------------------------------------------------------
(* rt_thread_suspend looks at the state before it disables interrupts.     *)

Suspend(t, u) ==
  /\ Calls(t, "suspend")
  /\ k.nest = 0 /\ Free(u) /\ u # Idle
  /\ k.stat[u] = "READY"
  /\ Work(t, "suspend_body", u)
  /\ UNCHANGED <<k, isr, alloc, owed>>

SuspendBody(t) ==
  /\ Running(t, "suspend_body")
  /\ LET u == arg[t]
         s == rt_schedule_remove_thread([k EXCEPT !.stat[u] = "SUSPEND"], u)
     IN  /\ k' = rt_timer_stop(s, u)
         /\ Work(t, IF u = t THEN "sched" ELSE "run", NoThread)
  /\ UNCHANGED <<isr, alloc, owed>>

(* rt_thread_resume likewise, and it enables interrupts again before it    *)
(* inserts the thread; it does not reschedule.                             *)

Resume(t, u) ==
  /\ Calls(t, "resume")
  /\ Free(u) /\ Quiet(u)
  /\ k.stat[u] = "SUSPEND"
  /\ Work(t, "resume_body", u)
  /\ UNCHANGED <<k, isr, alloc, owed>>

ResumeBody(t) ==
  /\ Running(t, "resume_body")
  /\ k' = ResumeUnlink(k, arg[t])
  /\ Goto(t, "resume_insert")
  /\ UNCHANGED <<isr, arg, alloc, owed>>

ResumeInsert(t) ==
  /\ Running(t, "resume_insert")
  /\ k' = rt_schedule_insert_thread(k, arg[t])
  /\ owed' = TRUE
  /\ Work(t, "run", NoThread)
  /\ UNCHANGED <<isr, alloc>>

\* RT_THREAD_CTRL_CHANGE_PRIORITY does not reschedule either.
Priority(t, u, p) ==
  /\ Calls(t, "priority")
  /\ Free(u) /\ u # Idle
  /\ p # k.prio[u]
  /\ k' = ChangePriority(k, u, p)
  /\ owed' = TRUE
  /\ UNCHANGED <<isr, pc, arg, alloc>>

EnterCritical(t) ==
  /\ Calls(t, "critical")
  /\ k.nest < 2   \* bound
  /\ k' = rt_enter_critical(k)
  /\ UNCHANGED <<isr, pc, arg, alloc, owed>>

ExitCritical(t) ==
  /\ Calls(t, "critical")
  /\ k.nest > 0
  /\ k' = rt_exit_critical(k)
  /\ Goto(t, IF k.nest = 1 THEN "sched" ELSE "run")
  /\ UNCHANGED <<isr, arg, alloc, owed>>

-----------------------------------------------------------------------------
(* rt_thread_delete and rt_thread_detach work on another thread in four    *)
(* steps with interrupts enabled between them.                             *)

Delete(t, u) ==
  /\ Calls(t, "delete")
  /\ u # t /\ u # Idle /\ Free(u) /\ arg[u] = NoThread
  /\ Quiet(u) \/ DeleteTimed
  /\ k' = IF k.stat[u] # "INIT" THEN rt_schedule_remove_thread(k, u) ELSE k
  /\ Work(t, "delete_timer", u)
  /\ UNCHANGED <<isr, alloc, owed>>

DeleteTimer(t) ==
  /\ Running(t, "delete_timer")
  /\ k' = rt_timer_stop(k, arg[t])
  /\ Goto(t, "delete_close")
  /\ UNCHANGED <<isr, arg, alloc, owed>>

\* rt_thread_detach ends here for a thread without a cleanup function.
DeleteClose(t) ==
  /\ Running(t, "delete_close")
  /\ LET u == arg[t]
     IN  /\ k' = [k EXCEPT !.stat[u] = "CLOSE"]
         /\ IF u \in Static
            THEN alloc' = alloc \ {u} /\ Work(t, "run", NoThread)
            ELSE Goto(t, "delete_put") /\ UNCHANGED <<alloc, arg>>
  /\ UNCHANGED <<isr, owed>>

DeletePut(t) ==
  /\ Running(t, "delete_put")
  /\ k' = [k EXCEPT !.list[Defunct] = <<arg[t]>> \o @]
  /\ Work(t, "run", NoThread)
  /\ UNCHANGED <<isr, alloc, owed>>

rt_thread_exit(t) ==
  /\ Calls(t, "exit")
  /\ k.nest = 0 /\ ~Held(t)
  /\ LET s == rt_timer_stop(rt_schedule_remove_thread(k, t), t)
     IN  IF t \in Static
         THEN /\ k' = [s EXCEPT !.stat[t] = "CLOSE"]
              /\ alloc' = alloc \ {t}
         ELSE /\ k' = [s EXCEPT !.stat[t] = "CLOSE", !.list[Defunct] = <<t>> \o @]
              /\ UNCHANGED alloc
  /\ Goto(t, "exit_sched")
  /\ UNCHANGED <<isr, arg, owed>>

-----------------------------------------------------------------------------
(* rt_thread_idle_excute: unlink the newest dead thread, run its cleanup   *)
(* under the scheduler lock, and free it with interrupts enabled.          *)

IdleReap ==
  /\ Running(Idle, "run")
  /\ k.list[Defunct] # <<>>
  /\ LET u == Head(k.list[Defunct])
         s == rt_enter_critical(rt_list_remove(k, u))
     IN  /\ k' = rt_schedule(rt_exit_critical(s))
         /\ Work(Idle, "idle_free", u)
  /\ owed' = FALSE
  /\ UNCHANGED <<isr, alloc>>

IdleFree ==
  /\ Running(Idle, "idle_free")
  /\ alloc' = alloc \ {arg[Idle]}
  /\ Work(Idle, "run", NoThread)
  /\ UNCHANGED <<k, isr, owed>>

-----------------------------------------------------------------------------
Tick ==
  /\ rt_tick_increase
  /\ owed' = (owed /\ ~(k.slice[k.cur] = 1 /\ SharesQueue(k, k.cur) /\ k.nest = 0))
  /\ UNCHANGED <<arg, alloc>>

TimerCheck == rt_timer_check /\ owed' = (owed /\ k.nest > 0) /\ UNCHANGED <<arg, alloc>>

\* An interrupt handler resumes a thread and reschedules, in one piece.
IsrResume(u) ==
  /\ "isr" \in Prog[u]
  /\ isr = "none" /\ k.cur # NoThread
  /\ Free(u) /\ k.stat[u] = "SUSPEND"
  /\ k' = rt_schedule(rt_thread_resume(k, u))
  /\ owed' = (owed /\ k.nest > 0)
  /\ UNCHANGED <<isr, pc, arg, alloc>>

Step(t) ==
  \/ Schedule(t) \/ ExitSchedule(t) \/ Reschedule(t)
  \/ StartupInsert(t)
  \/ \E n \in 0..MaxDelay : Sleep(t, n)
  \/ SleepSchedule(t) \/ SleepBack(t) \/ Yield(t)
  \/ SuspendBody(t) \/ ResumeBody(t) \/ ResumeInsert(t)
  \/ EnterCritical(t) \/ ExitCritical(t)
  \/ DeleteTimer(t) \/ DeleteClose(t) \/ DeletePut(t)
  \/ rt_thread_exit(t)
  \/ \E u \in Thread :
       \/ Create(t, u) \/ Startup(t, u) \/ Suspend(t, u) \/ Resume(t, u)
       \/ Delete(t, u)
       \/ \E p \in Prio : Priority(t, u, p)

Interrupt == Tick \/ TimerCheck \/ \E u \in Thread : IsrResume(u)

Next ==
  \/ \E u \in Thread : AppInit(u)
  \/ rt_system_scheduler_start
  \/ \E t \in Thread : Step(t)
  \/ IdleReap \/ IdleFree
  \/ Interrupt

Spec == Init /\ [][Next]_vars

-----------------------------------------------------------------------------
(* Safety.                                                                 *)

Linked(l) == ToSet(k.list[l])
BeingDeleted(u) == \E t \in Thread : arg[t] = u /\ pc[t] \in {"delete_timer", "delete_close"}

\* A thread is READY exactly when its node is on the queue of its current
\* priority, save for the window in which rt_thread_delete has unlinked it
\* and not yet closed it (rt_schedule_insert_thread, ..._remove_thread).
ReadyIsQueued ==
  \A t \in Thread :
    /\ \A p \in Prio : t \in Linked(p) => k.stat[t] = "READY" /\ p = k.prio[t]
    /\ k.stat[t] = "READY" /\ ~BeingDeleted(t) => t \in Linked(k.prio[t])

\* The one tlist node of a thread is on one list, once: the calls, the tick
\* and the idle thread never link a node that is still linked elsewhere.
NodeOnOneList ==
  \A l, m \in ListHead : \A i \in DOMAIN k.list[l], j \in DOMAIN k.list[m] :
    k.list[l][i] = k.list[m][j] => l = m /\ i = j

\* The priority bitmap names the queues that have a thread, so that
\* rt_schedule never takes a list head for a thread.
BitmapExact == k.group = {p \in Prio : k.list[p] # <<>>}

\* With the scheduler unlocked and no call about to reschedule, the thread
\* that runs is the first of the highest non-empty queue: preemption is
\* immediate after every wake-up by an interrupt.
RunsHighest ==
  (isr = "none" /\ k.cur # NoThread /\ k.nest = 0 /\ ~owed
     /\ pc[k.cur] \notin {"sched", "sleep_sched", "exit_sched"})
  => k.cur = Head(k.list[Highest(k)])

\* A dead thread is on the defunct list or in the hands of one call, never
\* on a timer list: no timeout makes it READY again.
DeadStaysDead ==
  \A t \in Thread : k.stat[t] = "CLOSE" =>
    /\ ~TimerActive(k, t)
    /\ \A l \in ListHead \ {Defunct} : t \notin Linked(l)
    /\ k.cur = t => pc[t] = "exit_sched"

\* What the documentation says of it: a thread in the closed state takes no
\* part in scheduling.
ClosedNotScheduled ==
  \A t \in Thread : k.stat[t] = "CLOSE" => \A p \in Prio : t \notin Linked(p)

\* A thread object that left the object container is referenced by no list,
\* no timer and no unfinished call, so that its memory can be reused.
NoDanglingThread ==
  \A t \in Thread \ alloc :
    /\ \A l \in ListHead : t \notin Linked(l)
    /\ ~TimerActive(k, t)
    /\ k.cur = t => t \in Static /\ pc[t] = "exit_sched"

\* Only a thread that is SUSPENDed waits for its timer: rt_thread_timeout's
\* assertion (thread.c:771) holds whenever a timer expires.
TimerOnlyWhenSuspended == \A t \in ToSet(k.timers) : k.stat[t] = "SUSPEND"

\* While the scheduler is locked the processor never changes hands.
LockKeepsRunning == [][k.nest > 0 => k'.cur = k.cur]_vars
=============================================================================
