-------------------------------- MODULE Mutex --------------------------------
(***************************************************************************)
(* The recursive mutex with priority inheritance of src/ipc.c, used by     *)
(* threads that take with any timeout, release, sleep and compute, in a    *)
(* build without signals (no -RT_EINTR).                                   *)
(*                                                                         *)
(* A taker of higher priority lifts the owner to its own priority and then *)
(* waits; the last release puts the owner back to the priority it had when *)
(* it got the mutex and hands the mutex to the first waiter.               *)
(*                                                                         *)
(* Rules of use: a mutex is deleted by its owner or while nobody owns it,  *)
(* and nobody starts a call on it from then on; nobody waits for it with a *)
(* timeout when its deletion begins; a thread does not nest takes beyond   *)
(* MaxDepth.                                                               *)
(***************************************************************************)
EXTENDS Kernel

CONSTANTS Mutex,     \* the mutexes: mutex->parent.suspend_thread
          Flag,      \* RT_IPC_FLAG_FIFO or RT_IPC_FLAG_PRIO
          HoldSize,  \* 2^8, the range of mutex->hold
          MaxDepth,  \* bound on nested takes of one mutex
          InitPrio,
          Prog       \* Prog[t]: the calls thread t makes

Op == {"take", "takewait", "trytake", "release", "sleep", "compute", "delete"}
NoPrio == -1     \* 0xFF in original_priority
NoMutex == "none"

ASSUME MutexAssumption ==
  /\ WaitList = Mutex
  /\ NoMutex \notin Mutex
  /\ Flag \in {"FIFO", "PRIO"}
  /\ HoldSize \in Nat \ {0} /\ MaxDepth \in 1..(HoldSize - 1)
  /\ InitPrio \in [Thread -> Prio] /\ InitPrio[Idle] = IdlePrio
  /\ Prog \in [Thread -> SUBSET Op] /\ Prog[Idle] = {}
  /\ IsFiniteSet(Thread)

VARIABLES mtx,    \* value, owner, original_priority and hold of each mutex
          alive,  \* mutexes not deleted yet
          want,   \* the mutex a thread's unfinished take or delete is about
          depth,  \* depth[t][m]: takes of m that returned to t, less its releases
          restPrio    \* history: the priority t rests at, its own or that of its last delete

vars == <<k, isr, pc, mtx, alive, want, depth, restPrio>>

Label == {"run", "sched", "take_sched", "take_back", "sleep_sched", "sleep_back",
          "delete_loop", "delete_resume", "computing"}

TypeOK ==
  /\ k \in KernelState
  /\ isr \in {"none", "timer"}
  /\ pc \in [Thread -> Label]
  /\ mtx \in [Mutex -> [value : {0, 1}, owner : Thread \cup {NoThread},
                        original_priority : Prio \cup {NoPrio},
                        hold : 0..(HoldSize - 1)]]
  /\ alive \in SUBSET Mutex
  /\ want \in [Thread -> Mutex \cup {NoMutex}]
  /\ depth \in [Thread -> [Mutex -> 0..MaxDepth]]
  /\ restPrio \in [Thread -> Prio]

Calls(t, op) == Running(t, "run") /\ op \in Prog[t]
Waiters(m) == ToSet(k.list[m])

Unowned == [value |-> 1, owner |-> NoThread, original_priority |-> NoPrio, hold |-> 0]
Owned(s, t) == [value |-> 0, owner |-> t, original_priority |-> s.prio[t], hold |-> 1]

Init ==
  /\ k = Booted(InitPrio)
  /\ isr = "none"
  /\ pc = [t \in Thread |-> "run"]
  /\ mtx = [m \in Mutex |-> Unowned]
  /\ alive = Mutex
  /\ want = [t \in Thread |-> NoMutex]
  /\ depth = [t \in Thread |-> [m \in Mutex |-> 0]]
  /\ restPrio = InitPrio

Returned(t, m, taken) == depth' = [depth EXCEPT ![t][m] = @ + taken]

-----------------------------------------------------------------------------
(* rt_mutex_take.                                                          *)

CallsTake(t, m) ==
  /\ Calls(t, "take") \/ Calls(t, "takewait") \/ Calls(t, "trytake")
  /\ m \in alive
  /\ depth[t][m] < MaxDepth

\* Mutation of ClearError: the code of an earlier call stays.
KeepError(t) == k
ClearError(t) == [k EXCEPT !.err[t] = "EOK"]

TakeAgain(t, m) ==
  /\ CallsTake(t, m)
  /\ mtx[m].owner = t
  /\ k' = ClearError(t)
  /\ mtx' = [mtx EXCEPT ![m].hold = (@ + 1) % HoldSize]
  /\ Returned(t, m, 1)
  /\ UNCHANGED <<isr, pc, alive, restPrio, want>>

TakeFree(t, m) ==
  /\ CallsTake(t, m)
  /\ mtx[m].owner # t /\ mtx[m].value > 0
  /\ k' = ClearError(t)
  /\ mtx' = [mtx EXCEPT ![m] = Owned(k, t)]
  /\ Returned(t, m, 1)
  /\ UNCHANGED <<isr, pc, alive, restPrio, want>>

TryTakeFails(t, m) ==
  /\ Calls(t, "trytake") /\ m \in alive
  /\ mtx[m].owner # t /\ mtx[m].value = 0
  /\ k' = [k EXCEPT !.err[t] = "ETIMEOUT"]
  /\ UNCHANGED <<isr, pc, mtx, alive, restPrio, want, depth>>

\* Mutation of Boost: no inheritance.
NoBoost(s, t, m) == s

\* Priority inheritance: the owner rises to the taker's priority.
Boost(s, t, m) ==
  LET o == mtx[m].owner
  IN  IF s.prio[t] < s.prio[o] THEN ChangePriority(s, o, s.prio[t]) ELSE s

TakeSuspend(t, m, time) ==
  /\ Calls(t, IF time = Forever THEN "takewait" ELSE "take") /\ m \in alive
  /\ mtx[m].owner # t /\ mtx[m].value = 0
  /\ LET s == rt_ipc_list_suspend(Boost(ClearError(t), t, m), m, t, Flag)
     IN  k' = IF time = Forever THEN s ELSE rt_timer_start(s, t, time)
  /\ Goto(t, "take_sched")
  /\ want' = [want EXCEPT ![t] = m]
  /\ UNCHANGED <<isr, mtx, alive, restPrio, depth>>

TakeSchedule(t) ==
  ScheduleStep(t, "take_sched", "take_back") /\ UNCHANGED <<mtx, alive, restPrio, want, depth>>

\* The take returns k.err[t]; the release that woke t has made it the owner.
TakeBack(t) ==
  /\ Running(t, "take_back")
  /\ Goto(t, "run")
  /\ want' = [want EXCEPT ![t] = NoMutex]
  /\ Returned(t, want[t], IF k.err[t] = "EOK" THEN 1 ELSE 0)
  /\ UNCHANGED <<k, isr, mtx, alive, restPrio>>

-----------------------------------------------------------------------------
(* rt_mutex_release.                                                       *)

\* Mutation of Restore: the boosted priority is kept.
NoRestore(s, m) == s

Restore(s, m) ==
  LET o == mtx[m].owner
      p == mtx[m].original_priority
  IN  IF p # s.prio[o] THEN ChangePriority(s, o, p) ELSE s

ReleaseHeld(t, m) ==
  /\ Calls(t, "release") /\ m \in alive
  /\ mtx[m].owner = t
  /\ mtx[m].hold > 1
  /\ mtx' = [mtx EXCEPT ![m].hold = @ - 1]
  /\ Returned(t, m, -1)
  /\ UNCHANGED <<k, isr, pc, alive, restPrio, want>>

\* The last release: back to the original priority, then hand the mutex to
\* the first waiter, or free it and return without rescheduling.
ReleaseHandOver(t, m) ==
  /\ Calls(t, "release") /\ m \in alive
  /\ mtx[m].owner = t
  /\ mtx[m].hold = 1
  /\ k.list[m] # <<>>
  /\ LET s == Restore(k, m)
     IN  /\ mtx' = [mtx EXCEPT ![m] = Owned(s, Head(s.list[m]))]
         /\ k' = rt_ipc_list_resume(s, m)
  /\ Returned(t, m, -1)
  /\ Goto(t, "sched")
  /\ UNCHANGED <<isr, alive, restPrio, want>>

ReleaseFree(t, m) ==
  /\ Calls(t, "release") /\ m \in alive
  /\ mtx[m].owner = t
  /\ mtx[m].hold = 1
  /\ k.list[m] = <<>>
  /\ k' = Restore(k, m)
  /\ mtx' = [mtx EXCEPT ![m] = Unowned]
  /\ Returned(t, m, -1)
  /\ UNCHANGED <<isr, pc, alive, restPrio, want>>

\* Only the owner may release.
ReleaseFails(t, m) ==
  /\ Calls(t, "release") /\ m \in alive
  /\ mtx[m].owner # t
  /\ k' = [k EXCEPT !.err[t] = "ERROR"]
  /\ UNCHANGED <<isr, pc, mtx, alive, restPrio, want, depth>>

ReleaseLast(t) == \E m \in Mutex : ReleaseHandOver(t, m) \/ ReleaseFree(t, m)
ReleaseOne(t) == \E m \in Mutex : ReleaseHeld(t, m)

Schedule(t) == ScheduleStep(t, "sched", "run") /\ UNCHANGED <<mtx, alive, restPrio, want, depth>>

-----------------------------------------------------------------------------
(* rt_mutex_delete, rt_mutex_detach: every waiter fails with -RT_ERROR.    *)
(* Nothing puts an owner that is lifted back to its own priority.          *)

Delete(t, m) ==
  /\ Calls(t, "delete") /\ m \in alive
  /\ mtx[m].owner \in {t, NoThread}
  /\ \A u \in Waiters(m) : ~TimerActive(k, u)
  /\ alive' = alive \ {m}
  /\ restPrio' = IF mtx[m].owner = t THEN [restPrio EXCEPT ![t] = k.prio[t]] ELSE restPrio
  /\ want' = [want EXCEPT ![t] = m]
  /\ Goto(t, "delete_loop")
  /\ UNCHANGED <<k, isr, mtx, depth>>

\* The loop tests the list before it disables interrupts.
DeleteTest(t) ==
  /\ Running(t, "delete_loop")
  /\ k.list[want[t]] # <<>>
  /\ Goto(t, "delete_resume")
  /\ UNCHANGED <<k, isr, mtx, alive, restPrio, want, depth>>

DeleteResume(t) ==
  /\ Running(t, "delete_resume")
  /\ LET m == want[t]
     IN  /\ k.list[m] # <<>>
         /\ k' = rt_ipc_list_resume([k EXCEPT !.err[Head(k.list[m])] = "ERROR"], m)
  /\ Goto(t, "delete_loop")
  /\ UNCHANGED <<isr, mtx, alive, restPrio, want, depth>>

DeleteDone(t) ==
  /\ Running(t, "delete_loop")
  /\ k.list[want[t]] = <<>>
  /\ want' = [want EXCEPT ![t] = NoMutex]
  /\ Goto(t, "run")
  /\ UNCHANGED <<k, isr, mtx, alive, restPrio, depth>>

-----------------------------------------------------------------------------
(* What threads do between their calls: sleep, or compute.                 *)

Sleep(t, n) ==
  /\ Calls(t, "sleep")
  /\ k' = rt_thread_sleep(k, t, n)
  /\ Goto(t, "sleep_sched")
  /\ UNCHANGED <<isr, mtx, alive, restPrio, want, depth>>

SleepSchedule(t) ==
  ScheduleStep(t, "sleep_sched", "sleep_back") /\ UNCHANGED <<mtx, alive, restPrio, want, depth>>

SleepBack(t) ==
  /\ Running(t, "sleep_back")
  /\ k' = [k EXCEPT !.err[t] = IF @ = "ETIMEOUT" THEN "EOK" ELSE @]
  /\ Goto(t, "run")
  /\ UNCHANGED <<isr, mtx, alive, restPrio, want, depth>>

\* A thread that holds no mutex computes from now on and makes no further call.
Compute(t) ==
  /\ Calls(t, "compute")
  /\ \A m \in Mutex : depth[t][m] = 0
  /\ Goto(t, "computing")
  /\ UNCHANGED <<k, isr, mtx, alive, restPrio, want, depth>>

Tick == rt_tick_increase /\ UNCHANGED <<mtx, alive, restPrio, want, depth>>
TimerCheck == rt_timer_check /\ UNCHANGED <<mtx, alive, restPrio, want, depth>>

Step(t) ==
  \/ TakeSchedule(t) \/ TakeBack(t) \/ ReleaseLast(t) \/ ReleaseOne(t) \/ Schedule(t)
  \/ DeleteTest(t) \/ DeleteResume(t) \/ DeleteDone(t)
  \/ \E n \in 1..MaxDelay : Sleep(t, n)
  \/ SleepSchedule(t) \/ SleepBack(t) \/ Compute(t)
  \/ \E m \in Mutex :
       \/ ReleaseFails(t, m)
       \/ TakeAgain(t, m) \/ TakeFree(t, m) \/ TryTakeFails(t, m) \/ Delete(t, m)
       \/ \E time \in {Forever} \cup 1..MaxDelay : TakeSuspend(t, m, time)

Next == (\E t \in Thread : Step(t)) \/ Tick \/ TimerCheck

Spec == Init /\ [][Next]_vars

\* The tick keeps coming; a thread that gets the processor again and again
\* makes progress, and gives a mutex back as often as it has taken it.
Fairness ==
  /\ WF_vars(Tick)
  /\ WF_vars(TimerCheck)
  /\ \A t \in Thread \ {Idle} : SF_vars(Step(t)) /\ SF_vars(ReleaseOne(t)) /\ SF_vars(ReleaseLast(t))

FairSpec == Spec /\ Fairness

-----------------------------------------------------------------------------
(* Properties.                                                             *)

InTake(t, m) == want[t] = m /\ pc[t] \in {"take_sched", "take_back"}
Granted(t, m) == InTake(t, m) /\ t \notin Waiters(m) /\ k.err[t] = "EOK"

\* The owner is the one thread inside: hold counts the takes that returned to
\* it, and the one rt_mutex_release granted it that has not returned yet.
OwnerIsInside ==
  \A m \in Mutex, t \in Thread :
    IF mtx[m].owner = t
    THEN /\ mtx[m].value = 0
         /\ mtx[m].hold = depth[t][m] + (IF Granted(t, m) THEN 1 ELSE 0)
         /\ mtx[m].hold > 0
    ELSE depth[t][m] = 0

\* The code a blocked take is about to return tells whether it has the mutex,
\* although hand-over and timeout race for the waiter.
ResultIsOwnership ==
  \A m \in Mutex, t \in Thread :
    InTake(t, m) /\ t \notin Waiters(m) => (k.err[t] = "EOK" <=> mtx[m].owner = t)

\* A thread that waits without a timeout is on the list of a mutex that
\* another thread owns or deletes: somebody is there to wake it.
WaiterHasOwner ==
  \A t \in Thread :
    k.stat[t] = "SUSPEND" /\ ~TimerActive(k, t)
      => \E m \in Mutex : /\ t \in Waiters(m) /\ InTake(t, m)
                          /\ mtx[m].owner \in Thread \ {t}
                          /\ m \in alive \/ \E u \in Thread \ {t} : want[u] = m /\ pc[u] \in {"delete_loop", "delete_resume"}

\* The owner of a mutex never runs below a thread that waits for it.
PriorityInheritance ==
  \A m \in alive : \A t \in Waiters(m) : k.prio[mtx[m].owner] <= k.prio[t]

\* A thread that owns no mutex is back at its own priority
\* (rt_mutex_release, "change the owner thread to original priority"), or, if
\* it has deleted a mutex it owned, at the one it ran at then: a delete keeps
\* what a waiter had lifted it to, and nothing takes that back later.
PriorityRestored ==
  \A t \in Thread :
    (\A m \in alive : mtx[m].owner # t) => k.prio[t] = restPrio[t]

\* The running thread is the first of the highest ready priority, unless it
\* is on its way into rt_schedule (fully preemptive scheduling).
RunsHighest ==
  (isr = "none" /\ pc[k.cur] \notin {"sched", "take_sched", "sleep_sched"})
  => k.prio[k.cur] = Highest(k)

\* With RT_IPC_FLAG_PRIO a mutex is handed over to a waiter of the highest
\* priority.
HandOverToHighest ==
  [][\A m \in Mutex : \A t \in Waiters(m) :
       Flag = "PRIO" /\ mtx'[m].owner = t
         => \A u \in Waiters(m) : k.prio[t] <= k.prio[u]]_vars

\* No unbounded priority inversion: a thread of the highest priority gets a
\* mutex from a low owner even when threads between them compute for ever.
HighestGetsMutex ==
  \A t \in {u \in Thread : InitPrio[u] = 0}, m \in Mutex :
    t \in Waiters(m) ~> t \notin Waiters(m)
=============================================================================
