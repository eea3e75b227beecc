--------------------------- MODULE ThreadsProofs ----------------------------
(***************************************************************************)
(* Safety of Threads for any number of threads, priorities and lists, as   *)
(* long as no thread is deleted while its timer runs.                      *)
(***************************************************************************)
EXTENDS Threads, KernelProofs

-----------------------------------------------------------------------------
(* The inductive invariant.  Beside the lists of the kernel it says what a *)
(* call that was interrupted half-way may rely on when it goes on: the     *)
(* thread it works on is in nobody else's hands, and is as it was left.    *)

Unlinked == {"startup_insert", "resume_insert", "delete_timer", "delete_close",
             "delete_put", "idle_free"}
Insertable == {"startup_insert", "resume_body", "resume_insert"}
Deleting == {"delete_timer", "delete_close"}
Dead == {"delete_put", "idle_free"}
Busy == Insertable \cup Deleting \cup Dead \cup {"suspend_body"}

Hands ==
  /\ \A t \in Thread : arg[t] # NoThread <=> pc[t] \in Busy
  /\ \A t, x \in Thread : arg[t] = arg[x] /\ arg[t] # NoThread => t = x

Window(t, u) ==
  /\ u \in alloc /\ u # Idle
  /\ pc[t] = "suspend_body" => k.stat[u] # "CLOSE"
  /\ pc[t] \in Insertable => k.stat[u] = "SUSPEND" /\ u \notin Timed(k)
  /\ pc[t] \in Unlinked => Off(k, u)
  /\ pc[t] \in Deleting => /\ k.stat[u] # "CLOSE" /\ u \notin Timed(k)
                           /\ k.cur # u /\ arg[u] = NoThread
  /\ pc[t] \in Dead => k.stat[u] = "CLOSE"
Windows == \A t, u \in Thread : arg[t] = u => Window(t, u)

DeadThread(t) == k.stat[t] = "CLOSE" => arg[t] = NoThread /\ (k.cur = t => pc[t] = "exit_sched")
Freed(t) == t \notin alloc => k.stat[t] = "CLOSE" /\ Off(k, t) /\ ~Held(t) /\ (k.cur = t => t \in Static)
Queued(t) == k.stat[t] = "READY" /\ ~BeingDeleted(t) => ~Off(k, t)

\* The running thread is READY until it is on its way out of the processor,
\* and stays so while it holds the scheduler lock.
Leaving == {"sched", "sleep_sched", "exit_sched"}
Current == k.cur \in Thread /\ pc[k.cur] \notin Leaving => k.stat[k.cur] = "READY"
Locked == k.nest > 0 => /\ k.cur \in Thread /\ k.stat[k.cur] = "READY"
                        /\ pc[k.cur] \notin {"suspend_body", "sleep_sched", "exit_sched"}

Pending == isr = "timer" => k.timers # <<>>

IInv ==
  /\ TypeOK /\ KernelOK(k) /\ Hands /\ Windows
  /\ \A t \in Thread : DeadThread(t) /\ Freed(t) /\ Queued(t)
  /\ Current /\ Locked /\ Pending
  /\ Idle \in alloc

\* What a step does to the processor.
Handed(s, r) ==
  r.cur = s.cur \/ (s.nest = 0 /\ r.cur \in Thread /\ r.stat[r.cur] = "READY" /\ ~Off(r, r.cur))

\* A step that keeps the invariant, and the processor while it is locked.
SafeStep == IInv' /\ (k.nest > 0 => k'.cur = k.cur)

\* A step that changes one thread u, and the place of one caller t, keeps the
\* invariant if it keeps it for those two.
LEMMA OneThread ==
  ASSUME IInv, NEW u \in Thread, NEW t \in Thread,
         NEW a \in Thread \cup {NoThread}, NEW l \in Label,
         KernelOK(k'), Frame(k, k', u), Handed(k, k'),
         isr' \in {"none", "timer"}, owed' \in BOOLEAN, alloc' \in SUBSET Thread,
         \A x \in Thread \ {u} : x \in alloc' <=> x \in alloc,
         arg' = [arg EXCEPT ![t] = a], pc' = [pc EXCEPT ![t] = l],
         t = u \/ k.cur = t \/ (a = arg[t] /\ l = pc[t]),
         a \in {NoThread, u} \/ (a = arg[t] /\ l = pc[t]),
         arg[t] \in {NoThread, u} \/ (a = arg[t] /\ l = pc[t]),
         a # NoThread <=> l \in Busy,
         t # u /\ pc[t] = "exit_sched" => l = "exit_sched",
         \A x \in Thread \ {t} : arg[x] # u,
         a \in Thread => Window(t, a)' \/ (a = arg[t] /\ l = pc[t] /\ a # u),
         DeadThread(u)', Freed(u)', Queued(u)',
         Current', Locked', Pending', Idle \in alloc'
  PROVE  SafeStep
<1> USE DEF IInv
<1>1. /\ arg \in [Thread -> Thread \cup {NoThread}] /\ pc \in [Thread -> Label]
      /\ k.stat \in [Thread -> Stat] /\ NoThread \notin Thread
  BY ThreadAssumption, KernelFields DEF TypeOK
<1>2. /\ arg'[t] = a /\ pc'[t] = l
      /\ \A x \in Thread \ {t} : arg'[x] = arg[x] /\ pc'[x] = pc[x]
  BY <1>1
<1>3. TypeOK' BY <1>1 DEF TypeOK, KernelOK
<1>4. Hands' BY <1>1, <1>2 DEF Hands
<1>5. \A x \in Thread \ {u} : /\ k'.stat[x] = k.stat[x]
                              /\ Off(k', x) <=> Off(k, x)
                              /\ x \in Timed(k') <=> x \in Timed(k)
  BY DEF Frame
<1>6. ASSUME NEW x \in Thread, NEW y \in Thread, arg'[x] = y,
             x # t \/ (a = arg[t] /\ l = pc[t] /\ a # u)
      PROVE  Window(x, y)'
  <2>1. arg[x] = y /\ y # u /\ Window(x, y) BY <1>2, <1>6 DEF Windows
  <2>2. pc'[x] = pc[x] BY <1>2, <1>6
  <2>3. y \in alloc' /\ y # Idle BY <2>1 DEF Window
  <2>4. k'.stat[y] = k.stat[y] /\ (Off(k', y) <=> Off(k, y)) /\ (y \in Timed(k') <=> y \in Timed(k))
    BY <1>5, <2>1
  <2>5. ASSUME pc[x] \in Deleting PROVE k'.cur # y /\ arg'[y] = NoThread
    <3>1. k.cur # y /\ arg[y] = NoThread /\ Off(k, y) BY <2>1, <2>5 DEF Window, Deleting, Unlinked
    <3>2. k'.cur # y BY <2>4, <3>1 DEF Handed
    <3>3. arg'[y] = arg[y]
      <4>1. CASE y # t BY <1>2, <4>1
      <4>2. CASE y = t BY <1>2, <2>1, <3>1, <4>2
      <4> QED BY <4>1, <4>2
    <3> QED BY <3>1, <3>2, <3>3
  <2> QED BY <2>1, <2>2, <2>3, <2>4, <2>5 DEF Window
<1>7. Windows' BY <1>2, <1>6 DEF Windows
<1>8. ASSUME NEW x \in Thread \ {u} PROVE DeadThread(x)'
  <2> SUFFICES ASSUME k'.stat[x] = "CLOSE"
               PROVE  arg'[x] = NoThread /\ (k'.cur = x => pc'[x] = "exit_sched")
    BY DEF DeadThread
  <2>1. k.stat[x] = "CLOSE" /\ arg[x] = NoThread /\ (k.cur = x => pc[x] = "exit_sched")
    BY <1>5 DEF DeadThread
  <2>2. k'.cur = x => k.cur = x BY DEF Handed
  <2>3. CASE x # t BY <1>2, <2>1, <2>2, <2>3
  <2>4. CASE x = t
    <3>1. CASE k.cur = t
      <4>1. l = "exit_sched" BY <2>1, <2>4, <3>1
      <4>2. a = NoThread BY <4>1 DEF Busy, Insertable, Deleting, Dead
      <4> QED BY <1>2, <2>4, <4>1, <4>2
    <3>2. CASE k.cur # t BY <1>2, <2>1, <2>2, <2>4, <3>2
    <3> QED BY <3>1, <3>2
  <2> QED BY <2>3, <2>4
<1>9. ASSUME NEW x \in Thread \ {u} PROVE Freed(x)'
  <2> SUFFICES ASSUME x \notin alloc'
               PROVE  /\ k'.stat[x] = "CLOSE" /\ Off(k', x) /\ ~Held(x)'
                      /\ k'.cur = x => x \in Static
    BY DEF Freed
  <2>1. x \notin alloc /\ k.stat[x] = "CLOSE" /\ Off(k, x) /\ ~Held(x) /\ (k.cur = x => x \in Static)
    BY DEF Freed
  <2>2. k'.stat[x] = "CLOSE" /\ Off(k', x) BY <1>5, <2>1
  <2>3. k'.cur = x => x \in Static BY <2>1, <2>2 DEF Handed
  <2>4. \A y \in Thread : arg'[y] # x
    <3> SUFFICES ASSUME NEW y \in Thread, arg'[y] = x PROVE FALSE OBVIOUS
    <3>1. arg[y] # x BY <2>1 DEF Held
    <3>2. y = t /\ a = x /\ a # NoThread BY <1>1, <1>2, <3>1
    <3> QED BY <3>1, <3>2
  <2>5. ~Held(x)' BY <2>4 DEF Held
  <2> QED BY <2>2, <2>3, <2>5
<1>10. ASSUME NEW x \in Thread \ {u} PROVE Queued(x)'
  <2> SUFFICES ASSUME k'.stat[x] = "READY", ~BeingDeleted(x)' PROVE ~Off(k', x)
    BY DEF Queued
  <2>1. k.stat[x] = "READY" BY <1>5
  <2>2. ~BeingDeleted(x)
    <3> SUFFICES ASSUME NEW y \in Thread, arg[y] = x, pc[y] \in Deleting PROVE FALSE
      BY DEF BeingDeleted, Deleting
    <3>1. ~(arg'[y] = x /\ pc'[y] \in Deleting) BY DEF BeingDeleted, Deleting
    <3>2. y = t BY <1>2, <3>1
    <3> QED BY <1>1, <1>2, <3>1, <3>2
  <2>3. ~Off(k, x) BY <2>1, <2>2 DEF Queued
  <2> QED BY <1>5, <2>3
<1>11. \A x \in Thread : (DeadThread(x) /\ Freed(x) /\ Queued(x))'
  BY <1>8, <1>9, <1>10
<1>12. k.nest > 0 => k'.cur = k.cur BY DEF Handed
<1> QED BY <1>3, <1>4, <1>7, <1>11, <1>12 DEF SafeStep

\* A step that changes no thread.
LEMMA NoChange ==
  ASSUME IInv, NEW t \in Thread, NEW l \in Label,
         KernelOK(k'), Still(k, k'), Handed(k, k'),
         isr' \in {"none", "timer"}, owed' \in BOOLEAN, alloc' = alloc, arg' = arg,
         pc' = [pc EXCEPT ![t] = l],
         l = pc[t] \/ (k.cur = t /\ pc[t] \notin Busy /\ l \notin Busy),
         pc[t] = "exit_sched" => l = "exit_sched",
         Current', Locked', Pending'
  PROVE  SafeStep
<1> USE DEF IInv
<1>1. Idle \in Thread /\ NoThread \notin Thread BY ThreadAssumption
<1>2. \A x \in Thread : arg[x] # Idle BY <1>1 DEF Windows, Window
<1>3. arg[t] \in Thread \cup {NoThread} /\ arg' = [arg EXCEPT ![t] = arg[t]] BY DEF TypeOK
<1>4. Frame(k, k', Idle) BY DEF Still, Frame
<1>5. k'.stat[Idle] = "READY" /\ ~Off(k', Idle) BY IdleReady
<1>6. (arg[t] # NoThread <=> pc[t] \in Busy) /\ (arg[t] # NoThread <=> l \in Busy) BY DEF Hands
<1>7. DeadThread(Idle)' /\ Freed(Idle)' /\ Queued(Idle)' BY <1>5 DEF DeadThread, Freed, Queued
<1>8. arg[t] \in {NoThread, Idle} \/ l = pc[t] BY <1>6
<1>9. arg[t] \in Thread => l = pc[t] /\ arg[t] # Idle BY <1>1, <1>2, <1>6
<1>10. alloc' \in SUBSET Thread /\ Idle \in alloc' BY DEF TypeOK
<1> HIDE DEF IInv
<1> QED BY <1>1, <1>2, <1>3, <1>4, <1>6, <1>7, <1>8, <1>9, <1>10, OneThread

\* What a thread that makes a call may rely on.
LEMMA Caller ==
  ASSUME IInv, NEW t \in Thread, NEW from, Running(t, from)
  PROVE  /\ k.cur = t /\ pc[t] = from /\ isr = "none"
         /\ from \notin Leaving => k.stat[t] = "READY"
         /\ from \notin Busy => arg[t] = NoThread
         /\ from \in Busy => arg[t] \in Thread /\ Window(t, arg[t])
         /\ from # "exit_sched" => k.stat[t] # "CLOSE"
         /\ arg \in [Thread -> Thread \cup {NoThread}] /\ pc \in [Thread -> Label]
         /\ owed \in BOOLEAN /\ alloc \in SUBSET Thread
<1>1. k.cur = t /\ pc[t] = from /\ isr = "none" BY DEF Running
<1>2. from \notin Leaving => k.stat[t] = "READY" BY <1>1 DEF IInv, Current
<1>3. arg[t] # NoThread <=> from \in Busy BY <1>1 DEF IInv, Hands
<1>4. /\ arg \in [Thread -> Thread \cup {NoThread}] /\ pc \in [Thread -> Label]
      /\ owed \in BOOLEAN /\ alloc \in SUBSET Thread
  BY DEF IInv, TypeOK
<1>5. from \in Busy => arg[t] \in Thread /\ Window(t, arg[t]) BY <1>3, <1>4 DEF IInv, Windows
<1>6. from # "exit_sched" => k.stat[t] # "CLOSE" BY <1>1 DEF IInv, DeadThread
<1> QED BY <1>1, <1>2, <1>3, <1>4, <1>5, <1>6

\* A thread that no call works on.
LEMMA FreeThread ==
  ASSUME IInv, NEW u \in Thread, ~Held(u)
  PROVE  /\ \A x \in Thread : arg[x] # u
         /\ ~BeingDeleted(u)
         /\ k.stat[u] = "READY" => ~Off(k, u)
BY DEF Held, BeingDeleted, IInv, Queued

\* A thread in the hands of t is in nobody else's.
LEMMA OneHand ==
  ASSUME IInv, NEW t \in Thread, arg[t] \in Thread
  PROVE  \A x \in Thread \ {t} : arg[x] # arg[t]
BY ThreadAssumption DEF IInv, Hands

-----------------------------------------------------------------------------
(* Steps that move no thread.                                              *)

LEMMA SchedStep ==
  ASSUME IInv, NEW t \in Thread, NEW from, NEW to, Sched(t, from, to),
         <<from, to>> \in {<<"sched", "run">>, <<"run", "run">>,
                           <<"exit_sched", "exit_sched">>, <<"sleep_sched", "sleep_back">>}
  PROVE  SafeStep
<1>1. /\ Running(t, from) /\ k' = rt_schedule(k) /\ pc' = [pc EXCEPT ![t] = to]
      /\ isr' = isr /\ arg' = arg /\ alloc' = alloc /\ owed' \in BOOLEAN
  BY DEF Sched, ScheduleStep, Goto
<1>2. /\ k.cur = t /\ pc[t] = from /\ isr = "none" /\ pc \in [Thread -> Label]
  BY <1>1, Caller
<1>3. KernelOK(k') /\ Still(k, k') /\ Chosen(k, k') BY <1>1, Dispatch DEF IInv
<1>4. k.nest \in Nat BY KernelFields DEF IInv, KernelOK
<1>5. to \in Label /\ from \notin Busy /\ to \notin Busy
      /\ (from = "exit_sched" => to = "exit_sched")
  BY DEF Label, Busy, Insertable, Deleting, Dead
<1>6. k.nest > 0 => k'.cur = t /\ k'.stat[t] = "READY" /\ to = "run"
  BY <1>2, <1>3, <1>4 DEF IInv, Locked, Chosen, Still
<1>7. k.nest = 0 => k'.cur \in Thread /\ k'.stat[k'.cur] = "READY" /\ ~Off(k', k'.cur)
  BY <1>3 DEF Chosen
<1>8. k'.nest = k.nest BY <1>3 DEF Chosen
<1>9. Handed(k, k') BY <1>2, <1>4, <1>6, <1>7 DEF Handed
<1>10. Current' BY <1>4, <1>6, <1>7 DEF Current
<1>11. Locked' BY <1>1, <1>2, <1>6, <1>8 DEF Locked
<1>12. Pending' BY <1>1, <1>2 DEF Pending
<1> QED BY <1>1, <1>2, <1>3, <1>5, <1>9, <1>10, <1>11, <1>12, NoChange

LEMMA ScheduleSteps ==
  ASSUME IInv, NEW t \in Thread,
         Schedule(t) \/ ExitSchedule(t) \/ Reschedule(t) \/ SleepSchedule(t)
  PROVE  SafeStep
BY SchedStep DEF Schedule, ExitSchedule, Reschedule, SleepSchedule

\* A step of the caller that keeps the processor, from a call to a call.
LEMMA CallerStep ==
  ASSUME IInv, NEW t \in Thread, NEW from, NEW l \in {"run", "sched"}, Running(t, from),
         from \in {"run", "sleep_back"},
         KernelOK(k'), Still(k, k'), k'.cur = k.cur, k'.nest \in Nat,
         isr' = isr, owed' \in BOOLEAN, alloc' = alloc, arg' = arg,
         pc' = [pc EXCEPT ![t] = l]
  PROVE  SafeStep
<1>1. /\ k.cur = t /\ pc[t] = from /\ isr = "none" /\ k.stat[t] = "READY"
      /\ pc \in [Thread -> Label]
  BY Caller DEF Leaving
<1>2. k'.stat[t] = "READY" /\ k'.cur = t /\ pc'[t] = l BY <1>1 DEF Still
<1>3. l \in Label /\ from \notin Busy /\ l \notin Busy BY DEF Label, Busy, Insertable, Deleting, Dead
<1>4. Handed(k, k') BY DEF Handed
<1>5. Current' BY <1>2 DEF Current
<1>6. Locked' BY <1>2 DEF Locked
<1>7. Pending' BY <1>1 DEF Pending
<1> QED BY <1>1, <1>3, <1>4, <1>5, <1>6, <1>7, NoChange

LEMMA YieldStep ==
  ASSUME IInv, NEW t \in Thread, Yield(t)
  PROVE  SafeStep
<1>1. /\ Running(t, "run") /\ SharesQueue(k, t) /\ k' = ToQueueEnd(k, t) /\ owed' = TRUE
      /\ pc' = [pc EXCEPT ![t] = "sched"] /\ UNCHANGED <<isr, arg, alloc>>
  BY DEF Yield, Calls, Goto
<1>2. k.stat[t] = "READY" /\ arg[t] = NoThread
  BY <1>1, Caller DEF Leaving, Busy, Insertable, Deleting, Dead
<1>3. ~BeingDeleted(t)
  <2> SUFFICES ASSUME NEW x \in Thread, arg[x] = t, pc[x] \in Deleting PROVE FALSE
    BY DEF BeingDeleted, Deleting
  <2>1. k.cur # t BY DEF IInv, Windows, Window
  <2> QED BY <1>1, <2>1 DEF Running
<1>4. ~Off(k, t) BY <1>2, <1>3 DEF IInv, Queued
<1>5. KernelOK(k') /\ Still(k, k') /\ Kept(k, k') BY <1>1, <1>2, <1>4, RotateQueue DEF IInv
<1>6. k'.nest \in Nat BY <1>5, KernelFields DEF KernelOK
<1> QED BY <1>1, <1>5, <1>6, CallerStep DEF Kept

LEMMA SleepBackStep ==
  ASSUME IInv, NEW t \in Thread, SleepBack(t)
  PROVE  SafeStep
<1>1. /\ Running(t, "sleep_back") /\ pc' = [pc EXCEPT ![t] = "run"]
      /\ k' = [k EXCEPT !.err[t] = IF @ = "ETIMEOUT" THEN "EOK" ELSE @]
      /\ UNCHANGED <<isr, arg, alloc, owed>>
  BY DEF SleepBack, Goto
<1>2. k \in KernelState /\ owed \in BOOLEAN BY DEF IInv, KernelOK, TypeOK
<1>3. k.err[t] \in Error BY <1>2, KernelFields
<1> DEFINE e == IF k.err[t] = "ETIMEOUT" THEN "EOK" ELSE k.err[t]
<1>4. e \in Error BY <1>3 DEF Error
<1>5. k' = [k EXCEPT !.err = [k.err EXCEPT ![t] = e]] BY <1>1, <1>2 DEF KernelState
<1> HIDE DEF e
<1>6. k' \in KernelState /\ k'.nest \in Nat BY <1>2, <1>4, <1>5 DEF KernelState
<1>7. /\ k'.list = k.list /\ k'.group = k.group /\ k'.stat = k.stat /\ k'.prio = k.prio
      /\ k'.timers = k.timers /\ k'.cur = k.cur
  BY <1>2, <1>5 DEF KernelState
<1>8. KernelOK(k') /\ Still(k, k') BY <1>6, <1>7, Cosmetic DEF IInv, Still
<1> QED BY <1>1, <1>2, <1>6, <1>7, <1>8, CallerStep

LEMMA CriticalSteps ==
  ASSUME IInv, NEW t \in Thread, EnterCritical(t) \/ ExitCritical(t)
  PROVE  SafeStep
<1>1. k \in KernelState /\ k.nest \in Nat /\ owed \in BOOLEAN /\ pc \in [Thread -> Label]
  BY KernelFields DEF IInv, KernelOK, TypeOK
<1>2. PICK n \in Nat, l \in {"run", "sched"} :
        /\ Running(t, "run") /\ k' = [k EXCEPT !.nest = n] /\ pc' = [pc EXCEPT ![t] = l]
        /\ UNCHANGED <<isr, arg, alloc, owed>>
  <2>1. CASE EnterCritical(t)
    <3>1. k' = [k EXCEPT !.nest = k.nest + 1] /\ k.nest + 1 \in Nat
      BY <1>1, <2>1 DEF EnterCritical, rt_enter_critical
    <3>2. pc' = [pc EXCEPT ![t] = "run"] BY <1>1, <2>1 DEF EnterCritical, Calls, Running
    <3> QED BY <2>1, <3>1, <3>2 DEF EnterCritical, Calls
  <2>2. CASE ExitCritical(t)
    <3>1. k' = [k EXCEPT !.nest = k.nest - 1] /\ k.nest - 1 \in Nat
      BY <1>1, <2>2 DEF ExitCritical, rt_exit_critical
    <3>2. \E l \in {"run", "sched"} : pc' = [pc EXCEPT ![t] = l]
      BY <2>2 DEF ExitCritical, Goto
    <3> QED BY <2>2, <3>1, <3>2 DEF ExitCritical, Calls
  <2> QED BY <2>1, <2>2
<1>3. k' \in KernelState /\ k'.nest \in Nat BY <1>1, <1>2 DEF KernelState
<1>4. /\ k'.list = k.list /\ k'.group = k.group /\ k'.stat = k.stat /\ k'.prio = k.prio
      /\ k'.timers = k.timers /\ k'.cur = k.cur
  BY <1>1, <1>2 DEF KernelState
<1>5. KernelOK(k') /\ Still(k, k') BY <1>3, <1>4, Cosmetic DEF IInv, Still
<1> QED BY <1>1, <1>2, <1>3, <1>4, <1>5, CallerStep

LEMMA PriorityStep ==
  ASSUME IInv, NEW t \in Thread, NEW u \in Thread, NEW p \in Prio, Priority(t, u, p)
  PROVE  SafeStep
<1>1. /\ Running(t, "run") /\ Free(u) /\ u # Idle /\ k' = ChangePriority(k, u, p)
      /\ owed' = TRUE /\ UNCHANGED <<isr, pc, arg, alloc>>
  BY DEF Priority, Calls
<1>2. k.stat[u] = "READY" => ~Off(k, u) BY <1>1, FreeThread DEF Free
<1>3. KernelOK(k') /\ Still(k, k') /\ Kept(k, k') BY <1>1, <1>2, MovePriority DEF IInv
<1>4. k'.nest \in Nat BY <1>3, KernelFields DEF KernelOK
<1>5. pc' = [pc EXCEPT ![t] = "run"] BY <1>1, Caller DEF Running
<1> QED BY <1>1, <1>3, <1>4, <1>5, CallerStep DEF Kept

LEMMA StartStep ==
  ASSUME IInv, rt_system_scheduler_start
  PROVE  SafeStep
<1> DEFINE t == Head(k.list[Highest(k)])
<1>1. k' = [k EXCEPT !.cur = t] /\ k.cur = NoThread /\ UNCHANGED <<isr, pc, arg, alloc, owed>>
  BY DEF rt_system_scheduler_start
<1>2. t \in Thread /\ k.stat[t] = "READY" /\ ~Off(k, t) BY HighestReady DEF IInv
<1> HIDE DEF t
<1>3. KernelOK(k') /\ Still(k, k') /\ k'.cur = t /\ k'.nest = k.nest /\ k'.timers = k.timers
  BY <1>1, <1>2, SwitchTo DEF IInv
<1>4. k'.stat[t] = "READY" /\ ~Off(k', t) BY <1>2, <1>3 DEF Still
<1>5. Handed(k, k')
  <2>1. k.nest \in Nat BY KernelFields DEF IInv, KernelOK
  <2>2. k.nest = 0 BY <1>1, <2>1, ThreadAssumption DEF Locked, IInv
  <2> QED BY <1>2, <1>3, <1>4, <2>2 DEF Handed
<1>6. Current' BY <1>3, <1>4 DEF Current
<1>7. Locked' BY <1>1, <1>3, ThreadAssumption DEF Locked, IInv
<1>8. Pending' BY <1>1, <1>3 DEF Pending, IInv
<1>9. pc' = [pc EXCEPT ![Idle] = pc[Idle]] /\ pc[Idle] \in Label /\ Idle \in Thread
      /\ isr \in {"none", "timer"} /\ owed \in BOOLEAN
  BY <1>1, ThreadAssumption DEF IInv, TypeOK
<1> QED BY <1>1, <1>3, <1>5, <1>6, <1>7, <1>8, <1>9, NoChange

LEMMA TickStep ==
  ASSUME IInv, Tick
  PROVE  SafeStep
<1> DEFINE t == k.cur
<1>1. /\ k' = TickIncrease(k) /\ isr = "none" /\ t # NoThread /\ isr' = IsrAfter(k')
      /\ UNCHANGED <<pc, arg, alloc>> /\ owed' \in BOOLEAN
  BY DEF Tick, rt_tick_increase
<1>2. t \in Thread BY <1>1, KernelFields DEF IInv, KernelOK
<1>3. k.stat[t] = "READY" => ~Off(k, t)
  <2>1. ~BeingDeleted(t)
    <3> SUFFICES ASSUME NEW x \in Thread, arg[x] = t, pc[x] \in Deleting PROVE FALSE
      BY DEF BeingDeleted, Deleting
    <3> QED BY <1>2 DEF IInv, Windows, Window
  <2> QED BY <1>2, <2>1 DEF IInv, Queued
<1>4. /\ KernelOK(k') /\ Still(k, k') /\ (Kept(k, k') \/ Chosen(k, k'))
      /\ k'.timers = k.timers
  BY <1>1, <1>2, <1>3, TickThreads DEF IInv
<1>5. Handed(k, k') BY <1>4 DEF Handed, Kept, Chosen
<1>6. k'.nest = k.nest BY <1>4 DEF Kept, Chosen
<1>7. k'.cur = k.cur \/ (k.nest = 0 /\ k'.cur \in Thread /\ k'.stat[k'.cur] = "READY")
  BY <1>4 DEF Kept, Chosen
<1>8. k'.stat[t] = k.stat[t] BY <1>2, <1>4 DEF Still
<1>9. Current' BY <1>1, <1>7, <1>8 DEF Current, IInv
<1>10. k.nest \in Nat BY KernelFields DEF IInv, KernelOK
<1>11. Locked' BY <1>1, <1>6, <1>7, <1>8, <1>10 DEF Locked, IInv
<1>12. isr' \in {"none", "timer"} /\ Pending' BY <1>1 DEF IsrAfter, TimerExpired, Pending
<1>13. pc' = [pc EXCEPT ![t] = pc[t]] /\ pc[t] \in Label BY <1>1, <1>2 DEF IInv, TypeOK
<1> QED BY <1>1, <1>2, <1>4, <1>5, <1>9, <1>11, <1>12, <1>13, NoChange

-----------------------------------------------------------------------------
(* Steps of a caller t that works on a thread u, which may be t itself.    *)

LEMMA CallStep ==
  ASSUME IInv, NEW t \in Thread, NEW u \in Thread, NEW from, Running(t, from),
         from # "exit_sched",
         NEW a \in {NoThread, u}, NEW l \in Label,
         KernelOK(k'), Frame(k, k', u), Kept(k, k'),
         isr' = isr, owed' \in BOOLEAN, alloc' \in SUBSET Thread, Idle \in alloc',
         \A x \in Thread \ {u} : x \in alloc' <=> x \in alloc,
         arg' = [arg EXCEPT ![t] = a], pc' = [pc EXCEPT ![t] = l],
         arg[t] \in {NoThread, u},
         a # NoThread <=> l \in Busy,
         \A x \in Thread \ {t} : arg[x] # u,
         a = u => Window(t, u)',
         DeadThread(u)', Freed(u)', Queued(u)',
         l \notin Leaving => k'.stat[t] = "READY",
         k.nest > 0 => /\ k'.stat[t] = "READY"
                       /\ l \notin {"suspend_body", "sleep_sched", "exit_sched"}
  PROVE  SafeStep
<1>1. /\ k.cur = t /\ pc[t] = from /\ isr = "none" /\ pc \in [Thread -> Label]
  BY Caller
<1>2. k'.cur = t /\ k'.nest = k.nest /\ pc'[t] = l BY <1>1 DEF Kept
<1>3. Handed(k, k') BY <1>1, <1>2 DEF Handed
<1>4. Current' BY <1>2 DEF Current
<1>5. Locked' BY <1>2 DEF Locked
<1>6. Pending' BY <1>1 DEF Pending
<1>7. a \in Thread \cup {NoThread} /\ (a \in Thread => a = u) BY ThreadAssumption
<1> QED BY <1>1, <1>3, <1>4, <1>5, <1>6, <1>7, OneThread

\* The same, with the hypotheses about the step in one definition.
Called(t, u, a, l) ==
  /\ a \in {NoThread, u} /\ l \in Label
  /\ KernelOK(k') /\ Frame(k, k', u) /\ Kept(k, k')
  /\ isr' = isr /\ owed' \in BOOLEAN /\ alloc' \in SUBSET Thread /\ Idle \in alloc'
  /\ \A x \in Thread \ {u} : x \in alloc' <=> x \in alloc
  /\ arg' = [arg EXCEPT ![t] = a] /\ pc' = [pc EXCEPT ![t] = l]
  /\ arg[t] \in {NoThread, u}
  /\ a # NoThread <=> l \in Busy
  /\ \A x \in Thread \ {t} : arg[x] # u
  /\ a = u => Window(t, u)'
  /\ DeadThread(u)' /\ Freed(u)' /\ Queued(u)'
  /\ l \notin Leaving => k'.stat[t] = "READY"
  /\ k.nest > 0 => /\ k'.stat[t] = "READY"
                   /\ l \notin {"suspend_body", "sleep_sched", "exit_sched"}

LEMMA CalledStep ==
  ASSUME IInv, NEW t \in Thread, NEW u \in Thread, NEW from, Running(t, from),
         from # "exit_sched", NEW a, NEW l, Called(t, u, a, l)
  PROVE  SafeStep
<1>1. a \in {NoThread, u} /\ l \in Label BY DEF Called
<1> QED BY <1>1, CallStep DEF Called

\* A thread object that is on no list and has no timer is given new fields.
LEMMA CreatedOK ==
  ASSUME NEW s, KernelOK(s), NEW u \in Thread, Off(s, u), u \notin Timed(s)
  PROVE  LET r == CreatedThread(s, u)
         IN  /\ KernelOK(r) /\ Frame(s, r, u) /\ Kept(s, r) /\ r.timers = s.timers
             /\ r.stat[u] = "INIT" /\ Off(r, u) /\ u \notin Timed(r)
<1> DEFINE r == CreatedThread(s, u)
<1>1. InitPrio[u] \in Prio /\ InitTick \in 1..InitTick BY ProgAssumption, BoundAssumption
<1>2. s \in KernelState BY DEF KernelOK
<1>3. r \in KernelState BY <1>1, <1>2 DEF CreatedThread, KernelState, Stat, Error
<1>4. /\ r.list = s.list /\ r.group = s.group /\ r.timers = s.timers
      /\ r.cur = s.cur /\ r.nest = s.nest /\ r.stat[u] = "INIT"
      /\ \A x \in Thread \ {u} : r.stat[x] = s.stat[x] /\ r.prio[x] = s.prio[x]
  BY <1>2 DEF CreatedThread, KernelState
<1> HIDE DEF r
<1>5. KernelOK(r) /\ Frame(s, r, u) /\ Off(r, u) /\ Timed(r) = Timed(s)
  BY <1>3, <1>4, Restate
<1> QED BY <1>4, <1>5 DEF Kept, r

LEMMA StartedOK ==
  ASSUME NEW s, KernelOK(s), NEW u \in Thread, Off(s, u), u \notin Timed(s)
  PROVE  LET r == StartedThread(s, u)
         IN  /\ KernelOK(r) /\ Frame(s, r, u) /\ Kept(s, r)
             /\ r.stat[u] = "SUSPEND" /\ Off(r, u) /\ u \notin Timed(r)
<1> DEFINE q == [s EXCEPT !.stat[u] = "SUSPEND", !.prio[u] = s.init[u]]
           r == ResumeUnlink(q, u)
<1>1. s \in KernelState /\ s.init[u] \in Prio BY KernelFields DEF KernelOK
<1>2. q \in KernelState BY <1>1 DEF KernelState, Stat
<1>3. /\ q.list = s.list /\ q.group = s.group /\ q.timers = s.timers
      /\ q.cur = s.cur /\ q.nest = s.nest /\ q.stat[u] = "SUSPEND"
      /\ \A x \in Thread \ {u} : q.stat[x] = s.stat[x] /\ q.prio[x] = s.prio[x]
  BY <1>1 DEF KernelState
<1>4. StartedThread(s, u) = r BY DEF StartedThread
<1> HIDE DEF q
<1>5. KernelOK(q) /\ Frame(s, q, u) /\ Off(q, u) /\ Timed(q) = Timed(s)
  BY <1>2, <1>3, Restate
<1>6. /\ KernelOK(r) /\ Frame(q, r, u) /\ Kept(q, r)
      /\ r.stat[u] = q.stat[u] /\ Off(r, u) /\ u \notin Timed(r)
  BY <1>3, <1>5, UnlinkSuspended
<1> HIDE DEF r
<1>7. Frame(s, r, u) /\ Kept(s, r) BY <1>3, <1>5, <1>6, FrameTrans DEF Kept
<1> QED BY <1>3, <1>4, <1>6, <1>7

LEMMA ClosedOK ==
  ASSUME NEW s, KernelOK(s), NEW u \in Thread, Off(s, u), u \notin Timed(s)
  PROVE  LET r == [s EXCEPT !.stat[u] = "CLOSE"]
         IN  /\ KernelOK(r) /\ Frame(s, r, u) /\ Kept(s, r)
             /\ r.stat[u] = "CLOSE" /\ Off(r, u) /\ u \notin Timed(r)
<1> DEFINE r == [s EXCEPT !.stat[u] = "CLOSE"]
<1>1. s \in KernelState BY DEF KernelOK
<1>2. r \in KernelState BY <1>1 DEF KernelState, Stat
<1>3. /\ r.list = s.list /\ r.group = s.group /\ r.timers = s.timers
      /\ r.cur = s.cur /\ r.nest = s.nest /\ r.stat[u] = "CLOSE"
      /\ \A x \in Thread \ {u} : r.stat[x] = s.stat[x] /\ r.prio[x] = s.prio[x]
  BY <1>1 DEF KernelState
<1> HIDE DEF r
<1>4. KernelOK(r) /\ Frame(s, r, u) /\ Off(r, u) /\ Timed(r) = Timed(s)
  BY <1>2, <1>3, Restate
<1> QED BY <1>3, <1>4 DEF Kept, r

\* A thread that is not READY, SUSPENDed or CLOSEd is on no list.
LEMMA InitIsOff ==
  ASSUME NEW s, KernelOK(s), NEW u \in Thread, s.stat[u] = "INIT"
  PROVE  Off(s, u) /\ u \notin Timed(s)
BY DEF KernelOK, Placed, Off, ListHead

LEMMA StartupStep ==
  ASSUME IInv, NEW t \in Thread, NEW u \in Thread, Startup(t, u)
  PROVE  SafeStep
<1> DEFINE l == "startup_insert"
<1>1. /\ Running(t, "run") /\ Free(u) /\ k.stat[u] = "INIT" /\ k' = StartedThread(k, u)
      /\ pc' = [pc EXCEPT ![t] = l] /\ arg' = [arg EXCEPT ![t] = u]
      /\ UNCHANGED <<isr, alloc, owed>>
  BY DEF Startup, Calls, Work, Goto
<1>2. /\ KernelOK(k') /\ Frame(k, k', u) /\ Kept(k, k')
      /\ k'.stat[u] = "SUSPEND" /\ Off(k', u) /\ u \notin Timed(k')
  BY <1>1, InitIsOff, StartedOK DEF IInv
<1>3. /\ l \in Label /\ l \in Busy /\ l \notin Leaving /\ l \notin Deleting /\ l \notin Dead
  BY DEF Label, Busy, Insertable, Leaving, Deleting, Dead
<1>4. /\ k.stat[t] = "READY" /\ arg[t] = NoThread /\ owed \in BOOLEAN /\ alloc \in SUBSET Thread
      /\ pc \in [Thread -> Label]
  BY <1>1, Caller DEF Leaving, Busy, Insertable, Deleting, Dead
<1>5. u # t /\ u # Idle /\ u \in alloc /\ Idle \in alloc
  BY <1>1, <1>4, IdleReady DEF Free, IInv
<1>6. k'.stat[t] = "READY" BY <1>2, <1>4, <1>5 DEF Frame
<1>7. pc'[t] = l BY <1>1, <1>4
<1>8. Window(t, u)' BY <1>1, <1>2, <1>3, <1>5, <1>7 DEF Window
<1>9. DeadThread(u)' /\ Freed(u)' /\ Queued(u)'
  BY <1>1, <1>2, <1>5 DEF DeadThread, Freed, Queued
<1>10. \A x \in Thread : arg[x] # u BY <1>1, FreeThread DEF Free
<1>11. u # NoThread BY ThreadAssumption
<1> QED BY <1>1, <1>2, <1>3, <1>4, <1>5, <1>6, <1>8, <1>9, <1>10, <1>11, CallStep

LEMMA InsertStep ==
  ASSUME IInv, NEW t \in Thread, NEW u \in Thread, arg[t] = u, StartupInsert(t) \/ ResumeInsert(t)
  PROVE  SafeStep
<1>1. PICK from \in {"startup_insert", "resume_insert"}, l \in {"run", "sched"} :
        /\ Running(t, from) /\ k' = rt_schedule_insert_thread(k, u)
        /\ pc' = [pc EXCEPT ![t] = l] /\ arg' = [arg EXCEPT ![t] = NoThread]
        /\ UNCHANGED <<isr, alloc>> /\ owed' = TRUE
  BY DEF StartupInsert, ResumeInsert, Work, Goto
<1>2. from \in Busy /\ from \in Insertable /\ from \in Unlinked /\ from \notin Leaving
  BY DEF Busy, Insertable, Unlinked, Leaving
<1>3. l \in Label /\ l \notin Busy BY DEF Label, Busy, Insertable, Deleting, Dead
<1>4. /\ u \in Thread /\ Window(t, u) /\ k.stat[t] = "READY" /\ pc[t] = from
      /\ alloc \in SUBSET Thread
  BY <1>1, <1>2, Caller
<1>5. u \in alloc /\ k.stat[u] = "SUSPEND" /\ u \notin Timed(k) /\ Off(k, u)
  BY <1>2, <1>4 DEF Window
<1>6. \A x \in Thread \ {t} : arg[x] # u BY <1>4, OneHand
<1>7. /\ KernelOK(k') /\ Frame(k, k', u) /\ Kept(k, k')
      /\ k'.stat[u] = "READY" /\ ~Off(k', u)
  BY <1>1, <1>4, <1>5, InsertThread DEF IInv
<1>8. u # t /\ k'.stat[t] = "READY" BY <1>4, <1>5, <1>7 DEF Frame
<1>9. DeadThread(u)' /\ Freed(u)' /\ Queued(u)'
  BY <1>1, <1>5, <1>7 DEF DeadThread, Freed, Queued
<1>10. Idle \in alloc' BY <1>1 DEF IInv
<1>11. from # "exit_sched" /\ l # "suspend_body" /\ l # "sleep_sched" /\ l # "exit_sched"
  OBVIOUS
<1>13. NoThread # u BY <1>4, ThreadAssumption
<1> QED BY <1>1, <1>3, <1>4, <1>6, <1>7, <1>8, <1>9, <1>10, <1>11, <1>13, CallStep

LEMMA SleepStep ==
  ASSUME IInv, NEW t \in Thread, NEW n \in 0..MaxDelay, Sleep(t, n)
  PROVE  SafeStep
<1> DEFINE l == "sleep_sched"
<1>1. /\ Running(t, "run") /\ "sleep" \in Prog[t] /\ k.nest = 0 /\ ~Held(t)
      /\ k' = rt_thread_sleep(k, t, n)
      /\ pc' = [pc EXCEPT ![t] = l] /\ UNCHANGED <<isr, arg, alloc, owed>>
  BY DEF Sleep, Calls, Goto
<1>2. t # Idle BY <1>1, ProgAssumption
<1>3. /\ k.stat[t] = "READY" /\ arg[t] = NoThread /\ owed \in BOOLEAN /\ alloc \in SUBSET Thread
      /\ arg \in [Thread -> Thread \cup {NoThread}] /\ k.stat[t] # "CLOSE"
  BY <1>1, Caller DEF Leaving, Busy, Insertable, Deleting, Dead
<1>4. n \in Nat BY BoundAssumption
<1>5. KernelOK(k') /\ Frame(k, k', t) /\ Kept(k, k') /\ k'.stat[t] = "SUSPEND" /\ Off(k', t)
  BY <1>1, <1>2, <1>3, <1>4, SleepThread DEF IInv
<1>6. l \in Label /\ l \notin Busy /\ l \in Leaving
  BY DEF Label, Busy, Insertable, Deleting, Dead, Leaving
<1>7. arg' = [arg EXCEPT ![t] = NoThread] BY <1>1, <1>3
<1>8. \A x \in Thread : arg[x] # t BY <1>1, FreeThread
<1>9. t \in alloc /\ Idle \in alloc BY <1>3 DEF IInv, Freed
<1>10. DeadThread(t)' /\ Freed(t)' /\ Queued(t)'
  BY <1>1, <1>5, <1>9 DEF DeadThread, Freed, Queued
<1>11. NoThread # t BY ThreadAssumption
<1>12. /\ isr' = isr /\ owed' \in BOOLEAN /\ alloc' \in SUBSET Thread /\ Idle \in alloc'
       /\ \A x \in Thread \ {t} : x \in alloc' <=> x \in alloc
       /\ ~(k.nest > 0)
  BY <1>1, <1>3, <1>9
<1> HIDE DEF l
<1> QED BY <1>1, <1>3, <1>5, <1>6, <1>7, <1>8, <1>10, <1>11, <1>12, CallStep

\* rt_thread_suspend and rt_thread_resume up to the test of the state.
LEMMA TestStep ==
  ASSUME IInv, NEW t \in Thread, NEW u \in Thread, Suspend(t, u) \/ Resume(t, u)
  PROVE  SafeStep
<1>1. PICK l \in {"suspend_body", "resume_body"} :
        /\ Running(t, "run") /\ Free(u) /\ k' = k
        /\ l = "suspend_body" => k.nest = 0 /\ k.stat[u] = "READY" /\ u # Idle
        /\ l = "resume_body" => k.stat[u] = "SUSPEND" /\ u \notin Timed(k)
        /\ pc' = [pc EXCEPT ![t] = l] /\ arg' = [arg EXCEPT ![t] = u]
        /\ UNCHANGED <<isr, alloc, owed>>
  BY DEF Suspend, Resume, Calls, Work, Goto, Quiet, TimerActive, Timed
<1>2. /\ l \in Label /\ l \in Busy /\ l \notin Leaving /\ l \notin Deleting /\ l \notin Dead
      /\ l \notin Unlinked /\ (l \in Insertable <=> l = "resume_body")
  BY DEF Label, Busy, Insertable, Leaving, Deleting, Dead, Unlinked
<1>3. /\ k.stat[t] = "READY" /\ arg[t] = NoThread /\ owed \in BOOLEAN /\ alloc \in SUBSET Thread
      /\ pc \in [Thread -> Label]
  BY <1>1, Caller DEF Leaving, Busy, Insertable, Deleting, Dead
<1>4. u \in alloc /\ k.stat[u] # "CLOSE" /\ Idle \in alloc BY <1>1 DEF Free, IInv
<1>5. u # Idle BY <1>1, IdleReady DEF IInv
<1>6. Frame(k, k', u) /\ Kept(k, k') /\ KernelOK(k') BY <1>1 DEF Frame, Kept, IInv
<1>7. pc'[t] = l BY <1>1, <1>3
<1>8. Window(t, u)' BY <1>1, <1>2, <1>4, <1>5, <1>7 DEF Window
<1>9. (\A x \in Thread : arg[x] # u) /\ (k.stat[u] = "READY" => ~Off(k, u))
  BY <1>1, FreeThread DEF Free
<1>10. DeadThread(u)' /\ Freed(u)' /\ Queued(u)'
  BY <1>1, <1>4, <1>9 DEF DeadThread, Freed, Queued
<1>11. NoThread # u BY ThreadAssumption
<1>12. k.nest > 0 => l # "suspend_body" BY <1>1
<1> QED
  BY <1>1, <1>2, <1>3, <1>4, <1>6, <1>8, <1>9, <1>10, <1>11, <1>12, CallStep

LEMMA SuspendBodyStep ==
  ASSUME IInv, NEW t \in Thread, NEW u \in Thread, arg[t] = u, SuspendBody(t)
  PROVE  SafeStep
<1> DEFINE l == IF u = t THEN "sched" ELSE "run"
<1>1. /\ Running(t, "suspend_body")
      /\ k' = rt_timer_stop(rt_schedule_remove_thread([k EXCEPT !.stat[u] = "SUSPEND"], u), u)
      /\ pc' = [pc EXCEPT ![t] = l] /\ arg' = [arg EXCEPT ![t] = NoThread]
      /\ UNCHANGED <<isr, alloc, owed>>
  BY DEF SuspendBody, Work, Goto
<1>2. "suspend_body" \in Busy /\ "suspend_body" \notin Leaving
  BY DEF Busy, Leaving
<1>3. l \in Label /\ l \notin Busy BY DEF Label, Busy, Insertable, Deleting, Dead
<1>4. /\ u \in Thread /\ Window(t, u) /\ k.stat[t] = "READY" /\ pc[t] = "suspend_body"
      /\ k.cur = t /\ owed \in BOOLEAN /\ alloc \in SUBSET Thread
  BY <1>1, <1>2, Caller
<1>5. u \in alloc /\ u # Idle /\ Idle \in alloc BY <1>4 DEF Window, IInv
<1>6. \A x \in Thread \ {t} : arg[x] # u BY <1>4, OneHand
<1>7. ~(k.nest > 0) BY <1>4 DEF IInv, Locked
<1>8. /\ KernelOK(k') /\ Frame(k, k', u) /\ Kept(k, k') /\ k'.stat[u] = "SUSPEND"
  BY <1>1, <1>4, <1>5, SuspendThread DEF IInv
<1>9. l \notin Leaving => k'.stat[t] = "READY"
  BY <1>4, <1>8 DEF Frame, Leaving
<1>10. DeadThread(u)' /\ Freed(u)' /\ Queued(u)'
  BY <1>1, <1>5, <1>8 DEF DeadThread, Freed, Queued
<1>11. NoThread # u BY <1>4, ThreadAssumption
<1>12. /\ isr' = isr /\ owed' \in BOOLEAN /\ alloc' \in SUBSET Thread /\ Idle \in alloc'
       /\ \A x \in Thread \ {u} : x \in alloc' <=> x \in alloc
  BY <1>1, <1>4, <1>5
<1> HIDE DEF l
<1>13. /\ NoThread \in {NoThread, u} /\ arg[t] \in {NoThread, u}
       /\ NoThread # NoThread <=> l \in Busy
       /\ NoThread = u => Window(t, u)'
  BY <1>3, <1>11
<1>14. k.nest > 0 => /\ k'.stat[t] = "READY"
                     /\ l \notin {"suspend_body", "sleep_sched", "exit_sched"}
  BY <1>7
<1>15. "suspend_body" # "exit_sched" OBVIOUS
<1>16. Running(t, "suspend_body") /\ arg' = [arg EXCEPT ![t] = NoThread] /\ pc' = [pc EXCEPT ![t] = l]
  BY <1>1
<1> QED BY <1>3, <1>6, <1>8, <1>9, <1>10, <1>12, <1>13, <1>14, <1>15, <1>16, CallStep

LEMMA ResumeBodyStep ==
  ASSUME IInv, NEW t \in Thread, NEW u \in Thread, arg[t] = u, ResumeBody(t)
  PROVE  SafeStep
<1> DEFINE l == "resume_insert"
<1>1. /\ Running(t, "resume_body") /\ k' = ResumeUnlink(k, u)
      /\ pc' = [pc EXCEPT ![t] = l] /\ UNCHANGED <<isr, arg, alloc, owed>>
  BY DEF ResumeBody, Goto
<1>2. "resume_body" \in Busy /\ "resume_body" \in Insertable /\ "resume_body" \notin Leaving
  BY DEF Busy, Insertable, Leaving
<1>3. /\ l \in Label /\ l \in Busy /\ l \notin Leaving /\ l \notin Deleting /\ l \notin Dead
  BY DEF Label, Busy, Insertable, Leaving, Deleting, Dead
<1>4. /\ u \in Thread /\ Window(t, u) /\ k.stat[t] = "READY" /\ pc[t] = "resume_body"
      /\ owed \in BOOLEAN /\ alloc \in SUBSET Thread /\ pc \in [Thread -> Label]
      /\ arg \in [Thread -> Thread \cup {NoThread}]
  BY <1>1, <1>2, Caller
<1>5. u \in alloc /\ u # Idle /\ Idle \in alloc /\ k.stat[u] = "SUSPEND"
  BY <1>2, <1>4 DEF Window, IInv
<1>6. \A x \in Thread \ {t} : arg[x] # u BY <1>4, OneHand
<1>7. arg' = [arg EXCEPT ![t] = u] /\ arg[t] = u BY <1>1, <1>4
<1>8. /\ KernelOK(k') /\ Frame(k, k', u) /\ Kept(k, k')
      /\ k'.stat[u] = "SUSPEND" /\ Off(k', u) /\ u \notin Timed(k')
  BY <1>1, <1>4, <1>5, UnlinkSuspended DEF IInv
<1>9. u # t /\ k'.stat[t] = "READY" BY <1>4, <1>5, <1>8 DEF Frame
<1>10. pc'[t] = l BY <1>1, <1>4
<1>11. Window(t, u)' BY <1>1, <1>3, <1>5, <1>8, <1>10 DEF Window
<1>12. DeadThread(u)' /\ Freed(u)' /\ Queued(u)'
  BY <1>1, <1>5, <1>8 DEF DeadThread, Freed, Queued
<1>13. NoThread # u BY <1>4, ThreadAssumption
<1> QED
  BY <1>1, <1>3, <1>4, <1>5, <1>6, <1>7, <1>8, <1>9, <1>11, <1>12, <1>13, CallStep

-----------------------------------------------------------------------------
(* Deletion, exit and the idle thread.                                     *)

LEMMA DeleteStep ==
  ASSUME IInv, DeleteTimed = FALSE, NEW t \in Thread, NEW u \in Thread, Delete(t, u)
  PROVE  SafeStep
<1> DEFINE l == "delete_timer"
<1>1. /\ Running(t, "run") /\ u # t /\ u # Idle /\ Free(u) /\ arg[u] = NoThread
      /\ u \notin Timed(k)
      /\ k' = IF k.stat[u] # "INIT" THEN rt_schedule_remove_thread(k, u) ELSE k
      /\ pc' = [pc EXCEPT ![t] = l] /\ arg' = [arg EXCEPT ![t] = u]
      /\ UNCHANGED <<isr, alloc, owed>>
  BY DEF Delete, Calls, Work, Goto, Quiet, TimerActive, Timed
<1>2. /\ l \in Label /\ l \in Busy /\ l \notin Leaving /\ l \in Deleting /\ l \notin Dead
      /\ l # "suspend_body" /\ l \notin Insertable
  BY DEF Label, Busy, Leaving, Deleting, Dead, Insertable
<1>3. /\ k.stat[t] = "READY" /\ arg[t] = NoThread /\ owed \in BOOLEAN /\ alloc \in SUBSET Thread
      /\ pc \in [Thread -> Label] /\ arg \in [Thread -> Thread \cup {NoThread}] /\ k.cur = t
  BY <1>1, Caller DEF Leaving, Busy, Insertable, Deleting, Dead
<1>4. u \in alloc /\ k.stat[u] # "CLOSE" /\ Idle \in alloc BY <1>1 DEF Free, IInv
<1>5. /\ KernelOK(k') /\ Frame(k, k', u) /\ Kept(k, k')
      /\ k'.stat[u] = k.stat[u] /\ Off(k', u) /\ u \notin Timed(k')
  <2>1. CASE k.stat[u] = "INIT"
    <3>1. k' = k BY <1>1, <2>1
    <3>2. Off(k, u) BY <2>1, InitIsOff DEF IInv
    <3> QED BY <1>1, <3>1, <3>2 DEF Frame, Kept, IInv
  <2>2. CASE k.stat[u] # "INIT"
    <3>1. k' = rt_schedule_remove_thread(k, u) BY <1>1, <2>2
    <3> QED BY <1>1, <3>1, RemovePlain DEF IInv
  <2> QED BY <2>1, <2>2
<1>6. pc'[t] = l /\ arg'[u] = NoThread /\ k'.cur # u BY <1>1, <1>3, <1>5 DEF Kept
<1>7. Window(t, u)' BY <1>1, <1>2, <1>4, <1>5, <1>6 DEF Window
<1>8. k'.stat[t] = "READY" BY <1>1, <1>3, <1>5 DEF Frame
<1>9. \A x \in Thread : arg[x] # u BY <1>1, FreeThread DEF Free
<1>10. BeingDeleted(u)'
  <2>1. arg'[t] = u BY <1>1, <1>3
  <2> QED BY <2>1, <1>6 DEF BeingDeleted
<1>11. DeadThread(u)' /\ Freed(u)' /\ Queued(u)'
  BY <1>1, <1>4, <1>5, <1>10 DEF DeadThread, Freed, Queued
<1>12. u # NoThread /\ u \in {NoThread, u} /\ arg[t] \in {NoThread, u} BY <1>3, ThreadAssumption
<1>13. /\ isr' = isr /\ owed' \in BOOLEAN /\ alloc' \in SUBSET Thread /\ Idle \in alloc'
       /\ \A x \in Thread \ {u} : x \in alloc' <=> x \in alloc
  BY <1>1, <1>3, <1>4
<1>14. k.nest > 0 => /\ k'.stat[t] = "READY"
                     /\ l \notin {"suspend_body", "sleep_sched", "exit_sched"}
  BY <1>8
<1> HIDE DEF l
<1> QED BY <1>1, <1>2, <1>5, <1>7, <1>8, <1>9, <1>11, <1>12, <1>13, <1>14, CallStep

LEMMA DeleteTimerStep ==
  ASSUME IInv, NEW t \in Thread, NEW u \in Thread, arg[t] = u, DeleteTimer(t)
  PROVE  SafeStep
<1> DEFINE l == "delete_close"
<1>1. /\ Running(t, "delete_timer") /\ k' = rt_timer_stop(k, u)
      /\ pc' = [pc EXCEPT ![t] = l] /\ UNCHANGED <<isr, arg, alloc, owed>>
  BY DEF DeleteTimer, Goto
<1>2. /\ "delete_timer" \in Busy /\ "delete_timer" \in Deleting /\ "delete_timer" \notin Leaving
      /\ "delete_timer" \in Unlinked
  BY DEF Busy, Deleting, Leaving, Unlinked
<1>3. /\ l \in Label /\ l \in Busy /\ l \notin Leaving /\ l \in Deleting /\ l \notin Dead
      /\ l # "suspend_body" /\ l \notin Insertable
  BY DEF Label, Busy, Leaving, Deleting, Dead, Insertable
<1>4. /\ Window(t, u) /\ k.stat[t] = "READY" /\ pc[t] = "delete_timer" /\ k.cur = t
      /\ owed \in BOOLEAN /\ alloc \in SUBSET Thread /\ pc \in [Thread -> Label]
      /\ arg \in [Thread -> Thread \cup {NoThread}]
  BY <1>1, <1>2, Caller
<1>5. /\ u \in alloc /\ u # Idle /\ Idle \in alloc /\ Off(k, u) /\ k.stat[u] # "CLOSE"
      /\ k.cur # u /\ arg[u] = NoThread
  BY <1>2, <1>4 DEF Window, IInv
<1>6. /\ KernelOK(k') /\ Frame(k, k', u) /\ Kept(k, k')
      /\ k'.stat = k.stat /\ Off(k', u) /\ u \notin Timed(k')
  BY <1>1, <1>5, TimerStop DEF IInv
<1>7. pc'[t] = l /\ arg'[t] = u /\ arg'[u] = NoThread /\ k'.cur # u
  BY <1>1, <1>4, <1>5, <1>6 DEF Kept
<1>8. Window(t, u)' BY <1>1, <1>3, <1>5, <1>6, <1>7 DEF Window
<1>9. k'.stat[t] = "READY" BY <1>4, <1>6
<1>10. \A x \in Thread \ {t} : arg[x] # u BY <1>4, OneHand
<1>11. BeingDeleted(u)' BY <1>7 DEF BeingDeleted
<1>12. DeadThread(u)' /\ Freed(u)' /\ Queued(u)'
  BY <1>1, <1>5, <1>6, <1>11 DEF DeadThread, Freed, Queued
<1>13. /\ u # NoThread /\ u \in {NoThread, u} /\ arg[t] \in {NoThread, u}
       /\ arg' = [arg EXCEPT ![t] = u]
  BY <1>1, <1>4, ThreadAssumption
<1>14. /\ isr' = isr /\ owed' \in BOOLEAN /\ alloc' \in SUBSET Thread /\ Idle \in alloc'
       /\ \A x \in Thread \ {u} : x \in alloc' <=> x \in alloc
  BY <1>1, <1>4, <1>5
<1>15. k.nest > 0 => /\ k'.stat[t] = "READY"
                     /\ l \notin {"suspend_body", "sleep_sched", "exit_sched"}
  BY <1>9
<1> HIDE DEF l
<1> QED
  BY <1>1, <1>3, <1>6, <1>8, <1>9, <1>10, <1>12, <1>13, <1>14, <1>15, CallStep

LEMMA DeleteCloseStep ==
  ASSUME IInv, NEW t \in Thread, NEW u \in Thread, arg[t] = u, DeleteClose(t)
  PROVE  SafeStep
<1>1. "delete_close" \in Busy /\ "delete_close" \in Deleting /\ "delete_close" \notin Leaving
      /\ "delete_close" \in Unlinked
  BY DEF Busy, Deleting, Leaving, Unlinked
<1>2. /\ Running(t, "delete_close") /\ k' = [k EXCEPT !.stat[u] = "CLOSE"]
      /\ isr' = isr /\ owed' = owed
  BY DEF DeleteClose
<1>3. u \in Static => /\ alloc' = alloc \ {u} /\ pc' = [pc EXCEPT ![t] = "run"]
                      /\ arg' = [arg EXCEPT ![t] = NoThread]
  BY DEF DeleteClose, Work, Goto
<1>4. u \notin Static => /\ alloc' = alloc /\ pc' = [pc EXCEPT ![t] = "delete_put"]
                         /\ arg' = arg
  BY DEF DeleteClose, Goto
<1>5. /\ Window(t, u) /\ k.stat[t] = "READY" /\ pc[t] = "delete_close" /\ k.cur = t
      /\ owed \in BOOLEAN /\ alloc \in SUBSET Thread /\ pc \in [Thread -> Label]
      /\ arg \in [Thread -> Thread \cup {NoThread}]
  BY <1>1, <1>2, Caller
<1>6. /\ u \in alloc /\ u # Idle /\ Idle \in alloc /\ Off(k, u) /\ u \notin Timed(k)
      /\ k.cur # u /\ arg[u] = NoThread
  BY <1>1, <1>5 DEF Window, IInv
<1>7. /\ KernelOK(k') /\ Frame(k, k', u) /\ Kept(k, k')
      /\ k'.stat[u] = "CLOSE" /\ Off(k', u) /\ u \notin Timed(k')
  BY <1>2, <1>6, ClosedOK DEF IInv
<1>8. u # t /\ k'.cur # u /\ k'.stat[t] = "READY"
  BY <1>5, <1>6, <1>7 DEF Kept, Frame
<1>9. \A x \in Thread \ {t} : arg[x] # u BY <1>5, OneHand
<1>10. u # NoThread /\ NoThread \notin Thread BY ThreadAssumption
<1>11. Queued(u)' BY <1>7 DEF Queued
<1>12. isr' = isr /\ owed' \in BOOLEAN /\ arg[t] \in {NoThread, u}
  BY <1>2, <1>5
<1>13. Running(t, "delete_close") /\ "delete_close" # "exit_sched" BY <1>2
<1>14. CASE u \in Static
  <2> DEFINE l == "run"
  <2>1. l \in Label /\ l \notin Busy BY DEF Label, Busy, Insertable, Deleting, Dead
  <2>2. l \notin {"suspend_body", "sleep_sched", "exit_sched"} OBVIOUS
  <2>3. alloc' = alloc \ {u} /\ pc' = [pc EXCEPT ![t] = l] /\ arg' = [arg EXCEPT ![t] = NoThread]
    BY <1>3, <1>14
  <2> HIDE DEF l
  <2>4. \A x \in Thread : arg'[x] # u BY <1>5, <1>9, <1>10, <2>3
  <2>5. arg'[u] = NoThread BY <1>5, <1>6, <1>8, <2>3
  <2>6. DeadThread(u)' BY <1>8, <2>5 DEF DeadThread
  <2>7. Freed(u)' BY <1>7, <1>8, <2>4 DEF Freed, Held
  <2>8. alloc' \in SUBSET Thread /\ Idle \in alloc' /\ u \notin alloc'
        /\ \A x \in Thread \ {u} : x \in alloc' <=> x \in alloc
    BY <1>5, <1>6, <2>3
  <2>9. k.nest > 0 => /\ k'.stat[t] = "READY"
                      /\ l \notin {"suspend_body", "sleep_sched", "exit_sched"}
    BY <1>8, <2>2
  <2> DEFINE a == NoThread
  <2>10. /\ a \in {NoThread, u}
         /\ a # NoThread <=> l \in Busy
         /\ a = u => Window(t, u)'
    BY <2>1, <1>10
  <2>11. pc' = [pc EXCEPT ![t] = l] /\ arg' = [arg EXCEPT ![t] = a] BY <2>3
  <2>12. l \in Label /\ (l \notin Leaving => k'.stat[t] = "READY") BY <1>8, <2>1
  <2> HIDE DEF a
  <2>13. /\ Idle \in alloc' /\ alloc' \in SUBSET Thread
         /\ \A x \in Thread \ {u} : x \in alloc' <=> x \in alloc
    BY <2>8
  <2>14. Called(t, u, a, l)
    BY <1>7, <1>9, <1>11, <1>12, <2>6, <2>7, <2>9, <2>10, <2>11, <2>12, <2>13 DEF Called
  <2> QED BY <1>13, <2>14, CalledStep
<1>15. CASE u \notin Static
  <2> DEFINE l == "delete_put"
  <2>1. /\ l \in Label /\ l \in Busy /\ l \notin Leaving /\ l \notin Insertable
        /\ l \notin Deleting /\ l # "suspend_body"
    BY DEF Label, Busy, Insertable, Deleting, Dead, Leaving
  <2>2. l \notin {"suspend_body", "sleep_sched", "exit_sched"} OBVIOUS
  <2>3. alloc' = alloc /\ pc' = [pc EXCEPT ![t] = l] /\ arg' = arg BY <1>4, <1>15
  <2> HIDE DEF l
  <2>4. arg' = [arg EXCEPT ![t] = u] BY <1>5, <2>3
  <2>5. arg'[u] = NoThread /\ pc'[t] = l BY <1>5, <1>6, <2>3
  <2>6. DeadThread(u)' BY <1>8, <2>5 DEF DeadThread
  <2>7. Freed(u)' BY <1>6, <2>3 DEF Freed
  <2>8. /\ alloc' \in SUBSET Thread /\ Idle \in alloc' /\ u \in alloc'
        /\ \A x \in Thread \ {u} : x \in alloc' <=> x \in alloc
    BY <1>5, <1>6, <2>3
  <2>9. Window(t, u)' BY <1>6, <1>7, <2>1, <2>5, <2>8 DEF Window
  <2>10. k.nest > 0 => /\ k'.stat[t] = "READY"
                       /\ l \notin {"suspend_body", "sleep_sched", "exit_sched"}
    BY <1>8, <2>2
  <2> DEFINE a == u
  <2>11. /\ a \in {NoThread, u}
         /\ a # NoThread <=> l \in Busy
         /\ a = u => Window(t, u)'
    BY <2>1, <2>9, <1>10
  <2>12. pc' = [pc EXCEPT ![t] = l] /\ arg' = [arg EXCEPT ![t] = a] BY <2>3, <2>4
  <2>13. l \in Label /\ (l \notin Leaving => k'.stat[t] = "READY") BY <1>8, <2>1
  <2> HIDE DEF a
  <2>14. Called(t, u, a, l)
    BY <1>7, <1>9, <1>11, <1>12, <2>6, <2>7, <2>8, <2>10, <2>11, <2>12, <2>13 DEF Called
  <2> QED BY <1>13, <2>14, CalledStep
<1> QED BY <1>14, <1>15

LEMMA DeletePutStep ==
  ASSUME IInv, NEW t \in Thread, NEW u \in Thread, arg[t] = u, DeletePut(t)
  PROVE  SafeStep
<1> DEFINE l == "run"
<1>1. /\ Running(t, "delete_put") /\ k' = [k EXCEPT !.list[Defunct] = <<u>> \o @]
      /\ pc' = [pc EXCEPT ![t] = l] /\ arg' = [arg EXCEPT ![t] = NoThread]
      /\ UNCHANGED <<isr, alloc, owed>>
  BY DEF DeletePut, Work, Goto
<1>2. /\ "delete_put" \in Busy /\ "delete_put" \in Dead /\ "delete_put" \notin Leaving
      /\ "delete_put" \in Unlinked
  BY DEF Busy, Dead, Leaving, Unlinked
<1>3. l \in Label /\ l \notin Busy /\ l \notin Leaving
  BY DEF Label, Busy, Leaving, Deleting, Dead, Insertable
<1>4. /\ Window(t, u) /\ k.stat[t] = "READY" /\ pc[t] = "delete_put" /\ k.cur = t
      /\ owed \in BOOLEAN /\ alloc \in SUBSET Thread
      /\ arg \in [Thread -> Thread \cup {NoThread}]
  BY <1>1, <1>2, Caller
<1>5. /\ u \in alloc /\ u # Idle /\ Idle \in alloc /\ Off(k, u) /\ k.stat[u] = "CLOSE"
  BY <1>2, <1>4 DEF Window, IInv
<1>6. arg[u] = NoThread /\ u # t BY <1>4, <1>5 DEF IInv, DeadThread
<1>7. /\ KernelOK(k') /\ Frame(k, k', u) /\ Kept(k, k') /\ k'.stat = k.stat
  BY <1>1, <1>5, PutDefunct DEF IInv
<1>8. arg'[u] = NoThread /\ k'.cur # u /\ k'.stat[t] = "READY" /\ k'.stat[u] = "CLOSE"
  BY <1>1, <1>4, <1>5, <1>6, <1>7 DEF Kept
<1>9. DeadThread(u)' /\ Freed(u)' /\ Queued(u)'
  BY <1>1, <1>5, <1>8 DEF DeadThread, Freed, Queued
<1>10. \A x \in Thread \ {t} : arg[x] # u BY <1>4, OneHand
<1>11. /\ isr' = isr /\ owed' \in BOOLEAN /\ alloc' \in SUBSET Thread /\ Idle \in alloc'
       /\ \A x \in Thread \ {u} : x \in alloc' <=> x \in alloc
  BY <1>1, <1>4, <1>5
<1>12. k.nest > 0 => /\ k'.stat[t] = "READY"
                     /\ l \notin {"suspend_body", "sleep_sched", "exit_sched"}
  BY <1>8
<1>13. /\ NoThread \in {NoThread, u} /\ arg[t] \in {NoThread, u}
       /\ NoThread # NoThread <=> l \in Busy
       /\ NoThread = u => Window(t, u)'
  BY <1>3, ThreadAssumption
<1>14. /\ Running(t, "delete_put") /\ "delete_put" # "exit_sched" /\ l \in Label
       /\ arg' = [arg EXCEPT ![t] = NoThread] /\ pc' = [pc EXCEPT ![t] = l]
       /\ k'.stat[t] = "READY"
  BY <1>1, <1>3, <1>8
<1> HIDE DEF l
<1> QED BY <1>7, <1>9, <1>10, <1>11, <1>12, <1>13, <1>14, CallStep

LEMMA ExitKernel ==
  ASSUME NEW s, KernelOK(s), NEW t \in Thread \ {Idle}, s.stat[t] = "READY"
  PROVE  LET q == rt_timer_stop(rt_schedule_remove_thread(s, t), t)
             c == [q EXCEPT !.stat[t] = "CLOSE"]
             d == [q EXCEPT !.stat[t] = "CLOSE", !.list[Defunct] = <<t>> \o @]
         IN  /\ KernelOK(c) /\ Frame(s, c, t) /\ Kept(s, c) /\ c.stat[t] = "CLOSE" /\ Off(c, t)
             /\ KernelOK(d) /\ Frame(s, d, t) /\ Kept(s, d) /\ d.stat[t] = "CLOSE"
<1> DEFINE p == rt_schedule_remove_thread(s, t)
           q == rt_timer_stop(p, t)
           c == [q EXCEPT !.stat[t] = "CLOSE"]
           e == [c EXCEPT !.list[Defunct] = <<t>> \o @]
           d == [q EXCEPT !.stat[t] = "CLOSE", !.list[Defunct] = <<t>> \o @]
<1>1. t \notin Timed(s) BY DEF KernelOK, Placed
<1>2. KernelOK(p) /\ Frame(s, p, t) /\ Kept(s, p) /\ Off(p, t)
  BY <1>1, RemovePlain
<1> HIDE DEF p
<1>3. KernelOK(q) /\ Frame(p, q, t) /\ Kept(p, q) /\ Off(q, t) /\ t \notin Timed(q)
  BY <1>2, TimerStop
<1> HIDE DEF q
<1>4. KernelOK(c) /\ Frame(q, c, t) /\ Kept(q, c) /\ c.stat[t] = "CLOSE" /\ Off(c, t)
  BY <1>3, ClosedOK
<1>5. q \in KernelState BY <1>3 DEF KernelOK
<1>6. d = e BY <1>5 DEF KernelState
<1> HIDE DEF c
<1>7. KernelOK(e) /\ Frame(c, e, t) /\ Kept(c, e) /\ e.stat = c.stat
  BY <1>4, PutDefunct
<1> HIDE DEF e, d
<1>8. Frame(s, c, t) /\ Frame(s, e, t) BY <1>2, <1>3, <1>4, <1>7, FrameTrans
<1>9. Kept(s, c) /\ Kept(s, e) BY <1>2, <1>3, <1>4, <1>7 DEF Kept
<1>10. KernelOK(c) /\ Frame(s, c, t) /\ Kept(s, c) /\ c.stat[t] = "CLOSE" /\ Off(c, t)
  BY <1>4, <1>8, <1>9
<1>11. KernelOK(d) /\ Frame(s, d, t) /\ Kept(s, d) /\ d.stat[t] = "CLOSE"
  BY <1>4, <1>6, <1>7, <1>8, <1>9
<1> QED BY <1>10, <1>11 DEF c, d, q, p

LEMMA ExitStep ==
  ASSUME IInv, NEW t \in Thread, rt_thread_exit(t)
  PROVE  SafeStep
<1> DEFINE q == rt_timer_stop(rt_schedule_remove_thread(k, t), t)
           l == "exit_sched"
<1>1. /\ Running(t, "run") /\ "exit" \in Prog[t] /\ k.nest = 0 /\ ~Held(t)
      /\ pc' = [pc EXCEPT ![t] = l] /\ isr' = isr /\ arg' = arg /\ owed' = owed
  BY DEF rt_thread_exit, Calls, Goto
<1>2. IF t \in Static
      THEN k' = [q EXCEPT !.stat[t] = "CLOSE"] /\ alloc' = alloc \ {t}
      ELSE /\ k' = [q EXCEPT !.stat[t] = "CLOSE", !.list[Defunct] = <<t>> \o @]
           /\ alloc' = alloc
  BY DEF rt_thread_exit
<1>3. t \in Thread \ {Idle} BY <1>1, ProgAssumption
<1>4. /\ k.stat[t] = "READY" /\ arg[t] = NoThread /\ owed \in BOOLEAN /\ alloc \in SUBSET Thread
      /\ arg \in [Thread -> Thread \cup {NoThread}] /\ pc \in [Thread -> Label]
  BY <1>1, Caller DEF Leaving, Busy, Insertable, Deleting, Dead
<1>5. /\ KernelOK(k') /\ Frame(k, k', t) /\ Kept(k, k') /\ k'.stat[t] = "CLOSE"
      /\ t \in Static => Off(k', t)
  BY <1>2, <1>3, <1>4, ExitKernel DEF IInv
<1>6. l \in Label /\ l \notin Busy /\ l \in Leaving
  BY DEF Label, Busy, Insertable, Deleting, Dead, Leaving
<1>7. \A x \in Thread : arg[x] # t BY <1>1, FreeThread
<1>8. t \in alloc /\ Idle \in alloc BY <1>4 DEF IInv, Freed
<1>9. /\ alloc' \in SUBSET Thread /\ Idle \in alloc'
      /\ t \notin Static => t \in alloc'
      /\ \A x \in Thread \ {t} : x \in alloc' <=> x \in alloc
  BY <1>2, <1>3, <1>4, <1>8
<1>10. pc'[t] = "exit_sched" /\ arg'[t] = NoThread BY <1>1, <1>4
<1>11. DeadThread(t)' BY <1>10 DEF DeadThread
<1>12. Freed(t)' BY <1>1, <1>5, <1>7, <1>9 DEF Freed, Held
<1>13. Queued(t)' BY <1>5 DEF Queued
<1>14. /\ Running(t, "run") /\ "run" # "exit_sched" /\ pc' = [pc EXCEPT ![t] = l]
       /\ isr' = isr /\ owed' \in BOOLEAN /\ arg' = [arg EXCEPT ![t] = NoThread]
       /\ arg[t] \in {NoThread, t} /\ ~(k.nest > 0)
  BY <1>1, <1>4
<1>15. /\ NoThread \in {NoThread, t}
       /\ NoThread # NoThread <=> l \in Busy
       /\ NoThread = t => Window(t, t)'
  BY <1>6, ThreadAssumption
<1> HIDE DEF l, q
<1> QED BY <1>5, <1>6, <1>7, <1>9, <1>11, <1>12, <1>13, <1>14, <1>15, CallStep

LEMMA IdleFreeStep ==
  ASSUME IInv, NEW u \in Thread, arg[Idle] = u, IdleFree
  PROVE  SafeStep
<1> DEFINE l == "run"
<1>1. /\ Running(Idle, "idle_free") /\ pc' = [pc EXCEPT ![Idle] = l]
      /\ arg' = [arg EXCEPT ![Idle] = NoThread] /\ k' = k /\ isr' = isr /\ owed' = owed
      /\ alloc' = alloc \ {u}
  BY DEF IdleFree, Work, Goto
<1>2. Idle \in Thread BY ThreadAssumption
<1>3. "idle_free" \in Busy /\ "idle_free" \in Dead /\ "idle_free" \in Unlinked
  BY DEF Busy, Dead, Unlinked
<1>4. /\ Window(Idle, u) /\ pc[Idle] = "idle_free" /\ k.cur = Idle
      /\ owed \in BOOLEAN /\ alloc \in SUBSET Thread
      /\ arg \in [Thread -> Thread \cup {NoThread}]
  BY <1>1, <1>2, <1>3, Caller
<1>5. u \in alloc /\ u # Idle /\ Idle \in alloc /\ Off(k, u) /\ k.stat[u] = "CLOSE"
  BY <1>3, <1>4 DEF Window, IInv
<1>6. KernelOK(k') /\ Frame(k, k', u) /\ Kept(k, k') BY <1>1 DEF Frame, Kept, IInv
<1>7. k'.stat[Idle] = "READY" BY <1>6, IdleReady
<1>8. \A x \in Thread \ {Idle} : arg[x] # u BY <1>2, <1>4, OneHand
<1>9. l \in Label /\ l \notin Busy BY DEF Label, Busy, Insertable, Deleting, Dead
<1>10. l \notin {"suspend_body", "sleep_sched", "exit_sched"} OBVIOUS
<1>11. arg'[u] = NoThread /\ k'.cur # u /\ (\A x \in Thread : arg'[x] # u)
  <2>1. arg[u] = NoThread BY <1>5 DEF IInv, DeadThread
  <2> QED BY <1>1, <1>2, <1>4, <1>5, <1>8, <2>1, ThreadAssumption
<1>12. DeadThread(u)' /\ Freed(u)' /\ Queued(u)'
  BY <1>1, <1>5, <1>11 DEF DeadThread, Freed, Held, Queued
<1>13. /\ alloc' \in SUBSET Thread /\ Idle \in alloc'
       /\ \A x \in Thread \ {u} : x \in alloc' <=> x \in alloc
  BY <1>1, <1>4, <1>5
<1>14. /\ Running(Idle, "idle_free") /\ "idle_free" # "exit_sched"
       /\ pc' = [pc EXCEPT ![Idle] = l] /\ arg' = [arg EXCEPT ![Idle] = NoThread]
       /\ isr' = isr /\ owed' \in BOOLEAN /\ arg[Idle] \in {NoThread, u}
  BY <1>1, <1>4
<1>15. /\ NoThread \in {NoThread, u}
       /\ NoThread # NoThread <=> l \in Busy
       /\ NoThread = u => Window(Idle, u)'
  BY <1>9, ThreadAssumption
<1>16. k.nest > 0 => /\ k'.stat[Idle] = "READY"
                     /\ l \notin {"suspend_body", "sleep_sched", "exit_sched"}
  BY <1>7, <1>10
<1> HIDE DEF l
<1> QED BY <1>2, <1>6, <1>7, <1>8, <1>9, <1>12, <1>13, <1>14, <1>15, <1>16, CallStep

\* A change of u followed by a rescheduling.
LEMMA ThenDispatch ==
  ASSUME NEW s, NEW q, NEW u \in Thread, KernelOK(q), Frame(s, q, u), Kept(s, q)
  PROVE  LET r == rt_schedule(q)
         IN  /\ KernelOK(r) /\ Frame(s, r, u) /\ Chosen(s, r) /\ r.stat[u] = q.stat[u]
             /\ Off(r, u) <=> Off(q, u)
             /\ u \in Timed(r) <=> u \in Timed(q)
<1> DEFINE r == rt_schedule(q)
<1>1. KernelOK(r) /\ Still(q, r) /\ Chosen(q, r) BY Dispatch
<1> HIDE DEF r
<1>2. Frame(s, r, u) BY <1>1 DEF Frame, Still
<1>3. Chosen(s, r) BY <1>1 DEF Chosen, Kept
<1> QED BY <1>1, <1>2, <1>3 DEF Still, r

LEMMA ReapKernel ==
  ASSUME NEW s, KernelOK(s), NEW u \in Thread, s.stat[u] = "CLOSE"
  PROVE  LET r == rt_schedule(rt_exit_critical(rt_enter_critical(rt_list_remove(s, u))))
         IN  /\ KernelOK(r) /\ Frame(s, r, u) /\ Chosen(s, r)
             /\ r.stat[u] = "CLOSE" /\ Off(r, u)
<1> DEFINE q == rt_list_remove(s, u)
<1>1. KernelOK(q) /\ Frame(s, q, u) /\ Kept(s, q) /\ q.stat[u] = "CLOSE" /\ Off(q, u)
  BY UnlinkWaiting
<1> HIDE DEF q
<1>2. q \in KernelState /\ q.nest \in Nat BY <1>1, KernelFields DEF KernelOK
<1>3. rt_exit_critical(rt_enter_critical(q)) = q
  <2>1. rt_enter_critical(q) = [q EXCEPT !.nest = q.nest + 1]
    BY <1>2 DEF rt_enter_critical, KernelState
  <2>2. rt_enter_critical(q).nest = q.nest + 1 BY <1>2, <2>1 DEF KernelState
  <2> DEFINE c == rt_enter_critical(q)
  <2>3. c.nest > 0 /\ c.nest - 1 = q.nest BY <1>2, <2>2
  <2>4. c = [q EXCEPT !.nest = q.nest + 1] BY <2>1
  <2> HIDE DEF c
  <2>5. rt_exit_critical(c) = [c EXCEPT !.nest = q.nest] BY <2>3 DEF rt_exit_critical
  <2> QED BY <1>2, <2>4, <2>5 DEF KernelState, c
<1> QED BY <1>1, <1>3, ThenDispatch DEF q

\* What the choice of the next thread leaves of the invariant.
LEMMA ChosenStep ==
  ASSUME IInv, NEW u \in Thread, Frame(k, k', u), Chosen(k, k'),
         k.cur = u => k'.stat[u] = "READY" \/ k'.stat[u] = k.stat[u],
         k'.cur = k.cur /\ k.cur \in Thread => pc'[k.cur] = pc[k.cur] \/ pc'[k.cur] = "idle_free"
  PROVE  /\ Handed(k, k')
         /\ (k'.cur = k.cur /\ k.cur \in Thread /\ pc[k.cur] \in Leaving
               => pc'[k.cur] = pc[k.cur]) => Current' /\ Locked'
<1>1. k.nest \in Nat BY KernelFields DEF IInv, KernelOK
<1>2. k'.nest = k.nest /\ Handed(k, k') BY <1>1 DEF Chosen, Handed
<1>3. k.nest = 0 => k'.cur \in Thread /\ k'.stat[k'.cur] = "READY" BY <1>1 DEF Chosen
<1>4. k.nest > 0 => k'.cur = k.cur BY <1>1 DEF Chosen
<1>5. k.cur \in Thread /\ k.stat[k.cur] = "READY" => k'.stat[k.cur] = "READY"
  BY DEF Frame
<1>6. ASSUME k'.cur = k.cur /\ k.cur \in Thread /\ pc[k.cur] \in Leaving => pc'[k.cur] = pc[k.cur]
      PROVE  Current'
  <2>1. CASE k.nest = 0 BY <1>3, <2>1 DEF Current
  <2>2. CASE k.nest > 0
    <3>1. k.cur \in Thread /\ k.stat[k.cur] = "READY" BY <2>2 DEF IInv, Locked
    <3> QED BY <1>4, <1>5, <2>2, <3>1 DEF Current
  <2> QED BY <1>1, <2>1, <2>2
<1>7. Locked'
  <2> SUFFICES ASSUME k.nest > 0
               PROVE  /\ k'.cur \in Thread /\ k'.stat[k'.cur] = "READY"
                      /\ pc'[k'.cur] \notin {"suspend_body", "sleep_sched", "exit_sched"}
    BY <1>2 DEF Locked
  <2>1. /\ k.cur \in Thread /\ k.stat[k.cur] = "READY"
        /\ pc[k.cur] \notin {"suspend_body", "sleep_sched", "exit_sched"}
    BY DEF IInv, Locked
  <2> QED BY <1>4, <1>5, <2>1
<1> QED BY <1>2, <1>6, <1>7

LEMMA IdleReapStep ==
  ASSUME IInv, IdleReap, NEW u, u = Head(k.list[Defunct])
  PROVE  SafeStep
<1> DEFINE l == "idle_free"
<1>1. /\ Running(Idle, "run") /\ k.list[Defunct] # <<>>
      /\ k' = rt_schedule(rt_exit_critical(rt_enter_critical(rt_list_remove(k, u))))
      /\ pc' = [pc EXCEPT ![Idle] = l] /\ arg' = [arg EXCEPT ![Idle] = u]
      /\ owed' = FALSE /\ isr' = isr /\ alloc' = alloc
  BY DEF IdleReap, Work, Goto
<1>2. u \in Thread /\ u \in On(k, Defunct)
  <2>1. k.list[Defunct] \in Seq(Thread) BY KernelFields DEF IInv, KernelOK, ListHead
  <2> QED BY <1>1, <2>1, EmptyList DEF On
<1>3. Idle \in Thread /\ NoThread \notin Thread BY ThreadAssumption
<1>4. k.stat[u] = "CLOSE" /\ ~Off(k, u) BY <1>2 DEF IInv, KernelOK, Placed, Off, ListHead
<1>5. u # Idle /\ u \in alloc /\ arg[u] = NoThread /\ Idle \in alloc
  BY <1>2, <1>4, IdleReady DEF IInv, Freed, DeadThread
<1>6. /\ k.cur = Idle /\ pc[Idle] = "run" /\ isr = "none" /\ arg[Idle] = NoThread
      /\ alloc \in SUBSET Thread /\ pc \in [Thread -> Label]
      /\ arg \in [Thread -> Thread \cup {NoThread}]
  BY <1>1, <1>3, Caller DEF Busy, Insertable, Deleting, Dead
<1>7. \A x \in Thread : arg[x] # u
  <2> SUFFICES ASSUME NEW x \in Thread, arg[x] = u PROVE FALSE OBVIOUS
  <2>1. Window(x, u) /\ pc[x] \in Busy BY <1>2, <1>3 DEF IInv, Windows, Hands
  <2>2. pc[x] \in Dead => pc[x] \in Unlinked BY DEF Dead, Unlinked
  <2> QED BY <1>4, <2>1, <2>2 DEF Window, Busy
<1>8. /\ KernelOK(k') /\ Frame(k, k', u) /\ Chosen(k, k')
      /\ k'.stat[u] = "CLOSE" /\ Off(k', u)
  BY <1>1, <1>2, <1>4, ReapKernel DEF IInv
<1>9. /\ l \in Label /\ l \in Busy /\ l \in Dead /\ l \notin Insertable /\ l \notin Deleting
      /\ l # "suspend_body"
  BY DEF Label, Busy, Dead, Insertable, Deleting
<1>10. Handed(k, k') /\ Current' /\ Locked'
  <2>1. pc[Idle] \notin Leaving BY <1>6 DEF Leaving
  <2>2. pc'[Idle] = "idle_free" BY <1>1, <1>3, <1>6
  <2> QED BY <1>2, <1>5, <1>6, <1>8, <2>1, <2>2, ChosenStep
<1>11. pc'[Idle] = l /\ arg'[u] = NoThread BY <1>1, <1>3, <1>5, <1>6
<1>12. k'.cur # u BY <1>4, <1>5, <1>6, <1>8 DEF Chosen
<1>13. Window(Idle, u)' BY <1>1, <1>5, <1>8, <1>9, <1>11 DEF Window
<1>14. DeadThread(u)' /\ Freed(u)' /\ Queued(u)'
  BY <1>1, <1>5, <1>8, <1>11, <1>12 DEF DeadThread, Freed, Queued
<1>15. Pending' BY <1>1, <1>6 DEF Pending
<1>16. /\ isr' \in {"none", "timer"} /\ owed' \in BOOLEAN /\ alloc' \in SUBSET Thread
       /\ Idle \in alloc' /\ (\A x \in Thread \ {u} : x \in alloc' <=> x \in alloc)
       /\ arg' = [arg EXCEPT ![Idle] = u] /\ pc' = [pc EXCEPT ![Idle] = l]
  BY <1>1, <1>5, <1>6
<1>17. u \in {NoThread, u} /\ arg[Idle] \in {NoThread, u} /\ pc[Idle] # "exit_sched" /\ k.cur = Idle
  BY <1>6
<1>18. u # NoThread <=> l \in Busy BY <1>2, <1>3, <1>9
<1> HIDE DEF l
<1> QED BY <1>2, <1>3, <1>7, <1>8, <1>9, <1>10, <1>13, <1>14, <1>15, <1>16, <1>17, <1>18, OneThread

\* A thread object that is not allocated can be given to a new thread.
LEMMA Slot ==
  ASSUME IInv, NEW u \in Thread, u \notin alloc
  PROVE  /\ k.stat[u] = "CLOSE" /\ Off(k, u) /\ u \notin Timed(k)
         /\ arg[u] = NoThread /\ pc[u] \notin Busy
         /\ \A x \in Thread : arg[x] # u
<1>1. k.stat[u] = "CLOSE" /\ Off(k, u) /\ ~Held(u) BY DEF IInv, Freed
<1>2. u \notin Timed(k) BY <1>1 DEF IInv, KernelOK, Placed
<1>3. arg[u] = NoThread BY <1>1 DEF IInv, DeadThread
<1>4. pc[u] \notin Busy BY <1>3 DEF IInv, Hands
<1> QED BY <1>1, <1>2, <1>3, <1>4 DEF Held

LEMMA CreateStep ==
  ASSUME IInv, NEW t \in Thread, NEW u \in Thread, Create(t, u)
  PROVE  SafeStep
<1> DEFINE l == "run"
<1>1. /\ Running(t, "run") /\ u \notin alloc /\ u # k.cur /\ k' = CreatedThread(k, u)
      /\ alloc' = alloc \cup {u} /\ pc' = [pc EXCEPT ![u] = l]
      /\ isr' = isr /\ arg' = arg /\ owed' = owed
  BY DEF Create, Calls
<1>2. /\ k.stat[u] = "CLOSE" /\ Off(k, u) /\ u \notin Timed(k) /\ arg[u] = NoThread
      /\ \A x \in Thread : arg[x] # u
  BY <1>1, Slot
<1>3. /\ KernelOK(k') /\ Frame(k, k', u) /\ Kept(k, k') /\ k'.stat[u] = "INIT"
  BY <1>1, <1>2, CreatedOK DEF IInv
<1>4. /\ k.cur = t /\ k.stat[t] = "READY" /\ isr = "none" /\ pc[t] = "run" /\ owed \in BOOLEAN
      /\ alloc \in SUBSET Thread /\ pc \in [Thread -> Label]
      /\ arg \in [Thread -> Thread \cup {NoThread}]
  BY <1>1, Caller DEF Leaving
<1>5. u # t /\ k'.cur = t /\ k'.nest = k.nest /\ k'.stat[t] = "READY" /\ pc'[t] = "run"
  BY <1>1, <1>3, <1>4 DEF Kept, Frame
<1>6. l \in Label /\ l \notin Busy BY DEF Label, Busy, Insertable, Deleting, Dead
<1>7. Handed(k, k') BY <1>3 DEF Handed, Kept
<1>8. Current' /\ Locked' BY <1>5 DEF Current, Locked
<1>9. Pending' BY <1>1, <1>4 DEF Pending
<1>10. /\ isr' \in {"none", "timer"} /\ owed' \in BOOLEAN /\ alloc' \in SUBSET Thread
       /\ Idle \in alloc' /\ (\A x \in Thread \ {u} : x \in alloc' <=> x \in alloc) /\ u \in alloc'
  BY <1>1, <1>4 DEF IInv
<1>11. DeadThread(u)' /\ Freed(u)' /\ Queued(u)'
  BY <1>3, <1>10 DEF DeadThread, Freed, Queued
<1>12. arg' = [arg EXCEPT ![u] = NoThread] /\ pc' = [pc EXCEPT ![u] = l]
  BY <1>1, <1>2, <1>4
<1>13. NoThread \notin Thread /\ (NoThread # NoThread <=> l \in Busy)
  BY <1>6, ThreadAssumption
<1> HIDE DEF l
<1> QED BY <1>2, <1>3, <1>6, <1>7, <1>8, <1>9, <1>10, <1>11, <1>12, <1>13, OneThread

LEMMA AppKernel ==
  ASSUME NEW s, KernelOK(s), NEW u \in Thread, Off(s, u), u \notin Timed(s)
  PROVE  LET r == rt_schedule_insert_thread(StartedThread(CreatedThread(s, u), u), u)
         IN  /\ KernelOK(r) /\ Frame(s, r, u) /\ Kept(s, r)
             /\ r.stat[u] = "READY" /\ ~Off(r, u)
<1> DEFINE c == CreatedThread(s, u)
           d == StartedThread(c, u)
           r == rt_schedule_insert_thread(d, u)
<1>1. KernelOK(c) /\ Frame(s, c, u) /\ Kept(s, c) /\ Off(c, u) /\ u \notin Timed(c)
  BY CreatedOK
<1> HIDE DEF c
<1>2. KernelOK(d) /\ Frame(c, d, u) /\ Kept(c, d) /\ Off(d, u) /\ u \notin Timed(d)
  BY <1>1, StartedOK
<1> HIDE DEF d
<1>3. KernelOK(r) /\ Frame(d, r, u) /\ Kept(d, r) /\ r.stat[u] = "READY" /\ ~Off(r, u)
  BY <1>2, InsertThread
<1> HIDE DEF r
<1>4. Frame(s, r, u) BY <1>1, <1>2, <1>3, FrameTrans
<1>5. Kept(s, r) BY <1>1, <1>2, <1>3 DEF Kept
<1> QED BY <1>3, <1>4, <1>5 DEF r, d, c

LEMMA AppInitStep ==
  ASSUME IInv, NEW u \in Thread, AppInit(u)
  PROVE  SafeStep
<1>1. /\ k.cur = NoThread /\ isr = "none" /\ u \notin alloc
      /\ k' = rt_schedule_insert_thread(StartedThread(CreatedThread(k, u), u), u)
      /\ alloc' = alloc \cup {u}
      /\ isr' = isr /\ pc' = pc /\ arg' = arg /\ owed' = owed
  BY DEF AppInit
<1>2. /\ Off(k, u) /\ u \notin Timed(k) /\ arg[u] = NoThread
      /\ pc[u] \notin Busy /\ \A x \in Thread : arg[x] # u
  BY <1>1, Slot
<1>3. KernelOK(k') /\ Frame(k, k', u) /\ Kept(k, k') /\ k'.stat[u] = "READY" /\ ~Off(k', u)
  BY <1>1, <1>2, AppKernel DEF IInv
<1>4. /\ owed \in BOOLEAN /\ alloc \in SUBSET Thread /\ pc \in [Thread -> Label]
      /\ arg \in [Thread -> Thread \cup {NoThread}]
  BY DEF IInv, TypeOK
<1>5. NoThread \notin Thread BY ThreadAssumption
<1>6. k'.cur = NoThread /\ k'.nest = k.nest BY <1>1, <1>3 DEF Kept
<1>7. Handed(k, k') BY <1>3 DEF Handed, Kept
<1>8. Current' /\ Locked' BY <1>1, <1>5, <1>6 DEF Current, Locked, IInv
<1>9. Pending' BY <1>1 DEF Pending
<1>10. /\ isr' \in {"none", "timer"} /\ owed' \in BOOLEAN /\ alloc' \in SUBSET Thread
       /\ Idle \in alloc' /\ (\A x \in Thread \ {u} : x \in alloc' <=> x \in alloc) /\ u \in alloc'
  BY <1>1, <1>4 DEF IInv
<1>11. DeadThread(u)' /\ Freed(u)' /\ Queued(u)'
  BY <1>3, <1>10 DEF DeadThread, Freed, Queued
<1>12. arg' = [arg EXCEPT ![u] = NoThread] /\ pc' = [pc EXCEPT ![u] = pc[u]] /\ pc[u] \in Label
  BY <1>1, <1>2, <1>4
<1>13. NoThread # NoThread <=> pc[u] \in Busy BY <1>2
<1> QED BY <1>2, <1>3, <1>5, <1>7, <1>8, <1>9, <1>10, <1>11, <1>12, <1>13, OneThread

\* Every call stays where it is.
CallsStay == UNCHANGED <<alloc, arg, pc>>

\* A step that makes u READY and leaves every thread where it is in its call.
LEMMA WokenStep ==
  ASSUME IInv, NEW u \in Thread, NEW t \in Thread,
         KernelOK(k'), Frame(k, k', u), Chosen(k, k'), k'.stat[u] = "READY", ~Off(k', u),
         k.stat[u] = "SUSPEND", arg[t] = u \/ (t = u /\ ~Held(u)),
         arg[t] = u => pc[t] = "suspend_body",
         isr' \in {"none", "timer"}, owed' \in BOOLEAN, CallsStay, Pending'
  PROVE  SafeStep
<1>1. /\ pc \in [Thread -> Label] /\ alloc \in SUBSET Thread /\ Idle \in alloc
      /\ arg \in [Thread -> Thread \cup {NoThread}] /\ NoThread \notin Thread
      /\ alloc' = alloc /\ arg' = arg /\ pc' = pc
  BY ThreadAssumption DEF IInv, TypeOK, CallsStay
<1>2. PICK a \in Thread \cup {NoThread}, l \in Label : a = arg[t] /\ l = pc[t] BY <1>1
<1>3. a # NoThread <=> l \in Busy BY <1>2 DEF IInv, Hands
<1>4. \A x \in Thread \ {t} : arg[x] # u
  <2>1. CASE arg[t] = u BY <2>1, OneHand
  <2>2. CASE ~Held(u) BY <2>2 DEF Held
  <2> QED BY <2>1, <2>2
<1>5. arg' = [arg EXCEPT ![t] = a] /\ pc' = [pc EXCEPT ![t] = l] BY <1>1, <1>2
<1>6. u \in alloc BY DEF IInv, Freed
<1>7. Handed(k, k') /\ Current' /\ Locked'
  BY <1>1, ChosenStep
<1>8. DeadThread(u)' /\ Freed(u)' /\ Queued(u)' BY <1>1, <1>6 DEF DeadThread, Freed, Queued
<1>9. a \in Thread => Window(t, a)' \/ (a = arg[t] /\ l = pc[t] /\ a # u)
  <2>1. CASE arg[t] = u
    <3>1. Window(t, u) BY <2>1 DEF IInv, Windows
    <3>2. /\ pc'[t] = "suspend_body" /\ "suspend_body" \notin Insertable
          /\ "suspend_body" \notin Unlinked /\ "suspend_body" \notin Deleting
          /\ "suspend_body" \notin Dead
      BY <1>1, <2>1 DEF Insertable, Unlinked, Deleting, Dead
    <3>3. u \in alloc' /\ u # Idle BY <1>1, <3>1 DEF Window
    <3>4. Window(t, u)' BY <3>2, <3>3 DEF Window
    <3>5. Window(t, a)' BY <1>2, <2>1, <3>4
    <3> QED BY <3>5
  <2>2. CASE arg[t] # u BY <1>2, <2>2
  <2> QED BY <2>1, <2>2
<1>10. /\ alloc' \in SUBSET Thread /\ Idle \in alloc'
       /\ (\A x \in Thread \ {u} : x \in alloc' <=> x \in alloc)
  BY <1>1
<1>11. /\ t = u \/ k.cur = t \/ (a = arg[t] /\ l = pc[t])
       /\ a \in {NoThread, u} \/ (a = arg[t] /\ l = pc[t])
       /\ arg[t] \in {NoThread, u} \/ (a = arg[t] /\ l = pc[t])
       /\ t # u /\ pc[t] = "exit_sched" => l = "exit_sched"
  BY <1>2
<1> QED BY <1>3, <1>4, <1>5, <1>7, <1>8, <1>9, <1>10, <1>11, OneThread

LEMMA IsrResumeStep ==
  ASSUME IInv, NEW u \in Thread, IsrResume(u)
  PROVE  SafeStep
<1>1. /\ isr = "none" /\ ~Held(u) /\ k.stat[u] = "SUSPEND"
      /\ k' = rt_schedule(rt_thread_resume(k, u)) /\ owed' \in BOOLEAN
      /\ isr' = isr /\ UNCHANGED <<pc, arg, alloc>>
  BY DEF IsrResume, Free
<1> DEFINE q == rt_thread_resume(k, u)
<1>2. KernelOK(q) /\ Frame(k, q, u) /\ Kept(k, q) /\ q.stat[u] = "READY" /\ ~Off(q, u)
  BY <1>1, ResumeThread DEF IInv
<1> HIDE DEF q
<1>3. k' = rt_schedule(q) BY <1>1 DEF q
<1>4. /\ KernelOK(k') /\ Frame(k, k', u) /\ Chosen(k, k')
      /\ k'.stat[u] = "READY" /\ ~Off(k', u)
  BY <1>2, <1>3, ThenDispatch
<1>5. Pending' BY <1>1 DEF Pending
<1>6. isr' \in {"none", "timer"} /\ arg[u] # u BY <1>1 DEF Held
<1> QED BY <1>1, <1>4, <1>5, <1>6, WokenStep DEF CallsStay

LEMMA TimerCheckStep ==
  ASSUME IInv, TimerCheck, NEW u, u = Head(k.timers)
  PROVE  SafeStep
<1>1. /\ isr = "timer" /\ k' = TimerFire(k) /\ isr' = IsrAfter(k') /\ owed' \in BOOLEAN
      /\ UNCHANGED <<pc, arg, alloc>>
  BY DEF TimerCheck, rt_timer_check
<1>2. k.timers # <<>> BY <1>1 DEF IInv, Pending
<1>3. /\ u \in Thread /\ u \in Timed(k) /\ KernelOK(k') /\ Frame(k, k', u) /\ Chosen(k, k')
      /\ k'.stat[u] = "READY" /\ ~Off(k', u)
  BY <1>1, <1>2, FireTimer DEF IInv
<1>4. k.stat[u] = "SUSPEND" BY <1>3 DEF IInv, KernelOK, Placed
<1>5. isr' \in {"none", "timer"} /\ Pending' BY <1>1 DEF IsrAfter, TimerExpired, Pending
<1>6. ASSUME NEW t \in Thread, arg[t] = u PROVE pc[t] = "suspend_body"
  <2>1. Window(t, u) /\ pc[t] \in Busy
    BY <1>3, <1>6, ThreadAssumption DEF IInv, Windows, Hands
  <2> QED BY <1>3, <1>4, <2>1 DEF Window, Busy
<1>7. CASE Held(u)
  <2>1. PICK t \in Thread : arg[t] = u BY <1>7 DEF Held
  <2> QED BY <1>1, <1>3, <1>4, <1>5, <1>6, <2>1, WokenStep DEF CallsStay
<1>8. CASE ~Held(u)
  <2>1. arg[u] # u BY <1>3, <1>8 DEF Held
  <2> QED BY <1>1, <1>3, <1>4, <1>5, <1>8, <2>1, WokenStep DEF CallsStay
<1> QED BY <1>7, <1>8

-----------------------------------------------------------------------------
(* The invariant holds initially and is kept by every step.                *)

LEMMA PowerOnState ==
  PowerOn(InitPrio) \in KernelState
<1>1. InitPrio \in [Thread -> Prio] /\ InitTick \in 1..InitTick
  BY ProgAssumption, BoundAssumption
<1>2. <<>> \in Seq(Thread) /\ 0 \in Nat /\ {} \in SUBSET Prio /\ "CLOSE" \in Stat /\ "EOK" \in Error
  BY DEF Stat, Error
<1> QED BY <1>1, <1>2 DEF PowerOn, KernelState

\* The kernel after rt_thread_idle_init: one thread, ready at the lowest priority.
LEMMA IdleStarted ==
  ASSUME NEW r, r = rt_schedule_insert_thread(StartedThread(CreatedThread(PowerOn(InitPrio), Idle), Idle), Idle)
  PROVE  /\ r \in KernelState
         /\ r.stat = [t \in Thread |-> IF t = Idle THEN "READY" ELSE "CLOSE"]
         /\ r.prio[Idle] = IdlePrio
         /\ r.list = [l \in ListHead |-> IF l = IdlePrio THEN <<Idle>> ELSE <<>>]
         /\ r.group = {IdlePrio}
         /\ r.cur = NoThread /\ r.nest = 0 /\ r.timers = <<>>
<1> DEFINE p == PowerOn(InitPrio)
           c == CreatedThread(p, Idle)
           e == [c EXCEPT !.stat[Idle] = "SUSPEND", !.prio[Idle] = c.init[Idle]]
           f == rt_list_remove(e, Idle)
           d == rt_timer_stop(f, Idle)
<1>1. /\ Idle \in Thread /\ InitPrio \in [Thread -> Prio] /\ InitPrio[Idle] = IdlePrio
      /\ IdlePrio \in Prio /\ IdlePrio \in ListHead /\ InitTick \in 1..InitTick
  BY ThreadAssumption, ProgAssumption, BoundAssumption DEF IdlePrio, Prio, ListHead
<1>2. /\ p \in KernelState /\ p.list = [l \in ListHead |-> <<>>] /\ p.group = {}
      /\ p.cur = NoThread /\ p.nest = 0 /\ p.timers = <<>>
      /\ p.stat = [t \in Thread |-> "CLOSE"] /\ p.prio = InitPrio /\ p.init = InitPrio
  BY PowerOnState DEF PowerOn
<1> HIDE DEF p
<1>3. /\ c \in KernelState /\ c.list = p.list /\ c.group = p.group /\ c.cur = p.cur
      /\ c.nest = p.nest /\ c.timers = p.timers /\ c.init[Idle] = IdlePrio
      /\ c.stat = [p.stat EXCEPT ![Idle] = "INIT"] /\ c.prio = [p.prio EXCEPT ![Idle] = IdlePrio]
  BY <1>1, <1>2 DEF CreatedThread, KernelState, Stat, Error
<1> HIDE DEF c
<1>4. /\ e \in KernelState /\ e.list = c.list /\ e.group = c.group /\ e.cur = c.cur
      /\ e.nest = c.nest /\ e.timers = c.timers
      /\ e.stat = [c.stat EXCEPT ![Idle] = "SUSPEND"] /\ e.prio = [c.prio EXCEPT ![Idle] = IdlePrio]
  BY <1>1, <1>3 DEF KernelState, Stat
<1> HIDE DEF e
<1>5. Without(<<>>, Idle) = <<>> BY DEF Without, ToSet
<1>6. /\ f \in KernelState /\ f.list = e.list /\ f.group = e.group /\ f.cur = e.cur
      /\ f.nest = e.nest /\ f.timers = e.timers /\ f.stat = e.stat /\ f.prio = e.prio
  <2>1. e.list = [l \in ListHead |-> <<>>] BY <1>2, <1>3, <1>4
  <2>2. e.list = [l \in ListHead |-> Without(e.list[l], Idle)] BY <1>5, <2>1
  <2>3. f = [e EXCEPT !.list = e.list] BY <2>2 DEF rt_list_remove
  <2> QED BY <1>4, <2>3 DEF KernelState
<1> HIDE DEF f
<1>7. /\ d \in KernelState /\ d.list = f.list /\ d.group = f.group /\ d.cur = f.cur
      /\ d.nest = f.nest /\ d.timers = <<>> /\ d.stat = f.stat /\ d.prio = f.prio
  <2>1. f.timers = <<>> BY <1>2, <1>3, <1>4, <1>6
  <2> DEFINE g == [f.left EXCEPT ![Idle] = 0]
  <2>2. g \in [Thread -> Nat] /\ <<>> \in Seq(Thread)
    <3>1. f.left \in [Thread -> Nat] BY <1>6, KernelFields
    <3>2. g \in [Thread -> Nat] BY <3>1
    <3> QED BY <3>2
  <2>3. d = [f EXCEPT !.timers = <<>>, !.left = g] BY <1>5, <1>6, <2>1 DEF rt_timer_stop, KernelState
  <2> HIDE DEF g, d
  <2> QED BY <1>6, <2>2, <2>3 DEF KernelState
<1>8. r = rt_schedule_insert_thread(d, Idle) BY DEF StartedThread, ResumeUnlink, d, f, e, c, p
<1> HIDE DEF d
<1>9. d.prio[Idle] = IdlePrio /\ d.list = [l \in ListHead |-> <<>>] /\ d.group = {}
  BY <1>1, <1>2, <1>3, <1>4, <1>6, <1>7, KernelFields
<1>10. Append(<<>>, Idle) = <<Idle>> /\ <<Idle>> \in Seq(Thread) BY <1>1
<1>11. r = [d EXCEPT !.stat[Idle] = "READY", !.list[IdlePrio] = <<Idle>>, !.group = {IdlePrio}]
  <2>1. d.list[IdlePrio] = <<>> BY <1>1, <1>9
  <2>2. r = [d EXCEPT !.stat[Idle] = "READY", !.list[IdlePrio] = Append(d.list[IdlePrio], Idle),
                      !.group = d.group \cup {IdlePrio}]
    BY <1>8, <1>9, <1>7 DEF rt_schedule_insert_thread, KernelState
  <2> QED BY <1>9, <1>10, <2>1, <2>2
<1>12. /\ r \in KernelState /\ r.cur = d.cur /\ r.nest = d.nest /\ r.timers = d.timers
       /\ r.prio = d.prio /\ r.group = {IdlePrio}
       /\ r.stat = [d.stat EXCEPT ![Idle] = "READY"]
       /\ r.list = [d.list EXCEPT ![IdlePrio] = <<Idle>>]
  <2> DEFINE v == [d.stat EXCEPT ![Idle] = "READY"]
             w == [d.list EXCEPT ![IdlePrio] = <<Idle>>]
  <2>1. v \in [Thread -> Stat] BY <1>7, KernelFields DEF Stat
  <2>2. w \in [ListHead -> Seq(Thread)] BY <1>7, <1>10, KernelFields
  <2>3. {IdlePrio} \in SUBSET Prio BY <1>1
  <2>4. r = [d EXCEPT !.stat = v, !.list = w, !.group = {IdlePrio}]
    BY <1>7, <1>11 DEF KernelState
  <2> HIDE DEF v, w
  <2>5. /\ r \in KernelState /\ r.cur = d.cur /\ r.nest = d.nest /\ r.timers = d.timers
        /\ r.prio = d.prio /\ r.group = {IdlePrio} /\ r.stat = v /\ r.list = w
    BY <1>7, <2>1, <2>2, <2>3, <2>4 DEF KernelState
  <2> QED BY <2>5 DEF v, w
<1>13. r.stat = [t \in Thread |-> IF t = Idle THEN "READY" ELSE "CLOSE"]
  BY <1>1, <1>2, <1>3, <1>4, <1>6, <1>7, <1>12
<1>14. r.list = [l \in ListHead |-> IF l = IdlePrio THEN <<Idle>> ELSE <<>>]
  BY <1>1, <1>9, <1>12
<1>15. r.cur = NoThread /\ r.nest = 0
  BY <1>2, <1>3, <1>4, <1>6, <1>7, <1>12
<1> QED BY <1>7, <1>9, <1>12, <1>13, <1>14, <1>15

LEMMA InitStep ==
  Init => IInv
<1> SUFFICES ASSUME Init PROVE IInv OBVIOUS
<1>1. /\ k \in KernelState
      /\ k.stat = [t \in Thread |-> IF t = Idle THEN "READY" ELSE "CLOSE"]
      /\ k.prio[Idle] = IdlePrio
      /\ k.list = [l \in ListHead |-> IF l = IdlePrio THEN <<Idle>> ELSE <<>>]
      /\ k.group = {IdlePrio}
      /\ k.cur = NoThread /\ k.nest = 0 /\ k.timers = <<>>
  BY IdleStarted DEF Init
<1>2. /\ isr = "none" /\ pc = [t \in Thread |-> "run"] /\ arg = [t \in Thread |-> NoThread]
      /\ alloc = {Idle} /\ owed = FALSE
  BY DEF Init
<1>3. /\ Idle \in Thread /\ NoThread \notin Thread /\ IdlePrio \in Prio /\ IdlePrio \in ListHead
      /\ Prio \subseteq ListHead /\ IdlePrio \notin WaitList /\ Defunct # IdlePrio
  BY ThreadAssumption, BoundAssumption, ListAssumption DEF IdlePrio, Prio, ListHead
<1>4. /\ On(k, IdlePrio) = {Idle} /\ NoDup(k.list[IdlePrio])
      /\ \A l \in ListHead \ {IdlePrio} : On(k, l) = {} /\ NoDup(k.list[l])
      /\ Timed(k) = {} /\ NoDup(k.timers)
  <2>1. ToSet(<<>>) = {} /\ NoDup(<<>>) BY DEF ToSet, NoDup
  <2>2. DOMAIN <<Idle>> = {1} /\ <<Idle>>[1] = Idle OBVIOUS
  <2>3. ToSet(<<Idle>>) = {Idle} /\ NoDup(<<Idle>>) BY <2>2 DEF ToSet, NoDup
  <2> QED BY <1>1, <1>3, <2>1, <2>3 DEF On, Timed
<1>5. \A t \in Thread : Off(k, t) <=> t # Idle BY <1>3, <1>4 DEF Off
<1>6. KernelOK(k)
  <2>1. Apart(k) BY <1>3, <1>4 DEF Apart
  <2>2. Placed(k)
    <3> SUFFICES ASSUME NEW t \in Thread, NEW l \in ListHead, t \in On(k, l)
                 PROVE  t = Idle /\ l = IdlePrio
      BY <1>1, <1>3, <1>4 DEF Placed, ListHead
    <3> QED BY <1>4
  <2>3. Bitmap(k)
    <3>1. \A q \in Prio : k.list[q] # <<>> <=> q = IdlePrio
      BY <1>1, <1>3
    <3> QED BY <1>1, <1>3, <3>1 DEF Bitmap
  <2> QED BY <1>1, <1>4, <2>1, <2>2, <2>3 DEF KernelOK
<1>7. TypeOK BY <1>1, <1>2, <1>3 DEF TypeOK, Label
<1>8. Hands /\ Windows
  <2>1. "run" \notin Busy BY DEF Busy, Insertable, Deleting, Dead
  <2> QED BY <1>2, <1>3, <2>1 DEF Hands, Windows
<1>9. \A t \in Thread : DeadThread(t) /\ Freed(t) /\ Queued(t)
  BY <1>1, <1>2, <1>3, <1>5 DEF DeadThread, Freed, Queued, Held
<1>10. Current /\ Locked /\ Pending BY <1>1, <1>2, <1>3 DEF Current, Locked, Pending
<1> QED BY <1>2, <1>6, <1>7, <1>8, <1>9, <1>10 DEF IInv

\* The steps of a call that works on the thread arg[t].
LEMMA WorkSteps ==
  ASSUME IInv, NEW t \in Thread,
         \/ StartupInsert(t) \/ SuspendBody(t) \/ ResumeBody(t) \/ ResumeInsert(t)
         \/ DeleteTimer(t) \/ DeleteClose(t) \/ DeletePut(t)
         \/ t = Idle /\ IdleFree
  PROVE  SafeStep
<1>1. PICK from \in Busy : Running(t, from)
  BY DEF StartupInsert, SuspendBody, ResumeBody, ResumeInsert, DeleteTimer, DeleteClose,
         DeletePut, IdleFree, Busy, Insertable, Deleting, Dead
<1>2. PICK u \in Thread : arg[t] = u BY <1>1, Caller
<1> QED BY <1>2, InsertStep, SuspendBodyStep, ResumeBodyStep, DeleteTimerStep, DeleteCloseStep,
           DeletePutStep, IdleFreeStep

LEMMA CallSteps ==
  ASSUME IInv, DeleteTimed = FALSE, NEW t \in Thread, NEW u \in Thread,
         \/ Create(t, u) \/ Startup(t, u) \/ Suspend(t, u) \/ Resume(t, u) \/ Delete(t, u)
         \/ \E p \in Prio : Priority(t, u, p)
  PROVE  SafeStep
<1>1. CASE Create(t, u) BY <1>1, CreateStep
<1>2. CASE Startup(t, u) BY <1>2, StartupStep
<1>3. CASE Suspend(t, u) \/ Resume(t, u) BY <1>3, TestStep
<1>4. CASE Delete(t, u) BY <1>4, DeleteStep
<1>5. CASE \E p \in Prio : Priority(t, u, p) BY <1>5, PriorityStep
<1> QED BY <1>1, <1>2, <1>3, <1>4, <1>5

LEMMA ThreadSteps ==
  ASSUME IInv, DeleteTimed = FALSE, NEW t \in Thread, Step(t)
  PROVE  SafeStep
<1>1. CASE Schedule(t) \/ ExitSchedule(t) \/ Reschedule(t) \/ SleepSchedule(t)
  BY <1>1, ScheduleSteps
<1>2. CASE \E n \in 0..MaxDelay : Sleep(t, n) BY <1>2, SleepStep
<1>3. CASE SleepBack(t) BY <1>3, SleepBackStep
<1>4. CASE Yield(t) BY <1>4, YieldStep
<1>5. CASE EnterCritical(t) \/ ExitCritical(t) BY <1>5, CriticalSteps
<1>6. CASE rt_thread_exit(t) BY <1>6, ExitStep
<1>7. CASE \/ StartupInsert(t) \/ SuspendBody(t) \/ ResumeBody(t) \/ ResumeInsert(t)
           \/ DeleteTimer(t) \/ DeleteClose(t) \/ DeletePut(t)
  BY <1>7, WorkSteps
<1>8. CASE \E u \in Thread :
             \/ Create(t, u) \/ Startup(t, u) \/ Suspend(t, u) \/ Resume(t, u) \/ Delete(t, u)
             \/ \E p \in Prio : Priority(t, u, p)
  BY <1>8, CallSteps
<1> QED BY <1>1, <1>2, <1>3, <1>4, <1>5, <1>6, <1>7, <1>8 DEF Step

LEMMA Unchanged ==
  ASSUME IInv, UNCHANGED vars
  PROVE  SafeStep
BY DEF SafeStep, vars, IInv, TypeOK, Hands, Windows, Window, DeadThread, Freed, Held, Queued, BeingDeleted,
       Current, Locked, Pending

LEMMA NextStep ==
  ASSUME IInv, DeleteTimed = FALSE, [Next]_vars
  PROVE  SafeStep
<1>1. CASE \E u \in Thread : AppInit(u) BY <1>1, AppInitStep
<1>2. CASE rt_system_scheduler_start BY <1>2, StartStep
<1>3. CASE \E t \in Thread : Step(t) BY <1>3, ThreadSteps
<1>4. CASE IdleReap BY <1>4, IdleReapStep
<1>5. CASE IdleFree BY <1>5, WorkSteps, ThreadAssumption
<1>6. CASE Tick BY <1>6, TickStep
<1>7. CASE TimerCheck BY <1>7, TimerCheckStep
<1>8. CASE \E u \in Thread : IsrResume(u) BY <1>8, IsrResumeStep
<1>9. CASE UNCHANGED vars BY <1>9, Unchanged
<1> QED BY <1>1, <1>2, <1>3, <1>4, <1>5, <1>6, <1>7, <1>8, <1>9 DEF Next, Interrupt

\* The invariant above holds in every state of every behaviour, for every
\* number of threads, priorities and lists, under the rule that no thread is
\* deleted while its timer runs (the guard of rt_thread_delete's callers).
THEOREM Invariance ==
  ASSUME DeleteTimed = FALSE
  PROVE  Spec => []IInv
<1>1. IInv /\ [Next]_vars => IInv' BY NextStep DEF SafeStep
<1> QED BY <1>1, InitStep, PTL DEF Spec

-----------------------------------------------------------------------------
(* The properties of Threads.                                              *)

\* Every variable keeps its type.
THEOREM TypeCorrect ==
  ASSUME DeleteTimed = FALSE
  PROVE  Spec => []TypeOK
<1>1. IInv => TypeOK BY DEF IInv
<1> QED BY <1>1, Invariance, PTL

\* The priority bitmap names exactly the queues that have a thread
\* (rt_schedule_insert_thread, rt_schedule_remove_thread), so that rt_schedule
\* always finds a thread at the head of the queue it picks.
THEOREM BitmapIsExact ==
  ASSUME DeleteTimed = FALSE
  PROVE  Spec => []BitmapExact
<1>1. IInv => BitmapExact BY DEF IInv, KernelOK, Bitmap, BitmapExact
<1> QED BY <1>1, Invariance, PTL

\* A thread is READY exactly when it is on the queue of its priority, also
\* between the halves of a startup, a resume or a suspension and while its
\* priority changes.
THEOREM ReadyThreadsAreQueued ==
  ASSUME DeleteTimed = FALSE
  PROVE  Spec => []ReadyIsQueued
<1>1. IInv => ReadyIsQueued
  <2> SUFFICES ASSUME IInv, NEW t \in Thread
               PROVE  /\ \A p \in Prio : t \in Linked(p) => k.stat[t] = "READY" /\ p = k.prio[t]
                      /\ k.stat[t] = "READY" /\ ~BeingDeleted(t) => t \in Linked(k.prio[t])
    BY DEF ReadyIsQueued
  <2>1. \A p \in Prio : t \in Linked(p) => k.stat[t] = "READY" /\ p = k.prio[t]
    BY DEF IInv, KernelOK, Placed, On, Linked
  <2>2. ASSUME k.stat[t] = "READY", ~BeingDeleted(t) PROVE t \in Linked(k.prio[t])
    <3>1. PICK l \in ListHead : t \in On(k, l) BY <2>2 DEF IInv, Queued, Off
    <3>2. l \in Prio BY <2>2, <3>1 DEF IInv, KernelOK, Placed, ListHead
    <3>3. l = k.prio[t] BY <3>1, <3>2 DEF IInv, KernelOK, Placed
    <3> QED BY <3>1, <3>3 DEF On, Linked
  <2> QED BY <2>1, <2>2
<1> QED BY <1>1, Invariance, PTL

\* No list operation of any interleaving links a node that is still linked
\* (rt_list_insert_before and rt_list_insert_after do not look).
THEOREM NodesOnOneList ==
  ASSUME DeleteTimed = FALSE
  PROVE  Spec => []NodeOnOneList
<1>1. IInv => NodeOnOneList
  <2> SUFFICES ASSUME IInv, NEW l \in ListHead, NEW m \in ListHead,
                      NEW i \in DOMAIN k.list[l], NEW j \in DOMAIN k.list[m],
                      k.list[l][i] = k.list[m][j]
               PROVE  l = m /\ i = j
    BY DEF NodeOnOneList
  <2>1. Apart(k) BY DEF IInv, KernelOK
  <2>2. k.list[l][i] \in On(k, l) /\ k.list[l][i] \in On(k, m) BY DEF On, ToSet
  <2>3. l = m BY <2>1, <2>2 DEF Apart
  <2>4. NoDup(k.list[l]) BY <2>1 DEF Apart
  <2> QED BY <2>3, <2>4 DEF NoDup
<1> QED BY <1>1, Invariance, PTL

\* No timeout, no interrupt and no call makes a closed thread run again
\* (rt_thread_delete, rt_thread_detach, rt_thread_exit).
THEOREM TheDeadStayDead ==
  ASSUME DeleteTimed = FALSE
  PROVE  Spec => []DeadStaysDead
<1>1. IInv => DeadStaysDead
  <2> SUFFICES ASSUME IInv, NEW t \in Thread, k.stat[t] = "CLOSE"
               PROVE  /\ ~TimerActive(k, t)
                      /\ \A l \in ListHead \ {Defunct} : t \notin Linked(l)
                      /\ k.cur = t => pc[t] = "exit_sched"
    BY DEF DeadStaysDead
  <2>1. ~TimerActive(k, t) BY DEF IInv, KernelOK, Placed, TimerActive, Timed
  <2>2. \A l \in ListHead \ {Defunct} : t \notin Linked(l)
    BY DEF IInv, KernelOK, Placed, ListHead, On, Linked
  <2>3. k.cur = t => pc[t] = "exit_sched" BY DEF IInv, DeadThread
  <2> QED BY <2>1, <2>2, <2>3
<1> QED BY <1>1, Invariance, PTL

\* The idle thread (rt_thread_idle_excute) and rt_thread_detach free a thread
\* object only when no list, no timer and no call in progress refers to it.
THEOREM FreedThreadsAreUnreferenced ==
  ASSUME DeleteTimed = FALSE
  PROVE  Spec => []NoDanglingThread
<1>1. IInv => NoDanglingThread
  <2> SUFFICES ASSUME IInv, NEW t \in Thread, t \notin alloc
               PROVE  /\ \A l \in ListHead : t \notin Linked(l)
                      /\ ~TimerActive(k, t)
                      /\ k.cur = t => t \in Static /\ pc[t] = "exit_sched"
    BY DEF NoDanglingThread
  <2>1. k.stat[t] = "CLOSE" /\ Off(k, t) /\ (k.cur = t => t \in Static) BY DEF IInv, Freed
  <2>2. ~TimerActive(k, t) BY <2>1 DEF IInv, KernelOK, Placed, TimerActive, Timed
  <2>3. k.cur = t => pc[t] = "exit_sched" BY <2>1 DEF IInv, DeadThread
  <2> QED BY <2>1, <2>2, <2>3 DEF Off, On, Linked
<1> QED BY <1>1, Invariance, PTL

\* The assertion of rt_thread_timeout holds whenever a thread timer expires.
THEOREM TimersOfSuspendedThreads ==
  ASSUME DeleteTimed = FALSE
  PROVE  Spec => []TimerOnlyWhenSuspended
<1>1. IInv => TimerOnlyWhenSuspended
  <2> SUFFICES ASSUME IInv, NEW t \in ToSet(k.timers) PROVE k.stat[t] = "SUSPEND"
    BY DEF TimerOnlyWhenSuspended
  <2>1. k.timers \in Seq(Thread) BY KernelFields DEF IInv, KernelOK
  <2>2. t \in Thread /\ t \in Timed(k) BY <2>1, EmptyList DEF Timed
  <2> QED BY <2>2 DEF IInv, KernelOK, Placed
<1> QED BY <1>1, Invariance, PTL

\* While the scheduler is locked (rt_enter_critical) neither a call nor an
\* interrupt takes the processor from the thread that locked it.
THEOREM LockedProcessorStays ==
  ASSUME DeleteTimed = FALSE
  PROVE  Spec => LockKeepsRunning
<1>1. IInv /\ [Next]_vars => [k.nest > 0 => k'.cur = k.cur]_vars BY NextStep DEF SafeStep
<1> QED BY <1>1, Invariance, PTL DEF Spec, LockKeepsRunning

-----------------------------------------------------------------------------
(* The running thread is the first of the highest queue.                   *)

First(s) == s.cur = Head(s.list[Highest(s)])

\* Highest is the least number in the bitmap, and names a queue of threads.
LEMMA TopQueue ==
  ASSUME NEW s, KernelOK(s)
  PROVE  /\ Highest(s) \in Prio /\ Highest(s) \in s.group
         /\ \A q \in s.group : Highest(s) <= q
         /\ \A q \in Prio : s.list[q] \in Seq(Thread) /\ NoDup(s.list[q])
         /\ s.group \in SUBSET Nat
<1>1. /\ s.group \in SUBSET Prio
      /\ \A q \in Prio : s.list[q] \in Seq(Thread) /\ NoDup(s.list[q])
  BY KernelFields DEF ListHead, KernelOK, Apart
<1>2. s.group # {}
  <2>1. IdlePrio \in Prio BY BoundAssumption DEF IdlePrio, Prio
  <2>2. s.list[IdlePrio] # <<>> BY <2>1, <1>1, EmptyList DEF On, KernelOK
  <2> QED BY <2>1, <2>2 DEF Bitmap, KernelOK
<1>3. s.group \in SUBSET Nat BY <1>1 DEF Prio
<1>4. \E q \in s.group : \A x \in s.group : q <= x BY <1>2, <1>3, Minimum
<1>5. Highest(s) \in s.group /\ \A q \in s.group : Highest(s) <= q BY <1>4 DEF Highest
<1> QED BY <1>1, <1>3, <1>5

\* rt_list_remove of a later element leaves the first one first.
LEMMA HeadStays ==
  ASSUME NEW S, NEW q \in Seq(S), NoDup(q), NEW u, q # <<>>, Head(q) # u
  PROVE  Without(q, u) # <<>> /\ Head(Without(q, u)) = Head(q)
<1> DEFINE r == Without(q, u)
<1>1. Len(q) \in Nat /\ Len(q) > 0 /\ DOMAIN q = 1..Len(q) /\ Head(q) = q[1] OBVIOUS
<1>2. CASE u \notin ToSet(q) BY <1>2 DEF Without
<1>3. CASE u \in ToSet(q)
  <2> DEFINE n == Index(q, u)
  <2>1. n \in 1..Len(q) /\ q[n] = u
    <3>1. \E i \in DOMAIN q : q[i] = u BY <1>3 DEF ToSet
    <3> QED BY <3>1, <1>1 DEF Index
  <2>2. r = RemoveAt(q, n) BY <1>3 DEF Without
  <2> HIDE DEF n, r
  <2>3. n \in 2..Len(q) BY <2>1, <1>1
  <2>4. r = SubSeq(q, 1, n - 1) \o SubSeq(q, n + 1, Len(q)) BY <2>2 DEF RemoveAt
  <2> DEFINE a == SubSeq(q, 1, n - 1)
             b == SubSeq(q, n + 1, Len(q))
  <2>5. a \in Seq(S) /\ Len(a) = n - 1 /\ a[1] = q[1] BY <2>3, <1>1
  <2>6. b \in Seq(S) BY <2>3, <1>1
  <2> HIDE DEF a, b
  <2>7. /\ r \in Seq(S) /\ Len(r) = Len(a) + Len(b)
        /\ \A i \in 1..(Len(a) + Len(b)) : r[i] = IF i <= Len(a) THEN a[i] ELSE b[i - Len(a)]
    BY <2>4, <2>5, <2>6, ConcatProperties DEF a, b
  <2>8. Len(b) \in Nat BY <2>6
  <2>9. 1 \in 1..(Len(a) + Len(b)) /\ 1 <= Len(a) /\ Len(r) > 0 BY <2>3, <2>5, <2>7, <2>8
  <2> QED BY <2>5, <2>7, <2>9, <1>1 DEF r
<1> QED BY <1>2, <1>3

\* The queues keep their threads, but for one that does not run.
LEMMA StillFirst ==
  ASSUME NEW s, NEW r, KernelOK(s), KernelOK(r), First(s), r.cur = s.cur,
         NEW u, u # s.cur,
         \A p \in Prio : r.list[p] \in {s.list[p], Without(s.list[p], u)}
  PROVE  First(r)
<1> DEFINE h == Highest(s)
           g == Highest(r)
<1>1. /\ h \in Prio /\ h \in s.group /\ (\A q \in s.group : h <= q)
      /\ \A q \in Prio : s.list[q] \in Seq(Thread) /\ NoDup(s.list[q])
  BY TopQueue
<1>2. g \in Prio /\ g \in r.group /\ \A q \in r.group : g <= q BY TopQueue
<1>3. s.cur = Head(s.list[h]) BY DEF First
<1> HIDE DEF h, g
<1>4. /\ s.group = {p \in Prio : s.list[p] # <<>>}
      /\ r.group = {p \in Prio : r.list[p] # <<>>}
  BY DEF KernelOK, Bitmap
<1>5. r.list[h] # <<>> /\ Head(r.list[h]) = s.cur
  <2>1. s.list[h] # <<>> BY <1>1, <1>4
  <2>2. Without(s.list[h], u) # <<>> /\ Head(Without(s.list[h], u)) = Head(s.list[h])
    BY <1>1, <1>3, <2>1, HeadStays
  <2> QED BY <1>1, <1>3, <2>1, <2>2
<1>6. s.list[g] # <<>>
  <2> SUFFICES ASSUME s.list[g] = <<>> PROVE FALSE OBVIOUS
  <2>1. ToSet(s.list[g]) = {} BY <1>1, <1>2, EmptyList
  <2>2. Without(s.list[g], u) = s.list[g] BY <2>1 DEF Without
  <2> QED BY <1>2, <1>4, <2>2
<1>7. g <= h /\ h <= g BY <1>1, <1>2, <1>4, <1>5, <1>6
<1>8. g = h BY <1>1, <1>2, <1>7 DEF Prio
<1> QED BY <1>5, <1>8 DEF First, g

\* Whatever rt_schedule is applied to, it leaves the first thread running.
LEMMA Dispatched ==
  ASSUME NEW s, rt_schedule(s) \in KernelState, rt_schedule(s).nest = 0
  PROVE  First(rt_schedule(s))
<1> DEFINE r == rt_schedule(s)
           h == Head(s.list[Highest(s)])
<1>1. s.nest = 0 BY DEF rt_schedule
<1>2. r = [s EXCEPT !.cur = h] BY <1>1 DEF rt_schedule
<1> HIDE DEF h, r
<1>3. r \in KernelState BY DEF r
<1>4. DOMAIN r = DOMAIN s BY <1>2
<1>5. {"list", "group", "cur"} \subseteq DOMAIN s BY <1>3, <1>4 DEF KernelState
<1>6. r.list = s.list /\ r.group = s.group /\ r.cur = h BY <1>2, <1>5
<1>7. Highest(r) = Highest(s) BY <1>6 DEF Highest
<1> QED BY <1>6, <1>7 DEF First, h, r

\* A caller that keeps the processor, and reschedules if it owes it.
LEMMA FirstKept ==
  ASSUME IInv, IInv', RunsHighest, NEW t \in Thread, NEW from, Running(t, from),
         from \notin Leaving, owed' = owed, k'.cur = k.cur, k'.nest = k.nest,
         NEW u, u # t, \A p \in Prio : k'.list[p] \in {k.list[p], Without(k.list[p], u)}
  PROVE  RunsHighest'
<1>1. k.cur = t /\ isr = "none" /\ pc[t] = from BY Caller
<1>2. k.cur # NoThread BY <1>1, ThreadAssumption
<1>3. SUFFICES ASSUME k'.nest = 0, ~owed' PROVE First(k') BY DEF RunsHighest, First
<1>4. First(k) BY <1>1, <1>2, <1>3 DEF RunsHighest, First, Leaving
<1>5. KernelOK(k) /\ KernelOK(k') BY DEF IInv
<1> QED BY <1>1, <1>4, <1>5, StillFirst

\* A caller that is about to reschedule, or leaves it to its own caller.
LEMMA FirstOwed ==
  ASSUME NEW t, k'.cur = t, owed' = TRUE \/ pc'[t] \in Leaving \/ k'.nest > 0
  PROVE  RunsHighest'
BY DEF RunsHighest, Leaving

\* A step that ends in rt_schedule.
LEMMA FirstChosen ==
  ASSUME IInv', NEW s, k' = rt_schedule(s)
  PROVE  RunsHighest'
<1>1. k' \in KernelState BY DEF IInv, KernelOK
<1>2. k'.nest = 0 => First(k') BY <1>1, Dispatched
<1> QED BY <1>2 DEF RunsHighest, First

\* The fields of a kernel record after the regions that unlink a thread.
LEMMA UnlinkedLists ==
  ASSUME NEW s \in KernelState, NEW u
  PROVE  LET r == rt_list_remove(s, u)
             v == rt_schedule_remove_thread(s, u)
         IN  /\ r.cur = s.cur /\ r.nest = s.nest /\ v.cur = s.cur /\ v.nest = s.nest
             /\ \A p \in Prio : r.list[p] = Without(s.list[p], u) /\ v.list[p] = Without(s.list[p], u)
             /\ rt_timer_stop(r, u).list = r.list /\ rt_timer_stop(v, u).list = v.list
             /\ rt_timer_stop(r, u).cur = r.cur /\ rt_timer_stop(v, u).cur = v.cur
             /\ rt_timer_stop(r, u).nest = r.nest /\ rt_timer_stop(v, u).nest = v.nest
<1> DEFINE f == [l \in ListHead |-> Without(s.list[l], u)]
           r == rt_list_remove(s, u)
           v == rt_schedule_remove_thread(s, u)
           g == IF r.list[s.prio[u]] = <<>> THEN r.group \ {s.prio[u]} ELSE r.group
<1>1. r = [s EXCEPT !.list = f] BY DEF rt_list_remove
<1>2. v = [r EXCEPT !.group = g] BY DEF rt_schedule_remove_thread
<1>3. \A p \in Prio : f[p] = Without(s.list[p], u) BY DEF ListHead
<1> HIDE DEF f, r, v, g
<1>4. r.list = f /\ r.cur = s.cur /\ r.nest = s.nest /\ DOMAIN r = DOMAIN s BY <1>1 DEF KernelState
<1>5. /\ v.list = r.list /\ v.cur = r.cur /\ v.nest = r.nest
      /\ DOMAIN v = DOMAIN s
  BY <1>1, <1>2 DEF KernelState
<1>6. /\ rt_timer_stop(r, u).list = r.list /\ rt_timer_stop(r, u).cur = r.cur
      /\ rt_timer_stop(r, u).nest = r.nest
  BY <1>1 DEF rt_timer_stop, KernelState
<1>7. /\ rt_timer_stop(v, u).list = v.list /\ rt_timer_stop(v, u).cur = v.cur
      /\ rt_timer_stop(v, u).nest = v.nest
  BY <1>1, <1>2 DEF rt_timer_stop, KernelState
<1> QED BY <1>3, <1>4, <1>5, <1>6, <1>7 DEF r, v

\* The steps that move no thread of a queue, or one that does not run.
LEMMA FirstCaller ==
  ASSUME IInv, IInv', RunsHighest, NEW t \in Thread,
         \/ SleepBack(t) \/ SuspendBody(t) \/ ResumeBody(t) \/ EnterCritical(t) \/ ExitCritical(t)
         \/ DeleteTimer(t) \/ DeleteClose(t) \/ DeletePut(t)
         \/ t = Idle /\ IdleFree
  PROVE  RunsHighest'
<1>0. k \in KernelState /\ pc \in [Thread -> Label] /\ k.nest \in Nat
  BY KernelFields DEF IInv, TypeOK, KernelOK
<1>1. CASE SleepBack(t)
  <2>1. /\ Running(t, "sleep_back") /\ owed' = owed /\ k'.cur = k.cur /\ k'.nest = k.nest
        /\ k'.list = k.list
    BY <1>0, <1>1 DEF SleepBack, KernelState
  <2> QED BY <2>1, FirstKept, ThreadAssumption DEF Leaving
<1>2. CASE SuspendBody(t)
  <2> DEFINE u == arg[t]
             s == [k EXCEPT !.stat[u] = "SUSPEND"]
             l == IF u = t THEN "sched" ELSE "run"
  <2>1. /\ Running(t, "suspend_body") /\ owed' = owed /\ pc' = [pc EXCEPT ![t] = l]
        /\ k' = rt_timer_stop(rt_schedule_remove_thread(s, u), u)
    BY <1>2 DEF SuspendBody, Work, Goto
  <2>2. k.cur = t BY <2>1 DEF Running
  <2>3. s \in KernelState /\ s.list = k.list /\ s.cur = k.cur /\ s.nest = k.nest
    BY <1>0 DEF KernelState, Stat
  <2> HIDE DEF s, u
  <2>4. /\ k'.cur = k.cur /\ k'.nest = k.nest
        /\ \A p \in Prio : k'.list[p] = Without(k.list[p], u)
    BY <2>1, <2>3, UnlinkedLists
  <2>5. CASE u = t
    <3>1. pc'[t] \in Leaving BY <1>0, <2>1, <2>5 DEF Leaving
    <3> QED BY <2>2, <2>4, <3>1, FirstOwed
  <2>6. CASE u # t BY <2>1, <2>4, <2>6, FirstKept DEF Leaving
  <2> QED BY <2>5, <2>6
<1>3. CASE ResumeBody(t)
  <2> DEFINE u == arg[t]
  <2>1. Running(t, "resume_body") /\ owed' = owed /\ k' = ResumeUnlink(k, u)
    BY <1>3 DEF ResumeBody
  <2>2. "resume_body" \in Busy /\ "resume_body" \in Insertable /\ "resume_body" \notin Leaving
    BY DEF Busy, Insertable, Leaving
  <2>3. u \in Thread /\ Window(t, u) /\ k.stat[t] = "READY" /\ pc[t] = "resume_body"
    BY <2>1, <2>2, Caller
  <2> HIDE DEF u
  <2>4. u # t BY <2>2, <2>3 DEF Window
  <2>5. /\ k'.cur = k.cur /\ k'.nest = k.nest
        /\ \A p \in Prio : k'.list[p] = Without(k.list[p], u)
    BY <1>0, <2>1, UnlinkedLists DEF ResumeUnlink
  <2> QED BY <2>1, <2>2, <2>4, <2>5, FirstKept
<1>4. CASE EnterCritical(t)
  <2>1. Running(t, "run") /\ k'.cur = k.cur /\ k'.nest = k.nest + 1
    BY <1>0, <1>4 DEF EnterCritical, Calls, rt_enter_critical, KernelState
  <2>2. k'.nest > 0 BY <1>0, <2>1
  <2> QED BY <2>1, <2>2, FirstOwed DEF Running
<1>5. CASE ExitCritical(t)
  <2>1. /\ Running(t, "run") /\ k.nest > 0 /\ k' = rt_exit_critical(k)
        /\ pc' = [pc EXCEPT ![t] = IF k.nest = 1 THEN "sched" ELSE "run"]
    BY <1>5 DEF ExitCritical, Calls, Goto
  <2>2. k'.cur = k.cur /\ k'.nest = k.nest - 1
    BY <1>0, <2>1 DEF rt_exit_critical, KernelState
  <2>3. k.nest = 1 => pc'[t] \in Leaving BY <1>0, <2>1 DEF Leaving
  <2>4. k.nest # 1 => k'.nest > 0 BY <1>0, <2>1, <2>2
  <2> QED BY <2>1, <2>2, <2>3, <2>4, FirstOwed DEF Running
<1>6. CASE DeleteTimer(t)
  <2>1. /\ Running(t, "delete_timer") /\ owed' = owed /\ k'.cur = k.cur /\ k'.nest = k.nest
        /\ k'.list = k.list
    BY <1>0, <1>6 DEF DeleteTimer, rt_timer_stop, KernelState
  <2> QED BY <2>1, FirstKept, ThreadAssumption DEF Leaving
<1>7. CASE DeleteClose(t)
  <2>1. /\ Running(t, "delete_close") /\ owed' = owed /\ k'.cur = k.cur /\ k'.nest = k.nest
        /\ k'.list = k.list
    BY <1>0, <1>7 DEF DeleteClose, KernelState
  <2> QED BY <2>1, FirstKept, ThreadAssumption DEF Leaving
<1>8. CASE DeletePut(t)
  <2>1. /\ Running(t, "delete_put") /\ owed' = owed /\ k'.cur = k.cur /\ k'.nest = k.nest
        /\ k'.list = [k.list EXCEPT ![Defunct] = <<arg[t]>> \o @]
    BY <1>0, <1>8 DEF DeletePut, KernelState
  <2>2. \A p \in Prio : k'.list[p] = k.list[p]
    BY <1>0, <2>1, KernelFields, ListAssumption DEF ListHead
  <2> QED BY <2>1, <2>2, FirstKept, ThreadAssumption DEF Leaving
<1>9. CASE t = Idle /\ IdleFree
  <2>1. Running(t, "idle_free") /\ owed' = owed /\ k' = k BY <1>9 DEF IdleFree
  <2> QED BY <2>1, FirstKept, ThreadAssumption DEF Leaving
<1> QED BY <1>1, <1>2, <1>3, <1>4, <1>5, <1>6, <1>7, <1>8, <1>9

LEMMA FirstCalled ==
  ASSUME IInv, IInv', RunsHighest, NEW t \in Thread, NEW u \in Thread,
         Create(t, u) \/ Startup(t, u) \/ Suspend(t, u) \/ Resume(t, u) \/ Delete(t, u)
  PROVE  RunsHighest'
<1>0. k \in KernelState BY DEF IInv, KernelOK
<1>1. Running(t, "run") /\ owed' = owed /\ k.cur = t /\ k.stat[t] = "READY"
  <2>1. Running(t, "run") /\ owed' = owed BY DEF Create, Startup, Suspend, Resume, Delete, Calls
  <2> QED BY <2>1, Caller DEF Leaving
<1>2. CASE Create(t, u)
  <2>1. k'.cur = k.cur /\ k'.nest = k.nest /\ k'.list = k.list
    BY <1>0, <1>2 DEF Create, CreatedThread, KernelState
  <2> QED BY <1>1, <2>1, FirstKept, ThreadAssumption DEF Leaving
<1>3. CASE Startup(t, u)
  <2> DEFINE s == [k EXCEPT !.stat[u] = "SUSPEND", !.prio[u] = k.init[u]]
  <2>1. k.stat[u] = "INIT" /\ k' = ResumeUnlink(s, u) BY <1>3 DEF Startup, StartedThread
  <2>2. s \in KernelState /\ s.list = k.list /\ s.cur = k.cur /\ s.nest = k.nest
    BY <1>0 DEF KernelState, Stat
  <2> HIDE DEF s
  <2>3. /\ k'.cur = k.cur /\ k'.nest = k.nest
        /\ \A p \in Prio : k'.list[p] = Without(k.list[p], u)
    BY <2>1, <2>2, UnlinkedLists DEF ResumeUnlink
  <2>4. u # t BY <1>1, <2>1
  <2> QED BY <1>1, <2>3, <2>4, FirstKept DEF Leaving
<1>4. CASE Suspend(t, u) \/ Resume(t, u)
  <2>1. k' = k BY <1>4 DEF Suspend, Resume
  <2> QED BY <1>1, <2>1, FirstKept, ThreadAssumption DEF Leaving
<1>5. CASE Delete(t, u)
  <2>1. u # t /\ k' = IF k.stat[u] # "INIT" THEN rt_schedule_remove_thread(k, u) ELSE k
    BY <1>5 DEF Delete
  <2>2. /\ k'.cur = k.cur /\ k'.nest = k.nest
        /\ \A p \in Prio : k'.list[p] \in {k.list[p], Without(k.list[p], u)}
    BY <1>0, <2>1, UnlinkedLists
  <2> QED BY <1>1, <2>1, <2>2, FirstKept DEF Leaving
<1> QED BY <1>2, <1>3, <1>4, <1>5

\* The steps after which the caller reschedules, or its caller has to.
LEMMA FirstLater ==
  ASSUME IInv, NEW t \in Thread,
         \/ StartupInsert(t) \/ Yield(t) \/ ResumeInsert(t) \/ rt_thread_exit(t)
         \/ \E n \in 0..MaxDelay : Sleep(t, n)
         \/ \E u \in Thread, p \in Prio : Priority(t, u, p)
  PROVE  RunsHighest'
<1>0. k \in KernelState /\ pc \in [Thread -> Label] BY DEF IInv, TypeOK, KernelOK
<1>1. \A s \in KernelState : \A u : rt_schedule_insert_thread(s, u).cur = s.cur
  BY DEF rt_schedule_insert_thread, KernelState
<1>2. CASE StartupInsert(t) \/ ResumeInsert(t)
  <2>1. k.cur = t /\ k' = rt_schedule_insert_thread(k, arg[t]) /\ owed' = TRUE
    BY <1>2 DEF StartupInsert, ResumeInsert, Running
  <2> QED BY <1>0, <1>1, <2>1, FirstOwed
<1>3. CASE Yield(t)
  <2>1. k.cur = t /\ k' = ToQueueEnd(k, t) /\ owed' = TRUE BY <1>3 DEF Yield, Calls, Running
  <2>2. k'.cur = t BY <1>0, <2>1 DEF ToQueueEnd, rt_list_remove, KernelState
  <2> QED BY <2>1, <2>2, FirstOwed
<1>4. CASE rt_thread_exit(t)
  <2> DEFINE s == rt_timer_stop(rt_schedule_remove_thread(k, t), t)
  <2>1. /\ k.cur = t /\ pc' = [pc EXCEPT ![t] = "exit_sched"]
        /\ \/ k' = [s EXCEPT !.stat[t] = "CLOSE"]
           \/ k' = [s EXCEPT !.stat[t] = "CLOSE", !.list[Defunct] = <<t>> \o @]
    BY <1>4 DEF rt_thread_exit, Calls, Running, Goto
  <2>2. s.cur = k.cur BY <1>0, UnlinkedLists
  <2>3. "cur" \in DOMAIN s
    BY <1>0 DEF KernelState, rt_timer_stop, rt_schedule_remove_thread, rt_list_remove
  <2> HIDE DEF s
  <2>4. k'.cur = t BY <2>1, <2>2, <2>3
  <2>5. pc'[t] \in Leaving BY <1>0, <2>1 DEF Leaving
  <2> QED BY <2>4, <2>5, FirstOwed
<1>5. CASE \E n \in 0..MaxDelay : Sleep(t, n)
  <2>1. PICK n \in 0..MaxDelay : Sleep(t, n) BY <1>5
  <2>2. Running(t, "run") /\ k' = rt_thread_sleep(k, t, n) /\ pc' = [pc EXCEPT ![t] = "sleep_sched"]
    BY <2>1 DEF Sleep, Calls, Goto
  <2>3. k.cur = t /\ k.stat[t] = "READY" /\ k.stat \in [Thread -> Stat]
    BY <1>0, <2>2, Caller, KernelFields DEF Leaving
  <2> DEFINE s == [k EXCEPT !.stat[t] = "SUSPEND"]
             r == rt_timer_stop(rt_schedule_remove_thread(s, t), t)
  <2>4. k' = rt_timer_start(r, t, n) BY <2>2, <2>3 DEF rt_thread_sleep, rt_thread_suspend
  <2>5. s \in KernelState /\ s.cur = k.cur BY <1>0 DEF KernelState, Stat
  <2> HIDE DEF s
  <2>6. r.cur = k.cur BY <2>5, UnlinkedLists
  <2>7. "cur" \in DOMAIN r
    BY <2>5 DEF KernelState, rt_timer_stop, rt_schedule_remove_thread, rt_list_remove
  <2> HIDE DEF r
  <2>8. k'.cur = t BY <2>3, <2>4, <2>6, <2>7 DEF rt_timer_start
  <2>9. pc'[t] \in Leaving BY <1>0, <2>2 DEF Leaving
  <2> QED BY <2>8, <2>9, FirstOwed
<1>6. CASE \E u \in Thread, p \in Prio : Priority(t, u, p)
  <2>1. PICK u \in Thread, p \in Prio : Priority(t, u, p) BY <1>6
  <2>2. k.cur = t /\ k' = ChangePriority(k, u, p) /\ owed' = TRUE
    BY <2>1 DEF Priority, Calls, Running
  <2> DEFINE v == rt_schedule_remove_thread(k, u)
             w == [v EXCEPT !.prio[u] = p]
  <2>3. v.cur = k.cur /\ DOMAIN v = DOMAIN k
    <3>1. v.cur = k.cur BY <1>0, UnlinkedLists
    <3> QED BY <3>1 DEF rt_schedule_remove_thread, rt_list_remove
  <2>4. "cur" \in DOMAIN k BY <1>0 DEF KernelState
  <2> HIDE DEF v
  <2>5. w.cur = k.cur /\ "cur" \in DOMAIN w BY <2>3, <2>4
  <2> HIDE DEF w
  <2>6. rt_schedule_insert_thread(w, u).cur = k.cur BY <2>5 DEF rt_schedule_insert_thread
  <2>7. [k EXCEPT !.prio[u] = p].cur = k.cur BY <2>4
  <2>8. k'.cur = t BY <2>2, <2>6, <2>7 DEF ChangePriority, v, w
  <2> QED BY <2>2, <2>8, FirstOwed
<1> QED BY <1>2, <1>3, <1>4, <1>5, <1>6

\* The interrupts, and the idle thread's rt_exit_critical.
LEMMA FirstInterrupt ==
  ASSUME IInv, IInv', RunsHighest,
         Tick \/ TimerCheck \/ IdleReap \/ \E u \in Thread : IsrResume(u)
  PROVE  RunsHighest'
<1>0. k \in KernelState BY DEF IInv, KernelOK
<1>1. CASE TimerCheck \/ IdleReap \/ \E u \in Thread : IsrResume(u)
  <2>1. \E s : k' = rt_schedule(s)
    BY <1>1 DEF TimerCheck, rt_timer_check, TimerFire, rt_thread_timeout, IdleReap, IsrResume
  <2> QED BY <2>1, FirstChosen
<1>2. CASE Tick
  <2> DEFINE t == k.cur
             a == [k EXCEPT !.left = [u \in Thread |-> IF k.left[u] > 0 THEN k.left[u] - 1 ELSE 0],
                            !.slice[t] = IF k.slice[t] = 1 THEN InitTick ELSE k.slice[t] - 1]
  <2>1. /\ isr = "none" /\ k.cur # NoThread /\ pc' = pc
        /\ owed' = (owed /\ ~(k.slice[t] = 1 /\ SharesQueue(k, t) /\ k.nest = 0))
    BY <1>2 DEF Tick, rt_tick_increase
  <2>2. k' = IF k.slice[t] = 1 THEN rt_thread_yield(a) ELSE a
    BY <1>0, <1>2 DEF Tick, rt_tick_increase, TickIncrease, KernelState
  <2>3. /\ a.list = k.list /\ a.group = k.group /\ a.cur = k.cur /\ a.nest = k.nest
        /\ a.stat = k.stat /\ a.prio = k.prio
    BY <1>0 DEF KernelState
  <2> HIDE DEF a
  <2>4. CASE k.slice[t] = 1 /\ SharesQueue(k, t)
    <3>1. SharesQueue(a, a.cur) BY <2>3, <2>4 DEF SharesQueue
    <3>2. k' = rt_schedule(ToQueueEnd(a, a.cur)) BY <2>2, <2>4, <3>1 DEF rt_thread_yield
    <3> QED BY <3>2, FirstChosen
  <2>5. CASE ~(k.slice[t] = 1 /\ SharesQueue(k, t))
    <3>1. ~SharesQueue(k, t) => ~SharesQueue(a, a.cur) BY <2>3 DEF SharesQueue
    <3>2. k' = a BY <2>2, <2>5, <3>1 DEF rt_thread_yield
    <3>3. Highest(k') = Highest(k) BY <2>3, <3>2 DEF Highest
    <3>4. owed' = (owed /\ TRUE) BY <2>1, <2>5
    <3> QED BY <2>1, <2>3, <3>2, <3>3, <3>4 DEF RunsHighest
  <2> QED BY <2>4, <2>5
<1> QED BY <1>1, <1>2

LEMMA FirstSteps ==
  ASSUME IInv, IInv', RunsHighest, [Next]_vars
  PROVE  RunsHighest'
<1>1. CASE \E t \in Thread : Step(t)
  <2>1. PICK t \in Thread : Step(t) BY <1>1
  <2>2. CASE Schedule(t) \/ ExitSchedule(t) \/ Reschedule(t) \/ SleepSchedule(t)
    BY <2>2, FirstChosen DEF Schedule, ExitSchedule, Reschedule, SleepSchedule, Sched, ScheduleStep
  <2>3. CASE \/ StartupInsert(t) \/ Yield(t) \/ ResumeInsert(t) \/ rt_thread_exit(t)
             \/ \E n \in 0..MaxDelay : Sleep(t, n)
             \/ \E u \in Thread, p \in Prio : Priority(t, u, p)
    BY <2>3, FirstLater
  <2>4. CASE \/ SleepBack(t) \/ SuspendBody(t) \/ ResumeBody(t) \/ EnterCritical(t)
             \/ ExitCritical(t) \/ DeleteTimer(t) \/ DeleteClose(t) \/ DeletePut(t)
    BY <2>4, FirstCaller
  <2>5. CASE \E u \in Thread : \/ Create(t, u) \/ Startup(t, u) \/ Suspend(t, u) \/ Resume(t, u)
                               \/ Delete(t, u)
    BY <2>5, FirstCalled
  <2> QED BY <2>1, <2>2, <2>3, <2>4, <2>5 DEF Step
<1>2. CASE IdleFree BY <1>2, FirstCaller, ThreadAssumption
<1>3. CASE IdleReap \/ Interrupt BY <1>3, FirstInterrupt DEF Interrupt
<1>4. CASE rt_system_scheduler_start
  <2>1. k \in KernelState BY DEF IInv, KernelOK
  <2>2. k' = [k EXCEPT !.cur = Head(k.list[Highest(k)])] BY <1>4 DEF rt_system_scheduler_start
  <2>3. k'.list = k.list /\ k'.group = k.group /\ k'.cur = Head(k.list[Highest(k)])
    BY <2>1, <2>2 DEF KernelState
  <2>4. Highest(k') = Highest(k) BY <2>3 DEF Highest
  <2> QED BY <2>3, <2>4 DEF RunsHighest
<1>5. CASE \E u \in Thread : AppInit(u)
  <2>1. PICK u \in Thread : AppInit(u) BY <1>5
  <2> DEFINE s == CreatedThread(k, u)
             q == [s EXCEPT !.stat[u] = "SUSPEND", !.prio[u] = s.init[u]]
  <2>2. k.cur = NoThread /\ k' = rt_schedule_insert_thread(ResumeUnlink(q, u), u)
    BY <2>1 DEF AppInit, StartedThread
  <2>3. k \in KernelState BY DEF IInv, KernelOK
  <2>4. s.cur = k.cur /\ DOMAIN s = DOMAIN k /\ "cur" \in DOMAIN k
    BY <2>3 DEF CreatedThread, KernelState
  <2> HIDE DEF s
  <2>5. q.cur = k.cur /\ "cur" \in DOMAIN q BY <2>4
  <2> HIDE DEF q
  <2>6. ResumeUnlink(q, u).cur = k.cur /\ "cur" \in DOMAIN ResumeUnlink(q, u)
    BY <2>5 DEF ResumeUnlink, rt_list_remove, rt_timer_stop
  <2>7. k'.cur = NoThread BY <2>2, <2>6 DEF rt_schedule_insert_thread
  <2> QED BY <2>7 DEF RunsHighest
<1>6. CASE UNCHANGED vars BY <1>6 DEF vars, RunsHighest, Highest
<1> QED BY <1>1, <1>2, <1>3, <1>4, <1>5, <1>6 DEF Next

\* Outside the windows of the calls that reschedule themselves, and with the
\* scheduler unlocked, the processor belongs to the first thread of the
\* highest queue (rt_schedule): a wake-up by the tick, by an interrupt handler
\* or by the idle thread's rt_exit_critical preempts at once.
THEOREM TheHighestRuns ==
  ASSUME DeleteTimed = FALSE
  PROVE  Spec => []RunsHighest
<1>1. Init => RunsHighest
  <2> SUFFICES ASSUME Init PROVE k.cur = NoThread BY DEF RunsHighest
  <2> DEFINE p == PowerOn(InitPrio)
             s == CreatedThread(p, Idle)
             q == [s EXCEPT !.stat[Idle] = "SUSPEND", !.prio[Idle] = s.init[Idle]]
  <2>1. k = rt_schedule_insert_thread(ResumeUnlink(q, Idle), Idle) BY DEF Init, StartedThread
  <2>2. p.cur = NoThread /\ "cur" \in DOMAIN p BY DEF PowerOn
  <2> HIDE DEF p
  <2>3. s.cur = NoThread /\ "cur" \in DOMAIN s BY <2>2 DEF CreatedThread
  <2> HIDE DEF s
  <2>4. q.cur = NoThread /\ "cur" \in DOMAIN q BY <2>3
  <2> HIDE DEF q
  <2>5. ResumeUnlink(q, Idle).cur = NoThread /\ "cur" \in DOMAIN ResumeUnlink(q, Idle)
    BY <2>4 DEF ResumeUnlink, rt_list_remove, rt_timer_stop
  <2> QED BY <2>1, <2>5 DEF rt_schedule_insert_thread
<1>2. IInv /\ IInv' /\ RunsHighest /\ [Next]_vars => RunsHighest' BY FirstSteps
<1> QED BY <1>1, <1>2, Invariance, PTL DEF Spec
=============================================================================
