----------------------------- MODULE MutexProofs -----------------------------
(***************************************************************************)
(* The mutex of any number of threads, with any programs and timeouts:     *)
(* whoever owns it is inside, once for each take, and whoever waits has an *)
(* owner to wait for; and, while nobody nests two mutexes, the priorities  *)
(* that takes and releases lift and put back.                              *)
(***************************************************************************)
EXTENDS Mutex, KernelProofs

Taking == {"take_sched", "take_back"}
Deleting == {"delete_loop", "delete_resume"}
Asleep == {"sleep_sched", "sleep_back"}

\* A thread is on a ready queue, waits for a mutex, or sleeps with a timer.
Place(t) ==
  /\ k.stat[t] \in {"READY", "SUSPEND"}
  /\ k.stat[t] = "READY" => ~Off(k, t)
  /\ k.stat[t] = "SUSPEND" => \/ \E m \in Mutex : t \in On(k, m)
                              \/ t \in Timed(k) /\ pc[t] \in Asleep
  /\ want[t] = NoMutex <=> pc[t] \notin Taking \cup Deleting

\* Who is on the list of m is inside a take of m that nobody has decided yet.
Waiter(t, m) ==
  t \in On(k, m) =>
    /\ InTake(t, m) /\ k.err[t] = "EOK"
    /\ mtx[m].owner \in Thread \ {t}
    /\ m \in alive \/ \E u \in Thread \ {t} : want[u] = m /\ pc[u] \in Deleting

Holder(t, m) ==
  /\ IF mtx[m].owner = t
     THEN mtx[m].hold = depth[t][m] + (IF Granted(t, m) THEN 1 ELSE 0) /\ mtx[m].hold > 0
     ELSE depth[t][m] = 0
  /\ InTake(t, m) => depth[t][m] = 0
  /\ InTake(t, m) /\ t \notin On(k, m) => (k.err[t] = "EOK" <=> mtx[m].owner = t)

Whole(m) ==
  \/ mtx[m].owner = NoThread /\ mtx[m].value = 1
  \/ /\ mtx[m].owner \in Thread \ {Idle} /\ mtx[m].value = 0
     /\ mtx[m].original_priority \in Prio

\* A thread that goes on is ready, but for one on its way into rt_schedule.
Runner ==
  k.cur \in Thread /\ (pc[k.cur] \notin {"take_sched", "sleep_sched"} => k.stat[k.cur] = "READY")

MutexInv ==
  /\ TypeOK
  /\ KernelOK(k) /\ k.nest = 0
  /\ \A t \in Thread : Place(t)
  /\ \A t \in Thread, m \in Mutex : Waiter(t, m) /\ Holder(t, m)
  /\ \A m \in Mutex : Whole(m)
  /\ Runner
  /\ isr = "timer" => k.timers # <<>>

-----------------------------------------------------------------------------
(* What the invariant gives each step.                                     *)

LEMMA Types ==
  ASSUME MutexInv
  PROVE  /\ k \in KernelState /\ KernelOK(k) /\ k.nest = 0
         /\ k.err \in [Thread -> Error] /\ k.stat \in [Thread -> Stat] /\ k.prio \in [Thread -> Prio]
         /\ pc \in [Thread -> Label] /\ isr \in {"none", "timer"}
         /\ want \in [Thread -> Mutex \cup {NoMutex}] /\ alive \in SUBSET Mutex
         /\ depth \in [Thread -> [Mutex -> 0..MaxDepth]] /\ restPrio \in [Thread -> Prio]
         /\ mtx \in [Mutex -> [value : {0, 1}, owner : Thread \cup {NoThread},
                               original_priority : Prio \cup {NoPrio}, hold : 0..(HoldSize - 1)]]
  BY KernelFields DEF MutexInv, TypeOK

\* Who is ready waits for nothing.
LEMMA ReadyIsOff ==
  ASSUME NEW s, KernelOK(s), NEW t \in Thread, s.stat[t] = "READY"
  PROVE  (\A m \in Mutex : t \notin On(s, m)) /\ t \notin Timed(s)
  BY MutexAssumption DEF KernelOK, Placed

\* A thread is on the list of one mutex.
LEMMA OneList ==
  ASSUME NEW s, KernelOK(s), NEW t, NEW m \in Mutex, NEW n \in Mutex, t \in On(s, m), t \in On(s, n)
  PROVE  m = n
  BY MutexAssumption DEF KernelOK, Apart, ListHead

\* The caller of an operation is ready, is not the idle thread and is in no
\* other call.
LEMMA Caller ==
  ASSUME MutexInv, NEW t \in Thread, isr = "none", k.cur = t, pc[t] = "run"
  PROVE  /\ k.stat[t] = "READY" /\ want[t] = NoMutex /\ ~Off(k, t)
         /\ \A m \in Mutex : t \notin On(k, m) /\ ~InTake(t, m)
<1>1. k.stat[t] = "READY" BY DEF MutexInv, Runner
<1>2. want[t] = NoMutex /\ ~Off(k, t) BY <1>1 DEF MutexInv, Place, Taking, Deleting
<1>3. \A m \in Mutex : t \notin On(k, m) BY <1>1, Types, ReadyIsOff
<1> QED BY <1>1, <1>2, <1>3 DEF InTake

\* The head of a list, if there is one, waits.
LEMMA HeadWaits ==
  ASSUME NEW s, KernelOK(s), NEW m \in Mutex, s.list[m] # <<>>
  PROVE  Head(s.list[m]) \in Thread /\ Head(s.list[m]) \in On(s, m)
         /\ s.stat[Head(s.list[m])] = "SUSPEND"
<1>1. s.list[m] \in Seq(Thread) BY KernelFields, MutexAssumption DEF KernelOK, ListHead
<1>2. Head(s.list[m]) \in On(s, m) /\ Head(s.list[m]) \in Thread BY <1>1, EmptyList DEF On
<1> QED BY <1>2, MutexAssumption DEF KernelOK, Placed

LEMMA EmptyWaits ==
  ASSUME NEW s, KernelOK(s), NEW m \in Mutex
  PROVE  s.list[m] = <<>> <=> On(s, m) = {}
<1>1. s.list[m] \in Seq(Thread) BY KernelFields, MutexAssumption DEF KernelOK, ListHead
<1> QED BY <1>1, EmptyList DEF On

-----------------------------------------------------------------------------
(* Steps that leave the mutexes alone.                                     *)

\* At most t moves, and nobody starts or ends a call on a mutex.
LEMMA OneMoves ==
  ASSUME MutexInv, NEW t \in Thread, Same(k, k', {t}), KernelOK(k'), k'.nest = 0,
         UNCHANGED <<mtx, alive, restPrio, want, depth>>, pc' \in [Thread -> Label],
         \A u \in Thread : /\ pc'[u] \in Taking <=> pc[u] \in Taking
                           /\ pc'[u] \in Deleting <=> pc[u] \in Deleting,
         \A u \in Thread \ {t} : k.stat[u] = "SUSPEND" /\ pc[u] \in Asleep => pc'[u] \in Asleep,
         Place(t)',
         \A m \in Mutex : t \in On(k', m) => t \in On(k, m) /\ k'.err[t] = k.err[t],
         \A m \in Mutex : t \notin On(k', m) /\ InTake(t, m) => (k'.err[t] = "EOK" <=> mtx[m].owner = t),
         Runner', isr' \in {"none", "timer"}, isr' = "timer" => k'.timers # <<>>
  PROVE  MutexInv'
<1>1. TypeOK' BY Types DEF TypeOK, KernelOK
<1>2. \A u \in Thread : Place(u)'
  <2> SUFFICES ASSUME NEW u \in Thread, u # t PROVE Place(u)' OBVIOUS
  <2>1. /\ k'.stat[u] = k.stat[u] /\ (Off(k', u) <=> Off(k, u))
        /\ (u \in Timed(k') <=> u \in Timed(k))
        /\ \A m \in Mutex : u \in On(k', m) <=> u \in On(k, m)
    BY MutexAssumption DEF Same
  <2>2. Place(u) BY DEF MutexInv
  <2> QED BY <2>1, <2>2 DEF Place
<1>3. ASSUME NEW u \in Thread, NEW m \in Mutex PROVE Waiter(u, m)' /\ Holder(u, m)'
  <2>1. u # t => (u \in On(k', m) <=> u \in On(k, m)) /\ k'.err[u] = k.err[u]
    BY MutexAssumption DEF Same
  <2>2. InTake(u, m)' <=> InTake(u, m) BY DEF InTake, Taking
  <2>3. Waiter(u, m) /\ Holder(u, m) BY DEF MutexInv
  <2>4. Waiter(u, m)' BY <2>1, <2>2, <2>3 DEF Waiter
  <2>5. mtx[m].owner = u => (Granted(u, m)' <=> Granted(u, m))
    <3>1. Waiters(m) = On(k, m) /\ Waiters(m)' = On(k', m) BY DEF Waiters, On
    <3> QED BY <2>1, <2>2, <2>3, <3>1 DEF Granted, Waiter, Holder
  <2>6. Holder(u, m)' BY <2>1, <2>2, <2>3, <2>5 DEF Holder
  <2> QED BY <2>4, <2>6
<1>4. \A m \in Mutex : Whole(m)' BY DEF MutexInv, Whole
<1> QED BY <1>1, <1>2, <1>3, <1>4 DEF MutexInv

\* Nobody moves.
LEMMA NobodyMoves ==
  ASSUME MutexInv, Same(k, k', {}), KernelOK(k'), k'.nest = 0,
         UNCHANGED <<mtx, alive, restPrio, want, depth>>, pc' \in [Thread -> Label],
         \A u \in Thread : /\ pc'[u] \in Taking <=> pc[u] \in Taking
                           /\ pc'[u] \in Deleting <=> pc[u] \in Deleting
                           /\ k.stat[u] = "SUSPEND" /\ pc[u] \in Asleep => pc'[u] \in Asleep,
         Runner', isr' \in {"none", "timer"}, isr' = "timer" => k'.timers # <<>>
  PROVE  MutexInv'
<1> DEFINE t == Idle
<1>1. t \in Thread BY ThreadAssumption
<1>2. /\ k'.stat[t] = k.stat[t] /\ k'.err[t] = k.err[t] /\ (Off(k', t) <=> Off(k, t))
      /\ (t \in Timed(k') <=> t \in Timed(k))
      /\ \A m \in Mutex : t \in On(k', m) <=> t \in On(k, m)
  BY <1>1, MutexAssumption DEF Same
<1>3. Place(t) /\ \A m \in Mutex : Holder(t, m) BY <1>1 DEF MutexInv
<1>4. Place(t)' BY <1>1, <1>2, <1>3 DEF Place
<1>5. \A m \in Mutex : t \notin On(k', m) /\ InTake(t, m) => (k'.err[t] = "EOK" <=> mtx[m].owner = t)
  BY <1>2, <1>3 DEF Holder
<1>6. Same(k, k', {t}) BY DEF Same
<1> HIDE DEF t
<1> QED BY <1>1, <1>2, <1>4, <1>5, <1>6, OneMoves

\* The same kernel, with one thread further in its call.
LEMMA PlaceOnly ==
  ASSUME MutexInv, NEW t \in Thread, k.cur = t, NEW l \in Label, Goto(t, l),
         UNCHANGED <<k, isr, mtx, alive, restPrio, want, depth>>,
         l \in Taking <=> pc[t] \in Taking, l \in Deleting <=> pc[t] \in Deleting,
         k.stat[t] = "READY"
  PROVE  MutexInv'
<1>1. pc' \in [Thread -> Label] /\ \A u \in Thread : pc'[u] = IF u = t THEN l ELSE pc[u]
  BY Types DEF Goto
<1>2. Same(k, k', {}) /\ Runner' BY DEF Same, Runner
<1>3. KernelOK(k') /\ k'.nest = 0 /\ isr' \in {"none", "timer"} /\ (isr' = "timer" => k'.timers # <<>>)
  BY Types DEF MutexInv
<1> QED BY <1>1, <1>2, <1>3, NobodyMoves

LEMMA ScheduleTo ==
  ASSUME MutexInv, NEW t \in Thread, NEW from \in Label, NEW to \in Label,
         from \in Taking <=> to \in Taking, from \in Deleting <=> to \in Deleting,
         from \in Asleep => to \in Asleep,
         ScheduleStep(t, from, to), UNCHANGED <<mtx, alive, restPrio, want, depth>>
  PROVE  MutexInv'
<1> USE DEF ScheduleStep, Running
<1>1. pc' \in [Thread -> Label] /\ \A u \in Thread : pc'[u] = IF u = t THEN to ELSE pc[u]
  BY Types DEF Goto
<1>2. KernelOK(k') /\ Chosen(k, k') /\ Same(k, k', {}) BY Types, Dispatch, ScheduleSame
<1>3. k'.nest = 0 /\ Runner' BY <1>2, Types DEF Chosen, Runner
<1> QED BY <1>1, <1>2, <1>3, NobodyMoves DEF MutexInv

LEMMA TickStep ==
  ASSUME MutexInv, Tick
  PROVE  MutexInv'
<1> USE DEF Tick, rt_tick_increase
<1>1. k.cur \in Thread /\ (k.stat[k.cur] = "READY" => ~Off(k, k.cur))
  BY DEF MutexInv, Runner, Place
<1>2. KernelOK(k') /\ (Kept(k, k') \/ Chosen(k, k')) /\ Same(k, k', {})
  BY <1>1, Types, TickThreads, TickSame
<1>3. k'.nest = 0 BY <1>2, Types DEF Kept, Chosen
<1>4. Runner'
  <2>1. k'.cur = k.cur \/ (k'.cur \in Thread /\ k'.stat[k'.cur] = "READY")
    BY <1>2, Types DEF Kept, Chosen
  <2>2. k'.stat[k.cur] = k.stat[k.cur] BY <1>1, <1>2 DEF Same
  <2> QED BY <2>1, <2>2 DEF MutexInv, Runner
<1>5. isr' \in {"none", "timer"} /\ (isr' = "timer" => k'.timers # <<>>)
  BY DEF IsrAfter, TimerExpired
<1> QED BY <1>2, <1>3, <1>4, <1>5, Types, NobodyMoves

\* A suspended thread inside a take of m is on the list of m, and m is not its.
LEMMA Undecided ==
  ASSUME MutexInv, NEW t \in Thread, k.stat[t] = "SUSPEND", NEW m \in Mutex, InTake(t, m)
  PROVE  t \in On(k, m) /\ mtx[m].owner \in Thread \ {t}
<1>1. PICK n \in Mutex : t \in On(k, n)
  BY DEF MutexInv, Place, InTake, Asleep
<1>2. Waiter(t, n) BY DEF MutexInv
<1> QED BY <1>1, <1>2 DEF Waiter, InTake

\* t, which was suspended, is ready, and if it was inside a take it has failed.
LEMMA OneFails ==
  ASSUME MutexInv, NEW t \in Thread, k.stat[t] = "SUSPEND", Same(k, k', {t}),
         KernelOK(k'), k'.nest = 0, k'.stat[t] = "READY", ~Off(k', t), k'.err[t] # "EOK",
         UNCHANGED <<mtx, alive, restPrio, want, depth>>, pc' \in [Thread -> Label],
         \A u \in Thread : /\ pc'[u] \in Taking <=> pc[u] \in Taking
                           /\ pc'[u] \in Deleting <=> pc[u] \in Deleting
                           /\ k.stat[u] = "SUSPEND" /\ pc[u] \in Asleep => pc'[u] \in Asleep,
         Runner', isr' \in {"none", "timer"}, isr' = "timer" => k'.timers # <<>>
  PROVE  MutexInv'
<1>1. \A m \in Mutex : t \notin On(k', m) BY ReadyIsOff
<1>2. Place(t)' BY DEF MutexInv, Place
<1>3. \A m \in Mutex : InTake(t, m) => mtx[m].owner # t BY Undecided
<1> QED BY <1>1, <1>2, <1>3, OneMoves

LEMMA TimerStep ==
  ASSUME MutexInv, TimerCheck
  PROVE  MutexInv'
<1> DEFINE t == Head(k.timers)
<1> USE DEF TimerCheck, rt_timer_check
<1>1. k.timers # <<>> BY DEF MutexInv
<1>2. /\ t \in Timed(k) /\ t \in Thread /\ KernelOK(k') /\ Chosen(k, k')
      /\ k'.stat[t] = "READY" /\ ~Off(k', t) /\ Same(k, k', {t})
  BY <1>1, Types, FireTimer, FireSame
<1>3. k'.err = [k.err EXCEPT ![t] = "ETIMEOUT"] BY <1>1, Types, FireCodes
<1> HIDE DEF t
<1>4. k.stat[t] = "SUSPEND" BY <1>2, Types DEF KernelOK, Placed
<1>5. k'.err[t] # "EOK" BY <1>2, <1>3, Types
<1>6. k'.nest = 0 /\ Runner' BY <1>2, Types DEF Chosen, Runner
<1>7. isr' \in {"none", "timer"} /\ (isr' = "timer" => k'.timers # <<>>)
  BY DEF IsrAfter, TimerExpired
<1> QED BY <1>2, <1>4, <1>5, <1>6, <1>7, Types, OneFails

LEMMA DeleteResumeStep ==
  ASSUME MutexInv, NEW d \in Thread, DeleteResume(d)
  PROVE  MutexInv'
<1> DEFINE m == want[d]
           t == Head(k.list[m])
           a == [k EXCEPT !.err[t] = "ERROR"]
<1> USE DEF DeleteResume, Running
<1>1. m \in Mutex
  <2>1. Place(d) BY DEF MutexInv
  <2> QED BY <2>1, Types DEF Place, Deleting
<1> HIDE DEF m
<1>2. t \in Thread /\ k.stat[t] = "SUSPEND" BY <1>1, Types, HeadWaits DEF m
<1>3. k' = rt_thread_resume(a, Head(a.list[m])) BY DEF rt_ipc_list_resume, m
<1> HIDE DEF t
<1>4. /\ KernelOK(a) /\ Kept(k, a) /\ Same(k, a, {t}) /\ a.list = k.list /\ a.stat = k.stat
      /\ a.err = [k.err EXCEPT ![t] = "ERROR"]
  <2>1. KernelOK(k) /\ "ERROR" \in Error BY Types DEF Error
  <2>2. KernelOK(a) /\ Kept(k, a) /\ a.err = [k.err EXCEPT ![t] = "ERROR"] /\ a.stat = k.stat
    BY <1>2, <2>1, SetError
  <2>3. Same(k, a, {t}) /\ a.list = k.list BY <1>2, <2>1, ErrorSame
  <2> QED BY <2>2, <2>3
<1> HIDE DEF a
<1>5. k' = rt_thread_resume(a, t) BY <1>3, <1>4 DEF t
<1>6. /\ KernelOK(k') /\ Kept(a, k') /\ k'.stat[t] = "READY" /\ ~Off(k', t) /\ Same(a, k', {t})
      /\ k'.err = a.err
  BY <1>2, <1>4, <1>5, ResumeThread, ResumeSame, ResumeCodes DEF Codes
<1>7. Same(k, k', {t}) BY <1>4, <1>6, SameTrans
<1>8. k'.err[t] # "EOK" BY <1>2, <1>4, <1>6, Types
<1>9. k'.nest = 0 /\ k'.cur = d BY <1>4, <1>6, Types DEF Kept
<1>10. pc' \in [Thread -> Label] /\ \A u \in Thread : pc'[u] = IF u = d THEN "delete_loop" ELSE pc[u]
  BY Types DEF Goto, Label
<1>11. k.stat[d] = "READY" BY DEF MutexInv, Runner
<1>12. k'.stat[d] = "READY" BY <1>2, <1>6, <1>7, <1>11 DEF Same
<1>13. Runner' BY <1>9, <1>12 DEF Runner
<1>14. \A u \in Thread : /\ pc'[u] \in Taking <=> pc[u] \in Taking
                         /\ pc'[u] \in Deleting <=> pc[u] \in Deleting
                         /\ k.stat[u] = "SUSPEND" /\ pc[u] \in Asleep => pc'[u] \in Asleep
  BY <1>10 DEF Taking, Deleting, Asleep
<1> QED BY <1>2, <1>6, <1>7, <1>8, <1>9, <1>10, <1>13, <1>14, OneFails DEF MutexInv

\* A call writes a code into its thread, which is in no take.
LEMMA CodeStep ==
  ASSUME MutexInv, NEW t \in Thread, k.cur = t, k.stat[t] = "READY", isr = "none",
         pc[t] \in {"run", "sleep_back"}, NEW e \in Error, k' = [k EXCEPT !.err[t] = e],
         pc' \in [Thread -> Label], pc'[t] = "run", \A u \in Thread \ {t} : pc'[u] = pc[u],
         UNCHANGED <<isr, mtx, alive, restPrio, want, depth>>
  PROVE  MutexInv'
<1>1. KernelOK(k') /\ Same(k, k', {t}) /\ Kept(k, k') /\ k'.stat = k.stat /\ k'.list = k.list
  <2>1. KernelOK(k) BY Types
  <2>2. KernelOK(k') /\ Kept(k, k') /\ k'.stat = k.stat BY <2>1, SetError
  <2>3. Same(k, k', {t}) /\ k'.list = k.list BY <2>1, ErrorSame
  <2> QED BY <2>2, <2>3
<1>2. \A m \in Mutex : t \notin On(k', m) BY <1>1, ReadyIsOff
<1>3. Place(t)'
  <2>1. ~Off(k', t) BY <1>1 DEF MutexInv, Place, Off, On
  <2> QED BY <1>1, <2>1 DEF MutexInv, Place, Taking, Deleting
<1>4. \A m \in Mutex : ~InTake(t, m) BY DEF InTake
<1>5. Runner' /\ k'.nest = 0 BY <1>1, Types DEF Runner, Kept
<1> QED BY <1>1, <1>2, <1>3, <1>4, <1>5, Types, OneMoves DEF Taking, Deleting

LEMMA SleepStep ==
  ASSUME MutexInv, NEW t \in Thread, NEW n \in 1..MaxDelay, Sleep(t, n)
  PROVE  MutexInv'
<1> USE DEF Sleep, Calls, Running
<1>1. t # Idle BY MutexAssumption
<1>2. n \in Nat BY BoundAssumption
<1>3. k.stat[t] = "READY" BY Caller
<1>4. /\ KernelOK(k') /\ Kept(k, k') /\ k'.stat[t] = "SUSPEND" /\ Off(k', t)
      /\ Same(k, k', {t}) /\ t \in Timed(k')
  <2>1. KernelOK(k) /\ t \in Thread \ {Idle} BY <1>1, Types
  <2> HIDE DEF Calls, Running
  <2>2. KernelOK(k') /\ Kept(k, k') /\ k'.stat[t] = "SUSPEND" /\ Off(k', t)
    BY <1>2, <1>3, <2>1, SleepThread
  <2>3. Same(k, k', {t}) /\ t \in Timed(k') BY <1>2, <1>3, <2>1, SleepSame
  <2> QED BY <2>2, <2>3
<1>5. pc' \in [Thread -> Label] /\ \A u \in Thread : pc'[u] = IF u = t THEN "sleep_sched" ELSE pc[u]
  BY Types DEF Goto, Label
<1>6. \A m \in Mutex : t \notin On(k', m) /\ ~InTake(t, m)
  BY <1>4, MutexAssumption DEF Off, ListHead, InTake
<1>7. Place(t)'
  <2>1. want[t] = NoMutex BY Caller
  <2> QED BY <1>4, <1>5, <2>1 DEF Place, Asleep, Taking, Deleting
<1>8. Runner' /\ k'.nest = 0 BY <1>4, <1>5, Types DEF Runner, Kept
<1> QED BY <1>4, <1>5, <1>6, <1>7, <1>8, Types, OneMoves DEF Taking, Deleting, Asleep

-----------------------------------------------------------------------------
(* Takes and releases.                                                     *)

\* The caller takes a free mutex or one it has, or gives it back, and nobody is
\* woken.
LEMMA OwnMutex ==
  ASSUME MutexInv, NEW t \in Thread, isr = "none", k.cur = t, pc[t] = "run", NEW m \in Mutex,
         KernelOK(k'), Same(k, k', {t}), k'.stat[t] = "READY", ~Off(k', t), Kept(k, k'),
         UNCHANGED <<isr, pc, alive, restPrio, want>>,
         TypeOK', Whole(m)', \A n \in Mutex \ {m} : mtx'[n] = mtx[n],
         \A u \in Thread, n \in Mutex : u # t \/ n # m => depth'[u][n] = depth[u][n],
         mtx[m].owner \in {t, NoThread}, mtx'[m].owner \in {t, NoThread},
         mtx'[m].owner = NoThread => On(k, m) = {},
         IF mtx'[m].owner = t THEN mtx'[m].hold = depth'[t][m] /\ mtx'[m].hold > 0
         ELSE depth'[t][m] = 0
  PROVE  MutexInv'
<1>1. /\ \A n \in Mutex : t \notin On(k, n) /\ ~InTake(t, n) /\ t \notin On(k', n)
      /\ NoThread \notin Thread
  BY Caller, ReadyIsOff, ThreadAssumption
<1>2. \A u \in Thread \ {t} : /\ k'.stat[u] = k.stat[u] /\ (Off(k', u) <=> Off(k, u))
                              /\ (u \in Timed(k') <=> u \in Timed(k)) /\ k'.err[u] = k.err[u]
                              /\ \A n \in Mutex : u \in On(k', n) <=> u \in On(k, n)
  BY MutexAssumption DEF Same
<1>3. \A u \in Thread, n \in Mutex : InTake(u, n)' <=> InTake(u, n) BY DEF InTake
<1>4. ASSUME NEW u \in Thread PROVE Place(u)'
  <2>1. CASE u = t
    <3>1. Place(t) BY DEF MutexInv
    <3> QED BY <2>1, <3>1 DEF Place
  <2>2. CASE u # t
    <3>1. Place(u) BY DEF MutexInv
    <3> QED BY <2>2, <3>1, <1>2 DEF Place
  <2> QED BY <2>1, <2>2
<1>5. ASSUME NEW u \in Thread, NEW n \in Mutex PROVE Waiter(u, n)'
  <2>1. Waiter(u, n) BY DEF MutexInv
  <2>2. CASE u = t BY <1>1, <2>2 DEF Waiter
  <2>3. CASE u # t /\ n # m BY <1>2, <1>3, <2>1, <2>3 DEF Waiter
  <2>4. CASE u # t /\ n = m BY <1>1, <1>2, <1>3, <2>1, <2>4 DEF Waiter
  <2> QED BY <2>2, <2>3, <2>4
<1>6. ASSUME NEW u \in Thread, NEW n \in Mutex PROVE Holder(u, n)'
  <2>1. Holder(u, n) BY DEF MutexInv
  <2>2. Waiters(n) = On(k, n) /\ Waiters(n)' = On(k', n) BY DEF Waiters, On
  <2>3. CASE u = t
    <3>1. ~Granted(t, n) /\ ~Granted(t, n)' /\ ~InTake(t, n)' BY <1>1, <1>3 DEF Granted
    <3>2. mtx'[n].hold \in Nat /\ mtx[n].hold \in Nat /\ depth'[t][n] \in Nat /\ depth[t][n] \in Nat
      BY Types, MutexAssumption DEF TypeOK
    <3>3. CASE n = m BY <2>3, <3>1, <3>2, <3>3 DEF Holder
    <3>4. CASE n # m BY <2>1, <2>3, <3>1, <3>2, <3>4 DEF Holder
    <3> QED BY <3>3, <3>4
  <2>4. CASE u # t
    <3>1. Granted(u, n)' <=> Granted(u, n) BY <1>2, <1>3, <2>2, <2>4 DEF Granted
    <3>2. CASE n = m BY <1>1, <1>2, <1>3, <2>1, <2>4, <3>2 DEF Holder
    <3>3. CASE n # m BY <1>2, <1>3, <2>1, <2>4, <3>1, <3>3 DEF Holder
    <3> QED BY <3>2, <3>3
  <2> QED BY <2>3, <2>4
<1>7. \A n \in Mutex : Whole(n)' BY DEF MutexInv, Whole
<1>8. Runner' /\ k'.nest = 0 /\ (isr' = "timer" => k'.timers # <<>>)
  BY Types DEF Runner, Kept
<1> QED BY <1>4, <1>5, <1>6, <1>7, <1>8 DEF MutexInv

\* The caller's error code is cleared.
LEMMA ClearedOK ==
  ASSUME MutexInv, NEW t \in Thread, isr = "none", k.cur = t, pc[t] = "run"
  PROVE  LET r == ClearError(t)
         IN  /\ KernelOK(r) /\ Same(k, r, {t}) /\ Kept(k, r) /\ r.stat = k.stat
             /\ r.stat[t] = "READY" /\ ~Off(r, t) /\ Unmoved(k, r)
             /\ r.err = [k.err EXCEPT ![t] = "EOK"]
<1> DEFINE r == ClearError(t)
<1>1. r = [k EXCEPT !.err[t] = "EOK"] /\ "EOK" \in Error BY DEF ClearError, Error
<1> HIDE DEF r
<1>2. KernelOK(k) /\ k.stat[t] = "READY" /\ ~Off(k, t) BY Types, Caller
<1>3. KernelOK(r) /\ Kept(k, r) /\ r.stat = k.stat /\ r.err = [k.err EXCEPT ![t] = "EOK"]
  BY <1>1, <1>2, SetError
<1>4. Same(k, r, {t}) /\ r.list = k.list BY <1>1, <1>2, ErrorSame
<1> QED BY <1>2, <1>3, <1>4 DEF r, Off, On, Unmoved

LEMMA TakeAgainStep ==
  ASSUME MutexInv, NEW t \in Thread, NEW m \in Mutex, TakeAgain(t, m)
  PROVE  MutexInv'
<1> USE DEF TakeAgain, CallsTake, Calls, Running, Returned
<1> DEFINE h == mtx[m].hold
           e == depth[t][m]
<1>1. KernelOK(k') /\ Same(k, k', {t}) /\ k'.stat[t] = "READY" /\ ~Off(k', t) /\ Kept(k, k')
  BY ClearedOK
<1>2. h = e /\ h \in Nat /\ h < MaxDepth /\ MaxDepth \in 1..(HoldSize - 1) /\ HoldSize \in Nat
  <2>1. Holder(t, m) /\ ~Granted(t, m) BY Caller DEF MutexInv, Granted
  <2> QED BY <2>1, Types, MutexAssumption DEF Holder
<1>3. (h + 1) % HoldSize = h + 1 /\ h + 1 \in 0..(HoldSize - 1) /\ e + 1 \in 0..MaxDepth /\ h + 1 > 0
  <2> HIDE DEF h, e
  <2> QED BY <1>2
<1>4. mtx' = [mtx EXCEPT ![m] = [mtx[m] EXCEPT !.hold = h + 1]] BY <1>3
<1>5. depth' = [depth EXCEPT ![t] = [depth[t] EXCEPT ![m] = e + 1]] OBVIOUS
<1> HIDE DEF TakeAgain, CallsTake, Calls, Running, Returned
<1>6. k.cur = t /\ isr = "none" /\ pc[t] = "run" /\ mtx[m].owner = t
      /\ UNCHANGED <<isr, pc, alive, restPrio, want>>
  BY DEF TakeAgain, CallsTake, Calls, Running
<1> HIDE DEF h, e
<1>7. /\ mtx'[m].hold = h + 1 /\ mtx'[m].owner = t /\ mtx'[m].value = mtx[m].value
      /\ mtx'[m].original_priority = mtx[m].original_priority
      /\ \A n \in Mutex \ {m} : mtx'[n] = mtx[n]
      /\ mtx' \in [Mutex -> [value : {0, 1}, owner : Thread \cup {NoThread},
                            original_priority : Prio \cup {NoPrio}, hold : 0..(HoldSize - 1)]]
  BY <1>3, <1>4, <1>6, Types, Zenon
<1>8. /\ depth'[t][m] = e + 1
      /\ \A u \in Thread, n \in Mutex : u # t \/ n # m => depth'[u][n] = depth[u][n]
      /\ depth' \in [Thread -> [Mutex -> 0..MaxDepth]]
  BY <1>3, <1>5, Types
<1>9. TypeOK' BY <1>1, <1>6, <1>7, <1>8, Types DEF TypeOK, KernelOK
<1>10. Whole(m)' BY <1>6, <1>7, ThreadAssumption DEF MutexInv, Whole
<1>11. /\ mtx[m].owner \in {t, NoThread} /\ mtx'[m].owner \in {t, NoThread}
       /\ mtx'[m].owner = NoThread => On(k, m) = {}
       /\ IF mtx'[m].owner = t THEN mtx'[m].hold = depth'[t][m] /\ mtx'[m].hold > 0
          ELSE depth'[t][m] = 0
  BY <1>2, <1>3, <1>6, <1>7, <1>8, ThreadAssumption
<1> QED BY <1>1, <1>6, <1>7, <1>8, <1>9, <1>10, <1>11, OwnMutex

LEMMA TakeFreeStep ==
  ASSUME MutexInv, NEW t \in Thread, NEW m \in Mutex, TakeFree(t, m)
  PROVE  MutexInv'
<1>1. /\ k.cur = t /\ isr = "none" /\ pc[t] = "run" /\ t # Idle
      /\ UNCHANGED <<isr, pc, alive, restPrio, want>> /\ depth[t][m] < MaxDepth
      /\ mtx[m].owner # t /\ mtx[m].value > 0 /\ k' = ClearError(t)
      /\ mtx' = [mtx EXCEPT ![m] = Owned(k, t)]
      /\ depth' = [depth EXCEPT ![t] = [depth[t] EXCEPT ![m] = depth[t][m] + 1]]
  BY MutexAssumption DEF TakeFree, CallsTake, Calls, Running, Returned
<1>2. KernelOK(k') /\ Same(k, k', {t}) /\ k'.stat[t] = "READY" /\ ~Off(k', t) /\ Kept(k, k')
  BY <1>1, ClearedOK
<1>3. mtx[m].owner = NoThread BY <1>1 DEF MutexInv, Whole
<1>4. depth[t][m] = 0
  <2>1. Holder(t, m) BY DEF MutexInv
  <2> QED BY <1>1, <2>1 DEF Holder
<1>5. Owned(k, t) \in [value : {0, 1}, owner : Thread \cup {NoThread},
                       original_priority : Prio \cup {NoPrio}, hold : 0..(HoldSize - 1)]
  BY Types, MutexAssumption DEF Owned
<1>6. /\ mtx'[m] = Owned(k, t) /\ \A n \in Mutex \ {m} : mtx'[n] = mtx[n]
      /\ mtx' \in [Mutex -> [value : {0, 1}, owner : Thread \cup {NoThread},
                            original_priority : Prio \cup {NoPrio}, hold : 0..(HoldSize - 1)]]
  BY <1>1, <1>5, Types
<1>7. /\ depth'[t][m] = 1
      /\ \A u \in Thread, n \in Mutex : u # t \/ n # m => depth'[u][n] = depth[u][n]
      /\ depth' \in [Thread -> [Mutex -> 0..MaxDepth]]
  BY <1>1, <1>4, Types, MutexAssumption
<1>8. TypeOK' BY <1>1, <1>2, <1>6, <1>7, Types DEF TypeOK, KernelOK
<1>9. /\ mtx'[m].value = 0 /\ mtx'[m].owner = t /\ mtx'[m].hold = 1
      /\ mtx'[m].original_priority \in Prio
  BY <1>6, Types DEF Owned
<1>10. Whole(m)' BY <1>1, <1>9 DEF Whole
<1>11. /\ mtx[m].owner \in {t, NoThread} /\ mtx'[m].owner \in {t, NoThread}
       /\ mtx'[m].owner = NoThread => On(k, m) = {}
       /\ IF mtx'[m].owner = t THEN mtx'[m].hold = depth'[t][m] /\ mtx'[m].hold > 0
          ELSE depth'[t][m] = 0
  BY <1>3, <1>7, <1>9, ThreadAssumption
<1> QED BY <1>1, <1>2, <1>6, <1>7, <1>8, <1>10, <1>11, OwnMutex

LEMMA ReleaseHeldStep ==
  ASSUME MutexInv, NEW t \in Thread, NEW m \in Mutex, ReleaseHeld(t, m)
  PROVE  MutexInv'
<1> DEFINE h == mtx[m].hold
           e == depth[t][m]
<1>1. /\ k.cur = t /\ isr = "none" /\ pc[t] = "run" /\ mtx[m].owner = t /\ h > 1
      /\ UNCHANGED <<k, isr, pc, alive, restPrio, want>>
      /\ mtx' = [mtx EXCEPT ![m] = [mtx[m] EXCEPT !.hold = h - 1]]
      /\ depth' = [depth EXCEPT ![t] = [depth[t] EXCEPT ![m] = e + -1]]
  BY DEF ReleaseHeld, Calls, Running, Returned
<1>2. h = e /\ h \in 0..(HoldSize - 1) /\ HoldSize \in Nat /\ e \in 0..MaxDepth /\ MaxDepth \in Nat
  <2>1. Holder(t, m) /\ ~Granted(t, m) BY <1>1, Caller DEF MutexInv, Granted
  <2> QED BY <1>1, <2>1, Types, MutexAssumption DEF Holder
<1> HIDE DEF h, e
<1>3. h - 1 \in 0..(HoldSize - 1) /\ e + -1 = h - 1 /\ e + -1 \in 0..MaxDepth /\ h - 1 > 0
  BY <1>1, <1>2
<1>4. /\ mtx'[m].hold = h - 1 /\ mtx'[m].owner = t /\ mtx'[m].value = mtx[m].value
      /\ mtx'[m].original_priority = mtx[m].original_priority
      /\ \A n \in Mutex \ {m} : mtx'[n] = mtx[n]
      /\ mtx' \in [Mutex -> [value : {0, 1}, owner : Thread \cup {NoThread},
                            original_priority : Prio \cup {NoPrio}, hold : 0..(HoldSize - 1)]]
  BY <1>1, <1>3, Types, Zenon
<1>5. /\ depth'[t][m] = e + -1
      /\ \A u \in Thread, n \in Mutex : u # t \/ n # m => depth'[u][n] = depth[u][n]
      /\ depth' \in [Thread -> [Mutex -> 0..MaxDepth]]
  BY <1>1, <1>3, Types
<1>6. TypeOK' BY <1>1, <1>4, <1>5, Types DEF TypeOK
<1>7. Whole(m)' BY <1>1, <1>4, ThreadAssumption DEF MutexInv, Whole
<1>8. KernelOK(k') /\ Same(k, k', {t}) /\ k'.stat[t] = "READY" /\ ~Off(k', t) /\ Kept(k, k')
  BY <1>1, Types, Caller DEF Same, Kept
<1>9. /\ mtx[m].owner \in {t, NoThread} /\ mtx'[m].owner \in {t, NoThread}
      /\ mtx'[m].owner = NoThread => On(k, m) = {}
      /\ IF mtx'[m].owner = t THEN mtx'[m].hold = depth'[t][m] /\ mtx'[m].hold > 0
         ELSE depth'[t][m] = 0
  BY <1>1, <1>3, <1>4, <1>5, ThreadAssumption
<1> QED BY <1>1, <1>4, <1>5, <1>6, <1>7, <1>8, <1>9, OwnMutex

\* A priority that is lifted or put back moves nobody.
LEMMA Reprioritise ==
  ASSUME NEW s, KernelOK(s), NEW o \in Thread \ {Idle}, NEW p \in Prio,
         s.stat[o] = "READY" => ~Off(s, o),
         NEW r, r = s \/ r = ChangePriority(s, o, p)
  PROVE  KernelOK(r) /\ Kept(s, r) /\ Same(s, r, {}) /\ Unmoved(s, r) /\ r.err = s.err
<1>1. CASE r = s BY <1>1 DEF Kept, Same, Unmoved
<1>2. CASE r = ChangePriority(s, o, p)
  <2>1. KernelOK(r) /\ Kept(s, r) BY <1>2, MovePriority
  <2>2. Same(s, r, {}) /\ Unmoved(s, r) /\ r.err = s.err BY <1>2, PrioritySame
  <2> QED BY <2>1, <2>2
<1> QED BY <1>1, <1>2

\* The owner of a mutex gets its own priority back.
LEMMA Restored ==
  ASSUME MutexInv, NEW m \in Mutex, NEW t \in Thread, mtx[m].owner = t
  PROVE  LET r == Restore(k, m)
         IN  KernelOK(r) /\ Kept(k, r) /\ Same(k, r, {}) /\ Unmoved(k, r) /\ r.err = k.err
<1> DEFINE r == Restore(k, m)
<1>1. t \in Thread \ {Idle} /\ mtx[m].original_priority \in Prio
  BY ThreadAssumption DEF MutexInv, Whole
<1>2. r = k \/ r = ChangePriority(k, t, mtx[m].original_priority) BY DEF Restore
<1>3. KernelOK(k) /\ (k.stat[t] = "READY" => ~Off(k, t)) BY DEF MutexInv, Place
<1> HIDE DEF r
<1> QED BY <1>1, <1>2, <1>3, Reprioritise DEF r

LEMMA ReleaseFreeStep ==
  ASSUME MutexInv, NEW t \in Thread, NEW m \in Mutex, ReleaseFree(t, m)
  PROVE  MutexInv'
<1>1. /\ k.cur = t /\ isr = "none" /\ pc[t] = "run" /\ mtx[m].owner = t /\ mtx[m].hold = 1
      /\ k.list[m] = <<>> /\ UNCHANGED <<isr, pc, alive, restPrio, want>> /\ k' = Restore(k, m)
      /\ mtx' = [mtx EXCEPT ![m] = Unowned]
      /\ depth' = [depth EXCEPT ![t] = [depth[t] EXCEPT ![m] = depth[t][m] + -1]]
  BY DEF ReleaseFree, Calls, Running, Returned
<1>2. depth[t][m] = 1
  <2>1. Holder(t, m) /\ ~Granted(t, m) BY <1>1, Caller DEF MutexInv, Granted
  <2>2. depth[t][m] \in Nat BY Types, MutexAssumption
  <2> QED BY <1>1, <2>1, <2>2 DEF Holder
<1>3. KernelOK(k') /\ Kept(k, k') /\ Same(k, k', {}) BY <1>1, Restored
<1>4. Same(k, k', {t}) /\ k'.stat[t] = "READY" /\ ~Off(k', t)
  BY <1>1, <1>3, Caller DEF Same
<1>5. /\ mtx'[m] = Unowned /\ \A n \in Mutex \ {m} : mtx'[n] = mtx[n]
      /\ mtx' \in [Mutex -> [value : {0, 1}, owner : Thread \cup {NoThread},
                            original_priority : Prio \cup {NoPrio}, hold : 0..(HoldSize - 1)]]
  <2>1. Unowned \in [value : {0, 1}, owner : Thread \cup {NoThread},
                     original_priority : Prio \cup {NoPrio}, hold : 0..(HoldSize - 1)]
    BY MutexAssumption DEF Unowned
  <2> QED BY <1>1, <2>1, Types
<1>6. /\ depth'[t][m] = 0
      /\ \A u \in Thread, n \in Mutex : u # t \/ n # m => depth'[u][n] = depth[u][n]
      /\ depth' \in [Thread -> [Mutex -> 0..MaxDepth]]
  BY <1>1, <1>2, Types, MutexAssumption
<1>7. TypeOK' BY <1>1, <1>3, <1>5, <1>6, Types DEF TypeOK, KernelOK
<1>8. mtx'[m].owner = NoThread /\ mtx'[m].value = 1 BY <1>5 DEF Unowned
<1>9. Whole(m)' BY <1>8 DEF Whole
<1>10. On(k, m) = {} BY <1>1, Types, EmptyWaits
<1> QED BY <1>1, <1>3, <1>4, <1>5, <1>6, <1>7, <1>8, <1>9, <1>10, OwnMutex, ThreadAssumption

\* The mutex goes from t to u, the head of its list, in one region.
LEMMA HandOver ==
  ASSUME MutexInv, NEW t \in Thread, NEW m \in Mutex, ReleaseHandOver(t, m)
  PROVE  LET u == Head(k.list[m])
         IN  /\ u \in Thread \ {t} /\ u \in On(k, m) /\ k.stat[u] = "SUSPEND" /\ u # Idle
             /\ KernelOK(k') /\ Kept(k, k') /\ Same(k, k', {u}) /\ k'.err = k.err
             /\ k'.stat[u] = "READY" /\ ~Off(k', u)
             /\ mtx'[m] \in {[value |-> 0, owner |-> u, original_priority |-> p, hold |-> 1] : p \in Prio}
             /\ \A n \in Mutex \ {m} : mtx'[n] = mtx[n]
<1> DEFINE u == Head(k.list[m])
           s == Restore(k, m)
<1>1. /\ k.cur = t /\ isr = "none" /\ pc[t] = "run" /\ mtx[m].owner = t
      /\ k.list[m] # <<>>
      /\ mtx' = [mtx EXCEPT ![m] = Owned(s, Head(s.list[m]))]
      /\ k' = rt_ipc_list_resume(s, m)
  BY DEF ReleaseHandOver, Calls, Running
<1>2. u \in Thread /\ u \in On(k, m) /\ k.stat[u] = "SUSPEND" BY <1>1, Types, HeadWaits
<1>3. u # t /\ u # Idle BY <1>1, <1>2, Types, Caller, IdleReady
<1>4. KernelOK(s) /\ Kept(k, s) /\ Same(k, s, {}) /\ Unmoved(k, s) /\ s.err = k.err
  BY <1>1, Restored
<1> HIDE DEF s
<1>5. s.list[m] = k.list[m] BY <1>4, MutexAssumption DEF Unmoved
<1>6. k' = rt_thread_resume(s, u) /\ mtx' = [mtx EXCEPT ![m] = Owned(s, u)]
  BY <1>1, <1>5 DEF rt_ipc_list_resume
<1> HIDE DEF u
<1>7. s.stat[u] = "SUSPEND" BY <1>2, <1>4 DEF Same
<1>8. KernelOK(k') /\ Kept(s, k') /\ k'.stat[u] = "READY" /\ ~Off(k', u) /\ Same(s, k', {u}) /\ k'.err = s.err
  BY <1>2, <1>4, <1>6, <1>7, ResumeThread, ResumeSame, ResumeCodes DEF Codes
<1>9. Same(k, s, {u}) BY <1>4 DEF Same
<1>10. Same(k, k', {u}) BY <1>8, <1>9, SameTrans
<1>11. s.prio[u] \in Prio BY <1>2, <1>4, KernelFields DEF KernelOK
<1>12. mtx'[m] \in {[value |-> 0, owner |-> u, original_priority |-> p, hold |-> 1] : p \in Prio}
  BY <1>6, <1>11, Types DEF Owned
<1>13. \A n \in Mutex \ {m} : mtx'[n] = mtx[n] BY <1>6, Types
<1>14. Kept(k, k') /\ k'.err = k.err BY <1>4, <1>8 DEF Kept
<1> QED BY <1>2, <1>3, <1>8, <1>10, <1>12, <1>13, <1>14 DEF u

LEMMA HandOverStep ==
  ASSUME MutexInv, NEW t \in Thread, NEW m \in Mutex, ReleaseHandOver(t, m)
  PROVE  MutexInv'
<1> DEFINE u == Head(k.list[m])
<1>1. /\ k.cur = t /\ isr = "none" /\ pc[t] = "run" /\ mtx[m].owner = t /\ mtx[m].hold = 1
      /\ UNCHANGED <<isr, alive, restPrio, want>> /\ mtx' \in [Mutex -> {mtx'[n] : n \in Mutex}]
      /\ depth' = [depth EXCEPT ![t] = [depth[t] EXCEPT ![m] = depth[t][m] + -1]]
  BY Types DEF ReleaseHandOver, Calls, Running, Returned
<1>2. /\ u \in Thread \ {t} /\ u \in On(k, m) /\ k.stat[u] = "SUSPEND" /\ u # Idle
      /\ KernelOK(k') /\ Kept(k, k') /\ Same(k, k', {u}) /\ k'.err = k.err
      /\ k'.stat[u] = "READY" /\ ~Off(k', u)
      /\ mtx'[m] \in {[value |-> 0, owner |-> u, original_priority |-> p, hold |-> 1] : p \in Prio}
      /\ \A n \in Mutex \ {m} : mtx'[n] = mtx[n]
  BY HandOver
<1> HIDE DEF u
<1>3. pc' \in [Thread -> Label] /\ \A v \in Thread : pc'[v] = IF v = t THEN "sched" ELSE pc[v]
  BY Types DEF ReleaseHandOver, Goto, Label
<1>4. depth[t][m] = 1
  <2>1. Holder(t, m) /\ ~Granted(t, m) BY <1>1, Caller DEF MutexInv, Granted
  <2>2. depth[t][m] \in Nat BY Types, MutexAssumption
  <2> QED BY <1>1, <2>1, <2>2 DEF Holder
<1>5. /\ depth'[t][m] = 0
      /\ \A v \in Thread, n \in Mutex : v # t \/ n # m => depth'[v][n] = depth[v][n]
      /\ depth' \in [Thread -> [Mutex -> 0..MaxDepth]]
  BY <1>1, <1>4, Types, MutexAssumption
<1>6. /\ mtx'[m].owner = u /\ mtx'[m].value = 0 /\ mtx'[m].hold = 1
      /\ mtx'[m].original_priority \in Prio
  BY <1>2
<1>7. mtx' \in [Mutex -> [value : {0, 1}, owner : Thread \cup {NoThread},
                          original_priority : Prio \cup {NoPrio}, hold : 0..(HoldSize - 1)]]
  <2>1. mtx'[m] \in [value : {0, 1}, owner : Thread \cup {NoThread},
                     original_priority : Prio \cup {NoPrio}, hold : 0..(HoldSize - 1)]
    BY <1>2, MutexAssumption
  <2> QED BY <1>1, <1>2, <2>1, Types
<1>8. TypeOK' BY <1>1, <1>2, <1>3, <1>5, <1>7, Types DEF TypeOK, KernelOK
<1>9. \A v \in Thread \ {u} : /\ k'.stat[v] = k.stat[v] /\ (Off(k', v) <=> Off(k, v))
                              /\ (v \in Timed(k') <=> v \in Timed(k))
                              /\ \A n \in Mutex : v \in On(k', n) <=> v \in On(k, n)
  BY <1>2, MutexAssumption DEF Same
<1>10. \A v \in Thread, n \in Mutex : InTake(v, n)' <=> InTake(v, n)
  BY <1>1, <1>3 DEF InTake
<1>11. \A n \in Mutex : /\ t \notin On(k, n) /\ ~InTake(t, n) /\ u \notin On(k', n)
                        /\ Waiters(n) = On(k, n) /\ Waiters(n)' = On(k', n)
  BY <1>1, <1>2, Caller, ReadyIsOff DEF Waiters, On
<1>12. InTake(u, m) /\ k.err[u] = "EOK" /\ depth[u][m] = 0 /\ \A n \in Mutex \ {m} : ~InTake(u, n)
  <2>1. Waiter(u, m) /\ Holder(u, m) BY <1>2 DEF MutexInv
  <2> QED BY <1>2, <2>1 DEF Waiter, Holder, InTake
<1>13. ASSUME NEW v \in Thread PROVE Place(v)'
  <2>1. Place(v) BY DEF MutexInv
  <2>2. pc'[v] \in Taking <=> pc[v] \in Taking BY <1>1, <1>3 DEF Taking
  <2>3. pc'[v] \in Deleting <=> pc[v] \in Deleting BY <1>1, <1>3 DEF Deleting
  <2>4. pc[v] \in Asleep => pc'[v] \in Asleep BY <1>1, <1>3 DEF Asleep
  <2>5. CASE v = u BY <1>1, <1>2, <2>1, <2>2, <2>3, <2>5 DEF Place
  <2>6. CASE v # u BY <1>1, <1>9, <2>1, <2>2, <2>3, <2>4, <2>6 DEF Place
  <2> QED BY <2>5, <2>6
<1>14. ASSUME NEW v \in Thread, NEW n \in Mutex PROVE Waiter(v, n)'
  <2>1. Waiter(v, n) BY DEF MutexInv
  <2>2. CASE v = u BY <1>11, <2>2 DEF Waiter
  <2>3. CASE v # u /\ v \in On(k', n)
    <3>1. InTake(v, n)' /\ k'.err[v] = "EOK" BY <1>2, <1>9, <1>10, <2>1, <2>3 DEF Waiter
    <3>2. mtx'[n].owner \in Thread \ {v} BY <1>2, <1>6, <1>9, <2>1, <2>3 DEF Waiter
    <3>3. n \in alive' \/ \E d \in Thread \ {v} : want'[d] = n /\ pc'[d] \in Deleting
      BY <1>1, <1>3, <1>9, <2>1, <2>3 DEF Waiter, Deleting
    <3> QED BY <3>1, <3>2, <3>3 DEF Waiter
  <2> QED BY <2>2, <2>3 DEF Waiter
<1>15. ASSUME NEW v \in Thread, NEW n \in Mutex PROVE Holder(v, n)'
  <2>1. Holder(v, n) BY DEF MutexInv
  <2>2. CASE v = t
    <3>1. ~Granted(t, n) /\ ~Granted(t, n)' /\ ~InTake(t, n)' BY <1>10, <1>11 DEF Granted
    <3>2. CASE n = m BY <1>2, <1>5, <1>6, <2>2, <3>1, <3>2 DEF Holder
    <3>3. CASE n # m BY <1>2, <1>5, <2>1, <2>2, <3>1, <3>3 DEF Holder
    <3> QED BY <3>2, <3>3
  <2>3. CASE v = u
    <3>1. CASE n = m
      <4>1. InTake(v, n) /\ k.err[v] = "EOK" /\ depth[v][n] = 0 /\ v \notin On(k', n)
        BY <1>11, <1>12, <2>3, <3>1
      <4>2. InTake(v, n)' BY <1>10, <4>1
      <4>3. Granted(v, n)' BY <1>2, <1>11, <4>1, <4>2 DEF Granted
      <4>4. mtx'[n].owner = v /\ mtx'[n].hold = 1 /\ depth'[v][n] = 0
        BY <1>2, <1>5, <1>6, <2>3, <3>1, <4>1
      <4> QED BY <1>2, <4>1, <4>3, <4>4 DEF Holder
    <3>2. CASE n # m
      <4>1. ~InTake(v, n) BY <1>12, <2>3, <3>2
      <4>2. ~InTake(v, n)' BY <1>10, <4>1
      <4>3. ~Granted(v, n) /\ ~Granted(v, n)' BY <4>1, <4>2 DEF Granted
      <4> QED BY <1>2, <1>5, <2>1, <2>3, <3>2, <4>2, <4>3 DEF Holder
    <3> QED BY <3>1, <3>2
  <2>4. CASE v \notin {t, u}
    <3>1. Granted(v, n)' <=> Granted(v, n) BY <1>2, <1>9, <1>10, <1>11, <2>4 DEF Granted
    <3>2. CASE n = m BY <1>1, <1>2, <1>5, <1>6, <1>9, <1>10, <2>1, <2>4, <3>2 DEF Holder
    <3>3. CASE n # m BY <1>2, <1>5, <1>9, <1>10, <2>1, <2>4, <3>1, <3>3 DEF Holder
    <3> QED BY <3>2, <3>3
  <2> QED BY <2>2, <2>3, <2>4
<1>16. \A n \in Mutex : Whole(n)' BY <1>2, <1>6 DEF MutexInv, Whole
<1>17. k.stat[t] = "READY" BY <1>1, Caller
<1>18. Runner' /\ k'.nest = 0 /\ (isr' = "timer" => k'.timers # <<>>)
  BY <1>1, <1>2, <1>9, <1>17, Types DEF Runner, Kept
<1> QED BY <1>2, <1>8, <1>13, <1>14, <1>15, <1>16, <1>18 DEF MutexInv

\* The taker goes onto the list; the owner may be lifted, and does not move.
LEMMA SuspendTaker ==
  ASSUME MutexInv, NEW t \in Thread, NEW m \in Mutex, NEW time \in {Forever} \cup 1..MaxDelay,
         TakeSuspend(t, m, time)
  PROVE  /\ t # Idle /\ KernelOK(k') /\ Kept(k, k') /\ Same(k, k', {t})
         /\ k'.stat[t] = "SUSPEND" /\ k'.err[t] = "EOK" /\ t \in On(k', m)
<1> DEFINE a == ClearError(t)
           o == mtx[m].owner
           b == Boost(a, t, m)
           c == rt_ipc_list_suspend(b, m, t, Flag)
           d == rt_timer_start(c, t, time)
<1>1. /\ k.cur = t /\ isr = "none" /\ pc[t] = "run" /\ t # Idle
      /\ mtx[m].owner # t /\ mtx[m].value = 0
      /\ k' = IF time = Forever THEN c ELSE d
  BY MutexAssumption DEF TakeSuspend, Calls, Running
<1>2. /\ KernelOK(a) /\ Same(k, a, {t}) /\ Kept(k, a) /\ a.stat = k.stat
      /\ a.stat[t] = "READY" /\ ~Off(a, t) /\ a.err = [k.err EXCEPT ![t] = "EOK"]
  BY <1>1, ClearedOK
<1>3. a.err[t] = "EOK" BY <1>2, Types
<1> HIDE DEF a
<1>4. o \in Thread \ {Idle} /\ o # t BY <1>1 DEF MutexInv, Whole
<1>5. a.stat[o] = "READY" => ~Off(a, o)
  BY <1>2, <1>4 DEF MutexInv, Place, Same
<1>6. a.prio[t] \in Prio BY <1>2, KernelFields DEF KernelOK
<1>7. b = a \/ b = ChangePriority(a, o, a.prio[t]) BY DEF Boost
<1> HIDE DEF b, o
<1>8. KernelOK(b) /\ Kept(a, b) /\ Same(a, b, {}) /\ b.err = a.err
  BY <1>2, <1>4, <1>5, <1>6, <1>7, Reprioritise
<1>9. Same(a, b, {t}) /\ b.stat[t] = "READY" BY <1>2, <1>8 DEF Same
<1>10. m \in WaitList /\ t \in Thread \ {Idle} BY <1>1, MutexAssumption
<1>11. KernelOK(c) /\ Kept(b, c) /\ Codes(b, c) /\ c.stat[t] = "SUSPEND"
  BY <1>8, <1>9, <1>10, ListSuspend
<1>12. Same(b, c, {t}) /\ t \in On(c, m) BY <1>8, <1>9, <1>10, ListSuspendSame
<1> HIDE DEF c
<1>13. Same(k, c, {t})
  <2>1. Same(k, b, {t}) BY <1>2, <1>9, SameTrans
  <2> QED BY <2>1, <1>12, SameTrans
<1>14. Kept(k, c) /\ c.err[t] = "EOK" BY <1>2, <1>3, <1>8, <1>11 DEF Kept, Codes
<1>15. CASE time = Forever BY <1>1, <1>11, <1>12, <1>13, <1>14, <1>15
<1>16. CASE time # Forever
  <2>1. time \in Nat BY <1>16, BoundAssumption
  <2>2. KernelOK(d) /\ Kept(c, d) /\ d.stat = c.stat BY <1>11, <2>1, TimerStart
  <2>3. Codes(c, d) BY <1>11, TimerCodes DEF KernelOK
  <2>4. Same(c, d, {t}) /\ Unmoved(c, d) BY <1>11, <2>1, StartSame
  <2> HIDE DEF d
  <2>5. Same(k, d, {t}) BY <1>13, <2>4, SameTrans
  <2> QED BY <1>1, <1>10, <1>11, <1>12, <1>14, <1>16, <2>2, <2>3, <2>4, <2>5 DEF Kept, Codes, Unmoved, On
<1> QED BY <1>15, <1>16

LEMMA TakeSuspendStep ==
  ASSUME MutexInv, NEW t \in Thread, NEW m \in Mutex, NEW time \in {Forever} \cup 1..MaxDelay,
         TakeSuspend(t, m, time)
  PROVE  MutexInv'
<1>1. /\ k.cur = t /\ isr = "none" /\ pc[t] = "run" /\ m \in alive
      /\ mtx[m].owner # t /\ mtx[m].value = 0 /\ UNCHANGED <<isr, mtx, alive, restPrio, depth>>
      /\ Goto(t, "take_sched") /\ want' = [want EXCEPT ![t] = m]
  BY DEF TakeSuspend, Calls, Running
<1>2. /\ KernelOK(k') /\ Kept(k, k') /\ Same(k, k', {t})
      /\ k'.stat[t] = "SUSPEND" /\ k'.err[t] = "EOK" /\ t \in On(k', m)
  BY SuspendTaker
<1>3. pc' \in [Thread -> Label] /\ \A v \in Thread : pc'[v] = IF v = t THEN "take_sched" ELSE pc[v]
  BY <1>1, Types DEF Goto, Label
<1>4. want' \in [Thread -> Mutex \cup {NoMutex}] /\ \A v \in Thread : want'[v] = IF v = t THEN m ELSE want[v]
  BY <1>1, Types
<1>5. \A v \in Thread \ {t} : /\ k'.stat[v] = k.stat[v] /\ (Off(k', v) <=> Off(k, v))
                              /\ (v \in Timed(k') <=> v \in Timed(k)) /\ k'.err[v] = k.err[v]
                              /\ \A n \in Mutex : v \in On(k', n) <=> v \in On(k, n)
  BY <1>2, MutexAssumption DEF Same
<1>6. \A v \in Thread \ {t}, n \in Mutex : InTake(v, n)' <=> InTake(v, n)
  BY <1>3, <1>4 DEF InTake
<1>7. \A n \in Mutex : /\ InTake(t, n)' <=> n = m
                       /\ t \in On(k', n) <=> n = m
                       /\ ~InTake(t, n)
                       /\ Waiters(n) = On(k, n) /\ Waiters(n)' = On(k', n)
  BY <1>1, <1>2, <1>3, <1>4, OneList DEF InTake, Waiters, On
<1>8. mtx[m].owner \in Thread \ {t} BY <1>1 DEF MutexInv, Whole
<1>9. ASSUME NEW v \in Thread PROVE Place(v)'
  <2>1. Place(v) BY DEF MutexInv
  <2>2. CASE v = t
    <3>1. want'[t] # NoMutex /\ pc'[t] \in Taking BY <1>3, <1>4, MutexAssumption DEF Taking
    <3> QED BY <1>2, <2>2, <3>1 DEF Place
  <2>3. CASE v # t BY <1>3, <1>4, <1>5, <2>1, <2>3 DEF Place
  <2> QED BY <2>2, <2>3
<1>10. ASSUME NEW v \in Thread, NEW n \in Mutex PROVE Waiter(v, n)'
  <2>1. Waiter(v, n) BY DEF MutexInv
  <2>2. CASE v = t /\ n = m
    <3>1. InTake(v, n)' BY <1>7, <2>2
    <3> QED BY <1>1, <1>2, <1>8, <2>2, <3>1 DEF Waiter
  <2>3. CASE v = t /\ n # m BY <1>7, <2>3 DEF Waiter
  <2>4. CASE v # t /\ v \in On(k', n)
    <3>1. InTake(v, n)' BY <1>5, <1>6, <2>1, <2>4 DEF Waiter
    <3>2. n \in alive \/ \E d \in Thread \ {v} : want'[d] = n /\ pc'[d] \in Deleting
      <4>1. n \in alive \/ \E d \in Thread \ {v} : want[d] = n /\ pc[d] \in Deleting
        BY <1>5, <2>1, <2>4 DEF Waiter
      <4> QED BY <1>1, <1>3, <1>4, <4>1 DEF Deleting
    <3> QED BY <1>1, <1>5, <2>1, <2>4, <3>1, <3>2 DEF Waiter
  <2> QED BY <2>2, <2>3, <2>4 DEF Waiter
<1>11. ASSUME NEW v \in Thread, NEW n \in Mutex PROVE Holder(v, n)'
  <2>1. Holder(v, n) BY DEF MutexInv
  <2>2. CASE v = t
    <3>1. ~Granted(v, n) /\ ~Granted(v, n)' BY <1>7, <2>2 DEF Granted
    <3>2. n = m => depth[v][n] = 0 BY <1>1, <2>1, <2>2 DEF Holder
    <3>3. InTake(v, n)' => n = m /\ v \in On(k', n) BY <1>7, <2>2
    <3> QED BY <1>1, <2>1, <3>1, <3>2, <3>3 DEF Holder
  <2>3. CASE v # t
    <3>1. Granted(v, n)' <=> Granted(v, n) BY <1>5, <1>6, <1>7, <2>3 DEF Granted
    <3> QED BY <1>1, <1>5, <1>6, <2>1, <2>3, <3>1 DEF Holder
  <2> QED BY <2>2, <2>3
<1>12. \A n \in Mutex : Whole(n)' BY <1>1 DEF MutexInv, Whole
<1>13. Runner' /\ k'.nest = 0 /\ (isr' = "timer" => k'.timers # <<>>)
  BY <1>1, <1>2, <1>3, Types DEF Runner, Kept
<1>14. TypeOK' BY <1>1, <1>2, <1>3, <1>4, Types DEF TypeOK, KernelOK
<1> QED BY <1>2, <1>9, <1>10, <1>11, <1>12, <1>13, <1>14 DEF MutexInv

\* A take returns: with the mutex if its code is RT_EOK.
LEMMA TakeBackStep ==
  ASSUME MutexInv, NEW t \in Thread, TakeBack(t)
  PROVE  MutexInv'
<1> DEFINE m == want[t]
           got == IF k.err[t] = "EOK" THEN 1 ELSE 0
<1>1. /\ k.cur = t /\ isr = "none" /\ pc[t] = "take_back" /\ UNCHANGED <<k, isr, mtx, alive, restPrio>>
      /\ Goto(t, "run") /\ want' = [want EXCEPT ![t] = NoMutex]
      /\ depth' = [depth EXCEPT ![t] = [depth[t] EXCEPT ![m] = depth[t][m] + got]]
  BY DEF TakeBack, Running, Returned
<1>2. m \in Mutex
  <2>1. Place(t) BY DEF MutexInv
  <2> QED BY <1>1, <2>1, Types DEF Place, Taking
<1>3. k.stat[t] = "READY" /\ \A n \in Mutex : t \notin On(k, n)
  <2>1. k.stat[t] = "READY" BY <1>1 DEF MutexInv, Runner
  <2> QED BY <2>1, Types, ReadyIsOff
<1>4. \A n \in Mutex : /\ InTake(t, n) <=> n = m
                       /\ Waiters(n) = On(k, n) /\ Waiters(n)' = On(k', n)
  BY <1>1, <1>2 DEF InTake, Waiters, On
<1>5. depth[t][m] = 0 /\ (k.err[t] = "EOK" <=> mtx[m].owner = t) /\ (mtx[m].owner = t => mtx[m].hold = 1)
  <2>1. Holder(t, m) /\ InTake(t, m) BY <1>2, <1>4 DEF MutexInv
  <2>2. k.err[t] = "EOK" => Granted(t, m) BY <1>2, <1>3, <1>4, <2>1 DEF Granted
  <2> QED BY <1>2, <1>3, <2>1, <2>2 DEF Holder
<1>6. got \in 0..MaxDepth /\ got = IF mtx[m].owner = t THEN 1 ELSE 0 BY <1>5, MutexAssumption
<1> HIDE DEF got
<1>7. /\ depth'[t][m] = got
      /\ \A v \in Thread, n \in Mutex : v # t \/ n # m => depth'[v][n] = depth[v][n]
      /\ depth' \in [Thread -> [Mutex -> 0..MaxDepth]]
  BY <1>1, <1>2, <1>5, <1>6, Types, MutexAssumption
<1> HIDE DEF m
<1>8. pc' \in [Thread -> Label] /\ \A v \in Thread : pc'[v] = IF v = t THEN "run" ELSE pc[v]
  BY <1>1, Types DEF Goto, Label
<1>9. want' \in [Thread -> Mutex \cup {NoMutex}] /\ \A v \in Thread : want'[v] = IF v = t THEN NoMutex ELSE want[v]
  BY <1>1, Types
<1>10. \A v \in Thread \ {t}, n \in Mutex : InTake(v, n)' <=> InTake(v, n)
  BY <1>8, <1>9 DEF InTake
<1>11. \A n \in Mutex : ~InTake(t, n)' BY <1>8 DEF InTake
<1>12. ASSUME NEW v \in Thread PROVE Place(v)'
  <2>1. Place(v) BY DEF MutexInv
  <2>2. CASE v = t BY <1>1, <1>3, <1>8, <1>9, <2>1, <2>2 DEF Place, Taking, Deleting
  <2>3. CASE v # t BY <1>1, <1>8, <1>9, <2>1, <2>3 DEF Place
  <2> QED BY <2>2, <2>3
<1>13. ASSUME NEW v \in Thread, NEW n \in Mutex, v \in On(k', n) PROVE Waiter(v, n)'
  <2>1. Waiter(v, n) /\ v # t /\ v \in On(k, n) BY <1>1, <1>3, <1>13 DEF MutexInv
  <2>2. InTake(v, n)' BY <1>10, <2>1 DEF Waiter
  <2>3. n \in alive \/ \E d \in Thread \ {v} : want'[d] = n /\ pc'[d] \in Deleting
    <3>1. n \in alive \/ \E d \in Thread \ {v} : want[d] = n /\ pc[d] \in Deleting
      BY <2>1 DEF Waiter
    <3> QED BY <1>1, <1>8, <1>9, <3>1 DEF Deleting
  <2> QED BY <1>1, <2>1, <2>2, <2>3 DEF Waiter
<1>14. ASSUME NEW v \in Thread, NEW n \in Mutex PROVE Holder(v, n)'
  <2>1. Holder(v, n) BY DEF MutexInv
  <2>2. CASE v = t
    <3>1. ~InTake(v, n)' /\ ~Granted(v, n)' BY <1>11, <2>2 DEF Granted
    <3>2. CASE n = m BY <1>1, <1>5, <1>6, <1>7, <2>2, <3>1, <3>2 DEF Holder
    <3>3. CASE n # m
      <4>1. ~Granted(v, n) BY <1>4, <2>2, <3>3 DEF Granted
      <4> QED BY <1>1, <1>7, <2>1, <2>2, <3>1, <3>3, <4>1 DEF Holder
    <3> QED BY <3>2, <3>3
  <2>3. CASE v # t
    <3>1. Granted(v, n)' <=> Granted(v, n) BY <1>1, <1>4, <1>10, <2>3 DEF Granted
    <3> QED BY <1>1, <1>7, <1>10, <2>1, <2>3, <3>1 DEF Holder
  <2> QED BY <2>2, <2>3
<1>15. \A n \in Mutex : Whole(n)' BY <1>1 DEF MutexInv, Whole
<1>16. Runner' /\ k'.nest = 0 /\ (isr' = "timer" => k'.timers # <<>>) /\ KernelOK(k')
  BY <1>1, <1>3, Types DEF Runner
<1>17. TypeOK' BY <1>1, <1>7, <1>8, <1>9, Types DEF TypeOK
<1> QED BY <1>12, <1>13, <1>14, <1>15, <1>16, <1>17 DEF MutexInv, Waiter

-----------------------------------------------------------------------------
(* Deletion.                                                               *)

\* A thread begins or ends the deletion of m.
LEMMA Deletion ==
  ASSUME MutexInv, NEW t \in Thread, k.cur = t, k.stat[t] = "READY", pc[t] \notin Taking,
         NEW l \in Label, l \notin Taking, Goto(t, l), UNCHANGED <<k, isr, mtx, depth>>,
         NEW w \in Mutex \cup {NoMutex}, want' = [want EXCEPT ![t] = w],
         w = NoMutex <=> l \notin Deleting,
         alive' \in SUBSET Mutex, restPrio' \in [Thread -> Prio],
         \A n \in Mutex, v \in Thread \ {t} :
           v \in On(k, n) /\ (n \in alive \/ (want[t] = n /\ pc[t] \in Deleting))
             => n \in alive' \/ w = n
  PROVE  MutexInv'
<1>1. pc' \in [Thread -> Label] /\ \A v \in Thread : pc'[v] = IF v = t THEN l ELSE pc[v]
  BY Types DEF Goto
<1>2. want' \in [Thread -> Mutex \cup {NoMutex}] /\ \A v \in Thread : want'[v] = IF v = t THEN w ELSE want[v]
  BY Types
<1>3. \A v \in Thread, n \in Mutex : InTake(v, n)' <=> InTake(v, n)
  BY <1>1, <1>2 DEF InTake, Taking
<1>4. \A n \in Mutex : t \notin On(k, n) /\ Waiters(n) = On(k, n) /\ Waiters(n)' = On(k', n)
  BY Types, ReadyIsOff DEF Waiters, On
<1>5. ASSUME NEW v \in Thread PROVE Place(v)'
  <2>1. Place(v) BY DEF MutexInv
  <2>2. CASE v = t BY <1>1, <1>2, <2>1, <2>2 DEF Place
  <2>3. CASE v # t BY <1>1, <1>2, <2>1, <2>3 DEF Place
  <2> QED BY <2>2, <2>3
<1>6. ASSUME NEW v \in Thread, NEW n \in Mutex, v \in On(k', n) PROVE Waiter(v, n)'
  <2>1. Waiter(v, n) /\ v # t /\ v \in On(k, n) BY <1>4, <1>6 DEF MutexInv
  <2>2. InTake(v, n)' BY <1>3, <2>1 DEF Waiter
  <2>3. n \in alive \/ \E d \in Thread \ {v} : want[d] = n /\ pc[d] \in Deleting
    BY <2>1 DEF Waiter
  <2>4. n \in alive' \/ \E d \in Thread \ {v} : want'[d] = n /\ pc'[d] \in Deleting
    <3>1. CASE n \in alive \/ (want[t] = n /\ pc[t] \in Deleting)
      <4>1. n \in alive' \/ w = n BY <2>1, <3>1
      <4>2. w = n => want'[t] = n /\ pc'[t] \in Deleting BY <1>1, <1>2, MutexAssumption
      <4> QED BY <2>1, <4>1, <4>2
    <3>2. CASE \E d \in Thread \ {v, t} : want[d] = n /\ pc[d] \in Deleting
      BY <1>1, <1>2, <3>2
    <3> QED BY <2>3, <3>1, <3>2
  <2> QED BY <2>1, <2>2, <2>4 DEF Waiter
<1>7. ASSUME NEW v \in Thread, NEW n \in Mutex PROVE Holder(v, n)'
  <2>1. Holder(v, n) BY DEF MutexInv
  <2>2. Granted(v, n)' <=> Granted(v, n) BY <1>3, <1>4 DEF Granted
  <2> QED BY <1>3, <2>1, <2>2 DEF Holder
<1>8. \A n \in Mutex : Whole(n)' BY DEF MutexInv, Whole
<1>9. Runner' /\ k'.nest = 0 /\ (isr' = "timer" => k'.timers # <<>>) /\ KernelOK(k')
  BY Types DEF MutexInv, Runner
<1>10. TypeOK' BY <1>1, <1>2, Types DEF TypeOK
<1> QED BY <1>5, <1>6, <1>7, <1>8, <1>9, <1>10 DEF MutexInv, Waiter

LEMMA DeleteStep ==
  ASSUME MutexInv, NEW t \in Thread, NEW m \in Mutex, Delete(t, m)
  PROVE  MutexInv'
<1>1. /\ k.cur = t /\ isr = "none" /\ pc[t] = "run" /\ Goto(t, "delete_loop")
      /\ alive' = alive \ {m} /\ want' = [want EXCEPT ![t] = m] /\ UNCHANGED <<k, isr, mtx, depth>>
  BY DEF Delete, Calls, Running
<1>2. k.stat[t] = "READY" BY <1>1, Caller
<1>3. alive' \in SUBSET Mutex /\ m # NoMutex BY <1>1, Types, MutexAssumption
<1>4. restPrio' \in [Thread -> Prio]
  <2>1. restPrio' = IF mtx[m].owner = t THEN [restPrio EXCEPT ![t] = k.prio[t]] ELSE restPrio BY DEF Delete
  <2>2. k.prio[t] \in Prio /\ restPrio \in [Thread -> Prio] BY Types
  <2> QED BY <2>1, <2>2
<1> QED BY <1>1, <1>2, <1>3, <1>4, Deletion DEF Label, Taking, Deleting

LEMMA DeleteDoneStep ==
  ASSUME MutexInv, NEW t \in Thread, DeleteDone(t)
  PROVE  MutexInv'
<1>1. /\ k.cur = t /\ pc[t] = "delete_loop" /\ Goto(t, "run") /\ k.list[want[t]] = <<>>
      /\ want' = [want EXCEPT ![t] = NoMutex] /\ UNCHANGED <<k, isr, mtx, alive, restPrio, depth>>
  BY DEF DeleteDone, Running
<1>2. k.stat[t] = "READY" BY <1>1 DEF MutexInv, Runner
<1>3. \A n \in Mutex : want[t] = n => On(k, n) = {} BY <1>1, Types, EmptyWaits
<1>4. alive' \in SUBSET Mutex /\ restPrio' \in [Thread -> Prio] BY <1>1, Types
<1> QED BY <1>1, <1>2, <1>3, <1>4, Deletion DEF Label, Taking, Deleting

-----------------------------------------------------------------------------
(* All steps.                                                              *)

LEMMA FirstState ==
  ASSUME Init
  PROVE  MutexInv
<1> USE DEF Init
<1>1. /\ KernelOK(k) /\ k.nest = 0 /\ k.timers = <<>> /\ k.cur \in Thread
      /\ k.err \in [Thread -> {"EOK"}]
      /\ \A t \in Thread : k.stat[t] = "READY" /\ ~Off(k, t)
  BY BootedOK, MutexAssumption
<1>2. TypeOK
  <2>1. pc \in [Thread -> Label] /\ want \in [Thread -> Mutex \cup {NoMutex}] BY DEF Label
  <2>2. mtx \in [Mutex -> [value : {0, 1}, owner : Thread \cup {NoThread},
                           original_priority : Prio \cup {NoPrio}, hold : 0..(HoldSize - 1)]]
    BY MutexAssumption DEF Unowned
  <2>3. depth \in [Thread -> [Mutex -> 0..MaxDepth]] BY MutexAssumption
  <2> QED BY <1>1, <2>1, <2>2, <2>3, MutexAssumption DEF TypeOK, KernelOK
<1>3. \A t \in Thread : Place(t) BY <1>1 DEF Place, Taking, Deleting
<1>4. ASSUME NEW t \in Thread, NEW m \in Mutex PROVE Waiter(t, m) /\ Holder(t, m)
  <2>1. t \notin On(k, m) BY <1>1, ReadyIsOff
  <2>2. ~InTake(t, m) BY DEF InTake
  <2>3. mtx[m].owner # t /\ depth[t][m] = 0 BY ThreadAssumption DEF Unowned
  <2> QED BY <2>1, <2>2, <2>3 DEF Waiter, Holder
<1>5. \A m \in Mutex : Whole(m) BY DEF Whole, Unowned
<1> QED BY <1>1, <1>2, <1>3, <1>4, <1>5 DEF MutexInv, Runner

LEMMA EachStep ==
  ASSUME MutexInv, [Next]_vars
  PROVE  MutexInv'
<1>1. ASSUME NEW t \in Thread, Step(t) PROVE MutexInv'
  <2>1. CASE TakeSchedule(t)
    BY <2>1, ScheduleTo DEF TakeSchedule, Label, Taking, Deleting, Asleep
  <2>2. CASE Schedule(t)
    BY <2>2, ScheduleTo DEF Schedule, Label, Taking, Deleting, Asleep
  <2>3. CASE SleepSchedule(t)
    BY <2>3, ScheduleTo DEF SleepSchedule, Label, Taking, Deleting, Asleep
  <2>4. CASE TakeBack(t) BY <2>4, TakeBackStep
  <2>5. CASE ReleaseLast(t) BY <2>5, HandOverStep, ReleaseFreeStep DEF ReleaseLast
  <2>6. CASE ReleaseOne(t) BY <2>6, ReleaseHeldStep DEF ReleaseOne
  <2>7. CASE DeleteTest(t)
    <3>1. k.stat[t] = "READY" BY <2>7 DEF DeleteTest, Running, MutexInv, Runner
    <3> QED BY <2>7, <3>1, PlaceOnly DEF DeleteTest, Running, Label, Taking, Deleting
  <2>8. CASE DeleteResume(t) BY <2>8, DeleteResumeStep
  <2>9. CASE DeleteDone(t) BY <2>9, DeleteDoneStep
  <2>10. CASE \E n \in 1..MaxDelay : Sleep(t, n) BY <2>10, SleepStep
  <2>11. CASE SleepBack(t)
    <3>1. k.stat[t] = "READY" BY <2>11 DEF SleepBack, Running, MutexInv, Runner
    <3>2. \E e \in Error : k' = [k EXCEPT !.err[t] = e]
      <4> DEFINE e == IF k.err[t] = "ETIMEOUT" THEN "EOK" ELSE k.err[t]
      <4>1. e \in Error BY Types DEF Error
      <4>2. k' = [k EXCEPT !.err[t] = e] BY <2>11 DEF SleepBack
      <4> QED BY <4>1, <4>2
    <3>3. pc' \in [Thread -> Label] /\ pc'[t] = "run" /\ \A u \in Thread \ {t} : pc'[u] = pc[u]
      BY <2>11, Types DEF SleepBack, Goto, Label
    <3> QED BY <2>11, <3>1, <3>2, <3>3, CodeStep DEF SleepBack, Running
  <2>12. CASE Compute(t)
    <3>1. k.stat[t] = "READY" /\ pc[t] = "run" /\ k.cur = t
      BY <2>12, Caller DEF Compute, Calls, Running
    <3> QED BY <2>12, <3>1, PlaceOnly DEF Compute, Label, Taking, Deleting
  <2>13. ASSUME NEW m \in Mutex, ReleaseFails(t, m) \/ TryTakeFails(t, m) PROVE MutexInv'
    <3>1. k.stat[t] = "READY" /\ pc[t] = "run" /\ k.cur = t /\ isr = "none"
      BY <2>13, Caller DEF ReleaseFails, TryTakeFails, Calls, Running
    <3>2. \E e \in Error : k' = [k EXCEPT !.err[t] = e]
      BY <2>13 DEF ReleaseFails, TryTakeFails, Error
    <3>3. pc' = pc /\ UNCHANGED <<isr, mtx, alive, restPrio, want, depth>>
      BY <2>13 DEF ReleaseFails, TryTakeFails
    <3> QED BY <3>1, <3>2, <3>3, Types, CodeStep
  <2>14. ASSUME NEW m \in Mutex, TakeAgain(t, m) \/ TakeFree(t, m) \/ Delete(t, m) PROVE MutexInv'
    BY <2>14, TakeAgainStep, TakeFreeStep, DeleteStep
  <2>15. ASSUME NEW m \in Mutex, NEW time \in {Forever} \cup 1..MaxDelay, TakeSuspend(t, m, time)
         PROVE  MutexInv'
    BY <2>15, TakeSuspendStep
  <2> QED BY <1>1, <2>1, <2>2, <2>3, <2>4, <2>5, <2>6, <2>7, <2>8, <2>9, <2>10, <2>11, <2>12,
             <2>13, <2>14, <2>15 DEF Step
<1>2. CASE Tick BY <1>2, TickStep
<1>3. CASE TimerCheck BY <1>3, TimerStep
<1>4. CASE UNCHANGED vars
  <2>1. Same(k, k', {}) /\ Runner' BY <1>4 DEF vars, Same, MutexInv, Runner
  <2> QED BY <1>4, <2>1, Types, NobodyMoves DEF vars, MutexInv
<1> QED BY <1>1, <1>2, <1>3, <1>4 DEF Next

-----------------------------------------------------------------------------
(* Theorems, for any instance.                                             *)

\* The invariant that carries the others: who waits is on one list, in a take
\* that nobody has decided, and what a take will return is decided with the
\* owner.
THEOREM MutexInvariance == Spec => []MutexInv
<1>1. Init => MutexInv BY FirstState
<1>2. MutexInv /\ [Next]_vars => MutexInv' BY EachStep
<1> QED BY <1>1, <1>2, PTL DEF Spec

\* hold never wraps as long as takes nest no deeper than MaxDepth, and a
\* boosted thread gets back a priority, never the 0xFF of a free mutex.
THEOREM MutexTypeCorrect == Spec => []TypeOK
<1>1. MutexInv => TypeOK BY DEF MutexInv
<1> QED BY <1>1, MutexInvariance, PTL

\* rt_mutex_take and rt_mutex_release, with any timeouts: the owner is the one
\* thread inside, and hold counts its takes.
THEOREM OwnershipIsExclusive == Spec => []OwnerIsInside
<1>1. MutexInv => OwnerIsInside
  <2> SUFFICES ASSUME MutexInv, NEW m \in Mutex, NEW t \in Thread, mtx[m].owner = t
               PROVE  mtx[m].value = 0
    BY DEF MutexInv, OwnerIsInside, Holder
  <2> QED BY ThreadAssumption DEF MutexInv, Whole
<1> QED BY <1>1, MutexInvariance, PTL

\* The code with which rt_mutex_take returns says whether the thread has the
\* mutex, although release, timeout and deletion race for the waiter.
THEOREM CodesTellOwnership == Spec => []ResultIsOwnership
<1>1. MutexInv => ResultIsOwnership
  BY DEF MutexInv, ResultIsOwnership, Holder, Waiters, On
<1> QED BY <1>1, MutexInvariance, PTL

\* Who sleeps in rt_mutex_take without a timeout is on the list of a mutex that
\* another thread owns or is deleting.
THEOREM NobodyWaitsForNobody == Spec => []WaiterHasOwner
<1>1. MutexInv => WaiterHasOwner
  <2> SUFFICES ASSUME MutexInv, NEW t \in Thread, k.stat[t] = "SUSPEND", ~TimerActive(k, t)
               PROVE  \E m \in Mutex : /\ t \in Waiters(m) /\ InTake(t, m)
                                       /\ mtx[m].owner \in Thread \ {t}
                                       /\ m \in alive \/ \E u \in Thread \ {t} :
                                            want[u] = m /\ pc[u] \in Deleting
    BY DEF WaiterHasOwner, Deleting
  <2>1. PICK m \in Mutex : t \in On(k, m)
    BY DEF MutexInv, Place, TimerActive, Timed
  <2>2. Waiter(t, m) BY DEF MutexInv
  <2> QED BY <2>1, <2>2 DEF Waiter, Waiters, On
<1> QED BY <1>1, MutexInvariance, PTL

-----------------------------------------------------------------------------
(* Priorities.                                                             *)

\* The rule without which inheritance of a single original_priority fails: a
\* thread has one mutex at a time, and holds none while it takes another.
NoNesting ==
  \A t \in Thread, m \in alive, n \in Mutex :
    mtx[m].owner = t /\ ((n \in alive /\ mtx[n].owner = t) \/ InTake(t, n)) => m = n

\* What an owner goes back to is what it ran at before it had the mutex.
Base == \A m \in alive : mtx[m].owner \in Thread => mtx[m].original_priority = restPrio[mtx[m].owner]

\* The waiters of m are in order, and its owner is not below any of them.
Lifted(m) ==
  /\ Ordered(k.prio, k.list[m])
  /\ \A t \in On(k, m) : k.prio[mtx[m].owner] <= k.prio[t]

RestInv == Base /\ PriorityRestored
LiftInv == Flag = "PRIO" => \A m \in alive : Lifted(m)

HandedToHighest ==
  \A m \in Mutex : \A t \in Waiters(m) :
    Flag = "PRIO" /\ mtx'[m].owner = t => \A u \in Waiters(m) : k.prio[t] <= k.prio[u]

\* Most steps change no priority and no owner, and let at most one waiter go.
Quiet ==
  /\ UNCHANGED <<alive, restPrio>>
  /\ k'.prio = k.prio
  /\ Unmoved(k, k') \/ \E x \in Thread : Left(k, k', x)
  /\ \A m \in Mutex : /\ mtx'[m].owner = mtx[m].owner
                      /\ mtx'[m].original_priority = mtx[m].original_priority

LEMMA WaiterList ==
  ASSUME MutexInv, NEW m \in Mutex
  PROVE  /\ k.list[m] \in Seq(Thread) /\ NoDup(k.list[m]) /\ m \in WaitList /\ On(k, m) \subseteq Thread
         /\ ToSet(k.list[m]) = On(k, m) /\ Waiters(m) = On(k, m)
<1>1. m \in ListHead BY MutexAssumption DEF ListHead
<1>2. k.list[m] \in Seq(Thread) /\ NoDup(k.list[m]) BY <1>1, Types, KernelFields DEF KernelOK, Apart
<1> QED BY <1>2, EmptyList, MutexAssumption DEF On, Waiters

\* Who owns a mutex, and does not nest, waits for none and owns no other.
LEMMA OneMutex ==
  ASSUME MutexInv, NoNesting, NEW m \in alive, NEW o \in Thread, mtx[m].owner = o
  PROVE  /\ m \in Mutex
         /\ \A n \in Mutex : o \notin On(k, n)
         /\ \A n \in alive \ {m} : mtx[n].owner # o
<1>1. ASSUME NEW n \in Mutex, o \in On(k, n) PROVE FALSE
  <2>1. InTake(o, n) /\ mtx[n].owner # o BY <1>1 DEF MutexInv, Waiter
  <2>2. m = n BY <2>1 DEF NoNesting
  <2> QED BY <2>1, <2>2
<1>2. alive \subseteq Mutex BY Types
<1> QED BY <1>1, <1>2 DEF NoNesting

\* The order of a list is that of the priorities of its threads.
LEMMA OrderedAlike ==
  ASSUME NEW q \in Seq(Thread), NEW p, NEW r, Ordered(p, q), \A u \in ToSet(q) : r[u] = p[u]
  PROVE  Ordered(r, q)
<1>1. \A i \in DOMAIN q : r[q[i]] = p[q[i]] BY DEF ToSet
<1> QED BY <1>1 DEF Ordered

\* One mutex, when neither its waiters nor its owner changes priority.
LEMMA KeepLifted ==
  ASSUME MutexInv, NEW m \in Mutex, Lifted(m), mtx'[m].owner = mtx[m].owner,
         \A u \in On(k, m) : k'.prio[u] = k.prio[u] /\ k'.prio[mtx[m].owner] = k.prio[mtx[m].owner],
         NEW x, k'.list[m] \in {k.list[m], Without(k.list[m], x)}
  PROVE  Lifted(m)'
<1>1. On(k', m) \subseteq On(k, m)
  <2>1. ToSet(Without(k.list[m], x)) \subseteq ToSet(k.list[m]) BY WaiterList, RemoveList
  <2> QED BY <2>1 DEF On
<1>2. Ordered(k.prio, k'.list[m]) BY WaiterList, RemoveOrdered DEF Lifted
<1>3. k'.list[m] \in Seq(Thread)
  <2>1. Without(k.list[m], x) \in Seq(Thread) BY WaiterList, RemoveList
  <2> QED BY <2>1, WaiterList
<1>4. \A u \in ToSet(k'.list[m]) : k'.prio[u] = k.prio[u] BY <1>1 DEF On
<1>5. Ordered(k'.prio, k'.list[m]) BY <1>2, <1>3, <1>4, OrderedAlike
<1>6. \A t \in On(k', m) : k'.prio[mtx'[m].owner] <= k'.prio[t] BY <1>1 DEF Lifted
<1> QED BY <1>5, <1>6 DEF Lifted

LEMMA QuietStep ==
  ASSUME MutexInv, Quiet
  PROVE  (RestInv => RestInv') /\ (LiftInv => LiftInv') /\ HandedToHighest
<1>1. RestInv => RestInv' BY Types DEF Quiet, RestInv, Base, PriorityRestored
<1>2. ASSUME LiftInv, Flag = "PRIO", NEW m \in alive' PROVE Lifted(m)'
  <2>0. m \in Mutex /\ m \in alive BY <1>2, Types DEF Quiet
  <2>1. \E x : k'.list[m] \in {k.list[m], Without(k.list[m], x)}
    BY <2>0, WaiterList DEF Quiet, Unmoved, Left
  <2>2. Lifted(m) BY <1>2, <2>0 DEF LiftInv
  <2> QED BY <2>0, <2>1, <2>2, KeepLifted DEF Quiet
<1>3. HandedToHighest
  <2>1. \A m \in Mutex : \A t \in Waiters(m) : t \in Thread /\ t \in On(k, m) BY WaiterList
  <2>2. \A m \in Mutex : \A t \in Waiters(m) : mtx[m].owner # t BY <2>1 DEF MutexInv, Waiter
  <2> QED BY <2>2 DEF HandedToHighest, Quiet
<1> QED BY <1>1, <1>2, <1>3 DEF LiftInv

\* A free mutex is taken: nobody waits for it, and the taker, which owns no
\* other, is at its own priority.
LEMMA TakeFreeLifts ==
  ASSUME MutexInv, NoNesting', NEW t \in Thread, NEW m \in Mutex, TakeFree(t, m)
  PROVE  (RestInv => RestInv') /\ (LiftInv => LiftInv') /\ HandedToHighest
<1>1. /\ k.cur = t /\ isr = "none" /\ pc[t] = "run" /\ mtx[m].owner # t /\ mtx[m].value > 0
      /\ k' = [k EXCEPT !.err[t] = "EOK"] /\ mtx' = [mtx EXCEPT ![m] = Owned(k, t)]
      /\ m \in alive /\ UNCHANGED <<alive, restPrio>>
  BY DEF TakeFree, CallsTake, Calls, Running, ClearError
<1>2. k'.prio = k.prio /\ k'.list = k.list
  <2>1. KernelOK(k) /\ "EOK" \in Error BY Types DEF Error
  <2> QED BY <1>1, <2>1, SetError
<1>3. mtx[m].owner = NoThread BY <1>1 DEF MutexInv, Whole
<1>4. /\ mtx'[m].owner = t /\ mtx'[m].original_priority = k.prio[t]
      /\ \A n \in Mutex \ {m} : mtx'[n] = mtx[n]
  BY <1>1, Types DEF Owned
<1>5. \A n \in alive : n \in Mutex /\ mtx[n].owner # t
  <2>1. alive \subseteq Mutex BY Types
  <2>2. \A n \in alive \ {m} : mtx'[n].owner # t BY <1>1, <1>4, <2>1 DEF NoNesting
  <2> QED BY <1>1, <1>4, <2>1, <2>2
<1>6. ASSUME RestInv PROVE RestInv'
  <2>1. k.prio[t] = restPrio[t] BY <1>5, <1>6 DEF RestInv, PriorityRestored
  <2>2. Base' BY <1>1, <1>4, <1>5, <1>6, <2>1 DEF RestInv, Base
  <2>3. PriorityRestored'
    <3> SUFFICES ASSUME NEW u \in Thread, \A n \in alive : mtx'[n].owner # u
                 PROVE  k.prio[u] = restPrio[u]
      BY <1>1, <1>2 DEF PriorityRestored
    <3>1. \A n \in alive : mtx[n].owner # u BY <1>3, <1>4, <1>5, ThreadAssumption
    <3> QED BY <1>6, <3>1 DEF RestInv, PriorityRestored
  <2> QED BY <2>2, <2>3 DEF RestInv
<1>7. On(k, m) = {}
  <2>1. \A u \in On(k, m) : u \in Thread BY WaiterList
  <2>2. \A u \in Thread : u \notin On(k, m) BY <1>3, ThreadAssumption DEF MutexInv, Waiter
  <2> QED BY <2>1, <2>2
<1>8. ASSUME LiftInv, Flag = "PRIO", NEW n \in alive' PROVE Lifted(n)'
  <2>1. n \in Mutex /\ Lifted(n) BY <1>1, <1>5, <1>8 DEF LiftInv
  <2>2. CASE n = m
    <3>1. k'.list[n] = <<>> BY <1>2, <1>7, <2>2, Types, EmptyWaits
    <3> QED BY <3>1 DEF Lifted, Ordered, On, ToSet
  <2>3. CASE n # m BY <1>2, <1>4, <2>1, <2>3, KeepLifted
  <2> QED BY <2>2, <2>3
<1>9. HandedToHighest
  <2> SUFFICES ASSUME NEW n \in Mutex, NEW u \in Thread, u \in On(k, n) PROVE mtx'[n].owner # u
    BY WaiterList DEF HandedToHighest
  <2>1. mtx[n].owner # u /\ n # m BY <1>7 DEF MutexInv, Waiter
  <2> QED BY <1>4, <2>1
<1> QED BY <1>6, <1>8, <1>9 DEF LiftInv

\* rt_mutex_release sets the releaser back to where it was.
LEMMA RestoredTo ==
  ASSUME MutexInv, Base, NEW m \in alive, NEW t \in Thread, mtx[m].owner = t
  PROVE  Restore(k, m).prio = [k.prio EXCEPT ![t] = restPrio[t]]
<1> DEFINE p == mtx[m].original_priority
<1>0. m \in Mutex BY Types
<1>1. p = restPrio[t] BY DEF Base
<1>2. CASE p # k.prio[t]
  <2>1. Restore(k, m) = ChangePriority(k, t, p) BY <1>2 DEF Restore
  <2>2. KernelOK(k) /\ (k.stat[t] = "READY" => ~Off(k, t)) BY DEF MutexInv, Place
  <2>3. t \in Thread \ {Idle} /\ p \in Prio BY <1>0, ThreadAssumption DEF MutexInv, Whole
  <2> HIDE DEF p
  <2> QED BY <1>1, <2>1, <2>2, <2>3, PrioritySet
<1>3. CASE p = k.prio[t]
  <2>1. Restore(k, m) = k BY <1>3 DEF Restore
  <2>2. [k.prio EXCEPT ![t] = k.prio[t]] = k.prio BY Types
  <2> QED BY <1>1, <1>3, <2>1, <2>2
<1> QED BY <1>2, <1>3

\* With the releaser back, every other mutex is as it was.
LEMMA BackLifts ==
  ASSUME MutexInv, NoNesting, NEW m \in alive, NEW t \in Thread, mtx[m].owner = t,
         k'.prio = [k.prio EXCEPT ![t] = restPrio[t]],
         NEW x, \A n \in Mutex : k'.list[n] \in {k.list[n], Without(k.list[n], x)},
         \A n \in Mutex \ {m} : mtx'[n] = mtx[n]
  PROVE  /\ \A n \in alive \ {m} : Lifted(n) => Lifted(n)'
         /\ Lifted(m) => Ordered(k'.prio, k'.list[m]) /\ On(k', m) \subseteq On(k, m)
         /\ \A n \in Mutex : \A u \in On(k, n) : u \in Thread \ {t} /\ k'.prio[u] = k.prio[u]
<1>0. m \in Mutex /\ alive \subseteq Mutex BY Types
<1>1. ASSUME NEW n \in Mutex, NEW u \in On(k, n)
      PROVE  u \in Thread \ {t} /\ k'.prio[u] = k.prio[u]
  <2>1. u \in Thread /\ u # t BY <1>1, OneMutex, WaiterList
  <2> QED BY <2>1, Types
<1>2. ASSUME NEW n \in alive \ {m}, Lifted(n) PROVE Lifted(n)'
  <2>0. n \in Mutex BY <1>0
  <2>1. ASSUME NEW u \in On(k, n) PROVE k'.prio[mtx[n].owner] = k.prio[mtx[n].owner]
    <3>1. u \in Thread BY <2>0, <2>1, WaiterList
    <3>2. mtx[n].owner \in Thread BY <2>0, <2>1, <3>1 DEF MutexInv, Waiter
    <3>3. mtx[n].owner # t BY <1>2, OneMutex
    <3> QED BY <3>2, <3>3, Types
  <2> QED BY <1>0, <1>1, <1>2, <2>0, <2>1, KeepLifted
<1>3. ASSUME Lifted(m) PROVE Ordered(k'.prio, k'.list[m]) /\ On(k', m) \subseteq On(k, m)
  <2> DEFINE w == Without(k.list[m], x)
  <2>1. w \in Seq(Thread) /\ ToSet(w) \subseteq On(k, m) /\ Ordered(k.prio, w)
    BY <1>0, <1>3, WaiterList, RemoveList, RemoveOrdered DEF Lifted
  <2> HIDE DEF w
  <2>2. /\ k'.list[m] \in Seq(Thread) /\ ToSet(k'.list[m]) \subseteq On(k, m)
        /\ Ordered(k.prio, k'.list[m])
    BY <1>0, <1>3, <2>1, WaiterList DEF w, Lifted
  <2> QED BY <1>0, <1>1, <2>2, OrderedAlike DEF On
<1> QED BY <1>1, <1>2, <1>3

LEMMA ReleaseFreeLifts ==
  ASSUME MutexInv, NoNesting, NEW t \in Thread, NEW m \in Mutex, ReleaseFree(t, m), RestInv
  PROVE  RestInv' /\ (LiftInv => LiftInv') /\ HandedToHighest
<1>1. /\ mtx[m].owner = t /\ k.list[m] = <<>> /\ k' = Restore(k, m)
      /\ mtx' = [mtx EXCEPT ![m] = Unowned]
      /\ m \in alive /\ alive \subseteq Mutex /\ UNCHANGED <<alive, restPrio>>
  BY Types DEF ReleaseFree
<1>2. k'.prio = [k.prio EXCEPT ![t] = restPrio[t]] BY <1>1, RestoredTo DEF RestInv
<1>3. \A n \in Mutex : k'.list[n] = k.list[n]
  BY <1>1, Restored, MutexAssumption DEF Unmoved
<1>4. mtx'[m].owner = NoThread /\ \A n \in Mutex \ {m} : mtx'[n] = mtx[n]
  BY <1>1, Types DEF Unowned
<1>5. Base' BY <1>1, <1>4, ThreadAssumption DEF RestInv, Base
<1>6. PriorityRestored'
  <2> SUFFICES ASSUME NEW u \in Thread, \A n \in alive : mtx'[n].owner # u
               PROVE  k'.prio[u] = restPrio[u]
    BY <1>1 DEF PriorityRestored
  <2>1. CASE u = t BY <1>2, <2>1, Types
  <2>2. CASE u # t
    <3>1. \A n \in alive : mtx[n].owner # u BY <1>1, <1>4, <2>2
    <3>2. k'.prio[u] = k.prio[u] BY <1>2, <2>2, Types
    <3> QED BY <3>1, <3>2 DEF RestInv, PriorityRestored
  <2> QED BY <2>1, <2>2
<1>7. ASSUME LiftInv, Flag = "PRIO", NEW n \in alive' PROVE Lifted(n)'
  <2>1. n \in Mutex /\ n \in alive /\ Lifted(n) BY <1>1, <1>7 DEF LiftInv
  <2>2. CASE n = m
    <3>1. k'.list[n] = <<>> BY <1>1, <1>3, <2>2
    <3> QED BY <3>1 DEF Lifted, Ordered, On, ToSet
  <2>3. CASE n # m BY <1>1, <1>2, <1>3, <1>4, <2>1, <2>3, BackLifts
  <2> QED BY <2>2, <2>3
<1>8. HandedToHighest
  <2> SUFFICES ASSUME NEW n \in Mutex, NEW u \in Thread, u \in On(k, n) PROVE mtx'[n].owner # u
    BY WaiterList DEF HandedToHighest
  <2>1. mtx[n].owner # u BY DEF MutexInv, Waiter
  <2> QED BY <1>4, <2>1, ThreadAssumption
<1> QED BY <1>5, <1>6, <1>7, <1>8 DEF RestInv, LiftInv

\* The new owner was the first of an ordered list, at its own priority.
LEMMA HandOverLifts ==
  ASSUME MutexInv, NoNesting, NEW t \in Thread, NEW m \in Mutex, ReleaseHandOver(t, m), RestInv
  PROVE  RestInv' /\ (LiftInv => LiftInv' /\ HandedToHighest)
<1> DEFINE h == Head(k.list[m])
           s == Restore(k, m)
<1>1. /\ mtx[m].owner = t /\ k.list[m] # <<>>
      /\ mtx' = [mtx EXCEPT ![m] = Owned(s, Head(s.list[m]))]
      /\ k' = rt_ipc_list_resume(s, m)
      /\ m \in alive /\ alive \subseteq Mutex /\ UNCHANGED <<alive, restPrio>>
  BY Types DEF ReleaseHandOver
<1>2. s.prio = [k.prio EXCEPT ![t] = restPrio[t]] BY <1>1, RestoredTo DEF RestInv
<1>3. KernelOK(s) /\ Same(k, s, {}) /\ \A n \in Mutex : s.list[n] = k.list[n]
  BY <1>1, Restored, MutexAssumption DEF Unmoved
<1> HIDE DEF s
<1>4. h \in Thread /\ h \in On(k, m) /\ k.stat[h] = "SUSPEND" BY <1>1, Types, HeadWaits
<1>5. k' = rt_thread_resume(s, h) /\ mtx' = [mtx EXCEPT ![m] = Owned(s, h)]
  BY <1>1, <1>3 DEF rt_ipc_list_resume
<1> HIDE DEF h
<1>6. s.stat[h] = "SUSPEND" BY <1>3, <1>4 DEF Same
<1>7. k'.prio = s.prio /\ Left(s, k', h) BY <1>3, <1>4, <1>5, <1>6, ResumeCodes, ResumeMoves DEF Codes
<1>8. \A n \in Mutex : k'.list[n] = Without(k.list[n], h) BY <1>3, <1>7, MutexAssumption DEF Left
<1>9. /\ mtx'[m].owner = h /\ mtx'[m].original_priority = s.prio[h]
      /\ \A n \in Mutex \ {m} : mtx'[n] = mtx[n]
  BY <1>5, Types DEF Owned
<1>10. /\ \A n \in alive \ {m} : Lifted(n) => Lifted(n)'
       /\ Lifted(m) => Ordered(k'.prio, k'.list[m]) /\ On(k', m) \subseteq On(k, m)
       /\ \A n \in Mutex : \A u \in On(k, n) : u \in Thread \ {t} /\ k'.prio[u] = k.prio[u]
  <2>1. k'.prio = [k.prio EXCEPT ![t] = restPrio[t]] BY <1>2, <1>7
  <2>2. \A n \in Mutex : k'.list[n] \in {k.list[n], Without(k.list[n], h)} BY <1>8
  <2>3. \A n \in alive \ {m} : Lifted(n) => Lifted(n)' BY <1>1, <1>9, <2>1, <2>2, BackLifts
  <2>4. Lifted(m) => Ordered(k'.prio, k'.list[m]) /\ On(k', m) \subseteq On(k, m)
    BY <1>1, <1>9, <2>1, <2>2, BackLifts
  <2>5. ASSUME NEW n \in Mutex, NEW u \in On(k, n)
        PROVE  u \in Thread \ {t} /\ k'.prio[u] = k.prio[u]
    <3>1. u \in Thread \ {t} BY <1>1, <2>5, OneMutex, WaiterList
    <3> QED BY <2>1, <3>1, Types
  <2> QED BY <2>3, <2>4, <2>5
<1>11. \A n \in alive : mtx[n].owner # h
  <2>1. InTake(h, m) /\ mtx[m].owner # h BY <1>4 DEF MutexInv, Waiter
  <2> QED BY <1>1, <1>4, <2>1 DEF NoNesting
<1>12. k.prio[h] = restPrio[h] BY <1>4, <1>11 DEF RestInv, PriorityRestored
<1>13. Base'
  <2>1. s.prio[h] = restPrio[h] BY <1>4, <1>7, <1>10, <1>12
  <2> QED BY <1>1, <1>9, <2>1 DEF RestInv, Base
<1>14. PriorityRestored'
  <2> SUFFICES ASSUME NEW u \in Thread, \A n \in alive : mtx'[n].owner # u
               PROVE  k'.prio[u] = restPrio[u]
    BY <1>1 DEF PriorityRestored
  <2>1. CASE u = t BY <1>2, <1>7, <2>1, Types
  <2>2. CASE u # t
    <3>1. \A n \in alive : mtx[n].owner # u BY <1>1, <1>9, <2>2
    <3>2. k'.prio[u] = k.prio[u] BY <1>2, <1>7, <2>2, Types
    <3> QED BY <3>1, <3>2 DEF RestInv, PriorityRestored
  <2> QED BY <2>1, <2>2
<1>15. ASSUME Lifted(m), NEW u \in On(k, m) PROVE k.prio[h] <= k.prio[u]
  BY <1>15, WaiterList, Types, OrderedHead DEF h, Lifted
<1>16. ASSUME LiftInv, Flag = "PRIO", NEW n \in alive' PROVE Lifted(n)'
  <2>1. n \in Mutex /\ n \in alive /\ Lifted(n) BY <1>1, <1>16 DEF LiftInv
  <2>2. CASE n = m
    <3>1. \A u \in On(k', m) : k'.prio[h] <= k'.prio[u] BY <1>4, <1>10, <1>15, <2>1, <2>2
    <3> QED BY <1>9, <1>10, <2>1, <2>2, <3>1 DEF Lifted
  <2>3. CASE n # m BY <1>10, <2>1, <2>3
  <2> QED BY <2>2, <2>3
<1>17. ASSUME LiftInv PROVE HandedToHighest
  <2> SUFFICES ASSUME NEW n \in Mutex, NEW u \in Thread, u \in On(k, n), Flag = "PRIO",
                      mtx'[n].owner = u, NEW v \in On(k, n)
               PROVE  k.prio[u] <= k.prio[v]
    BY WaiterList DEF HandedToHighest
  <2>1. mtx[n].owner # u BY DEF MutexInv, Waiter
  <2>2. n = m /\ u = h BY <1>9, <2>1
  <2> QED BY <1>1, <1>15, <1>17, <2>2 DEF LiftInv
<1> QED BY <1>13, <1>14, <1>16, <1>17 DEF RestInv, LiftInv

\* The owner rises to the taker's priority, if that is the higher one.
LEMMA BoostTo ==
  ASSUME NEW s, KernelOK(s), NEW t \in Thread, NEW m \in Mutex, mtx[m].owner \in Thread \ {Idle},
         s.stat[mtx[m].owner] = "READY" => ~Off(s, mtx[m].owner)
  PROVE  LET o == mtx[m].owner
         IN  Boost(s, t, m).prio = IF s.prio[t] < s.prio[o] THEN [s.prio EXCEPT ![o] = s.prio[t]] ELSE s.prio
<1> DEFINE o == mtx[m].owner
           p == s.prio[t]
<1>1. Boost(s, t, m) = IF p < s.prio[o] THEN ChangePriority(s, o, p) ELSE s BY DEF Boost
<1>2. p \in Prio BY KernelFields DEF KernelOK
<1>3. o \in Thread \ {Idle} /\ (s.stat[o] = "READY" => ~Off(s, o)) OBVIOUS
<1> HIDE DEF o, p
<1>4. CASE p < s.prio[o]
  <2>1. ChangePriority(s, o, p).prio = [s.prio EXCEPT ![o] = p] BY <1>2, <1>3, PrioritySet
  <2> QED BY <1>1, <1>4, <2>1 DEF o, p
<1>5. CASE ~(p < s.prio[o]) BY <1>1, <1>5 DEF o, p
<1> QED BY <1>4, <1>5

\* Who starts to wait takes its place in the order, behind an owner that is
\* not below it.
LEMMA TakeSuspendLists ==
  ASSUME MutexInv, NEW t \in Thread, NEW m \in Mutex, NEW time \in {Forever} \cup 1..MaxDelay,
         TakeSuspend(t, m, time)
  PROVE  LET o == mtx[m].owner
             p == IF k.prio[t] < k.prio[o] THEN [k.prio EXCEPT ![o] = k.prio[t]] ELSE k.prio
         IN  /\ o \in Thread \ {t} /\ t \in Thread /\ k'.prio = p
             /\ \A n \in Mutex \ {m} : k'.list[n] = k.list[n]
             /\ Flag = "PRIO" /\ Ordered(p, k.list[m]) => Ordered(p, k'.list[m])
             /\ On(k', m) \subseteq On(k, m) \cup {t}
<1> DEFINE a == ClearError(t)
           o == mtx[m].owner
           b == Boost(a, t, m)
           c == rt_ipc_list_suspend(b, m, t, Flag)
           d == rt_timer_start(c, t, time)
           p == IF k.prio[t] < k.prio[o] THEN [k.prio EXCEPT ![o] = k.prio[t]] ELSE k.prio
<1>1. /\ k.cur = t /\ isr = "none" /\ pc[t] = "run" /\ t # Idle
      /\ mtx[m].owner # t /\ mtx[m].value = 0
      /\ k' = IF time = Forever THEN c ELSE d
  BY MutexAssumption DEF TakeSuspend, Calls, Running
<1>2. /\ KernelOK(a) /\ Same(k, a, {t}) /\ a.stat[t] = "READY" /\ Unmoved(k, a) /\ a.prio = k.prio
  <2>1. KernelOK(k) /\ "EOK" \in Error BY Types DEF Error
  <2>2. a.prio = k.prio BY <2>1, SetError DEF ClearError
  <2> QED BY <1>1, <2>2, ClearedOK
<1> HIDE DEF a
<1>3. o \in Thread \ {Idle} /\ o # t BY <1>1 DEF MutexInv, Whole
<1>4. a.stat[o] = "READY" => ~Off(a, o) BY <1>2, <1>3 DEF MutexInv, Place, Same
<1>5. a.prio[t] \in Prio BY <1>2, KernelFields DEF KernelOK
<1>6. b = a \/ b = ChangePriority(a, o, a.prio[t]) BY DEF Boost
<1>7. b.prio = p BY <1>2, <1>3, <1>4, BoostTo
<1> HIDE DEF b, o, p
<1>8. KernelOK(b) /\ Same(a, b, {}) /\ Unmoved(a, b) BY <1>2, <1>3, <1>4, <1>5, <1>6, Reprioritise
<1>9. b.stat[t] = "READY" BY <1>2, <1>8 DEF Same
<1>10. m \in WaitList /\ t \in Thread \ {Idle} BY <1>1, MutexAssumption
<1>11. KernelOK(c) /\ c.prio = b.prio BY <1>8, <1>9, <1>10, ListSuspend DEF Codes
<1>12. /\ \A v \in WaitList \ {m} : c.list[v] = b.list[v]
       /\ Flag = "PRIO" /\ Ordered(b.prio, b.list[m]) => Ordered(c.prio, c.list[m])
  BY <1>8, <1>9, <1>10, SuspendOrdered
<1> HIDE DEF c
<1>13. d.prio = c.prio /\ Unmoved(c, d) BY <1>10, <1>11, TimerCodes, QueueMoves DEF Codes, KernelOK
<1> HIDE DEF d
<1>14. k'.prio = p /\ \A n \in Mutex : k'.list[n] = c.list[n]
  BY <1>1, <1>7, <1>11, <1>13, MutexAssumption DEF Unmoved
<1>15. \A n \in Mutex : b.list[n] = k.list[n] BY <1>2, <1>8, MutexAssumption DEF Unmoved
<1>16. \A n \in Mutex \ {m} : k'.list[n] = k.list[n] BY <1>12, <1>14, <1>15, MutexAssumption
<1>17. Flag = "PRIO" /\ Ordered(p, k.list[m]) => Ordered(p, k'.list[m])
  BY <1>7, <1>11, <1>12, <1>14, <1>15
<1>18. On(k', m) \subseteq On(k, m) \cup {t}
  <2>1. KernelOK(k') /\ Same(k, k', {t}) BY SuspendTaker
  <2>2. m \in ListHead BY MutexAssumption DEF ListHead
  <2>3. k'.list[m] \in Seq(Thread) BY <2>1, <2>2, KernelFields DEF KernelOK
  <2>4. On(k', m) \subseteq Thread BY <2>3, EmptyList DEF On
  <2> QED BY <2>1, <2>4, <1>10 DEF Same
<1> QED BY <1>3, <1>14, <1>16, <1>17, <1>18 DEF o, p

LEMMA TakeSuspendLifts ==
  ASSUME MutexInv, NoNesting, NEW t \in Thread, NEW m \in Mutex,
         NEW time \in {Forever} \cup 1..MaxDelay, TakeSuspend(t, m, time)
  PROVE  (RestInv => RestInv') /\ (LiftInv => LiftInv') /\ HandedToHighest
<1> DEFINE o == mtx[m].owner
           p == IF k.prio[t] < k.prio[o] THEN [k.prio EXCEPT ![o] = k.prio[t]] ELSE k.prio
<1>1. /\ o \in Thread \ {t} /\ k'.prio = p
      /\ \A n \in Mutex \ {m} : k'.list[n] = k.list[n]
      /\ Flag = "PRIO" /\ Ordered(p, k.list[m]) => Ordered(p, k'.list[m])
      /\ On(k', m) \subseteq On(k, m) \cup {t}
  BY TakeSuspendLists
<1>2. mtx' = mtx /\ m \in alive /\ alive \subseteq Mutex /\ UNCHANGED <<alive, restPrio>> BY Types DEF TakeSuspend
<1>3. (\A n \in Mutex : o \notin On(k, n)) /\ \A n \in alive \ {m} : mtx[n].owner # o
  BY <1>1, <1>2, OneMutex
<1>4. \A u \in Thread : k.prio[u] \in Int BY Types, BoundAssumption DEF Prio
<1>5. /\ \A u \in Thread \ {o} : p[u] = k.prio[u]
      /\ p[o] <= k.prio[o] /\ p[o] <= p[t]
  BY <1>1, <1>4, Types
<1> HIDE DEF o, p
<1>6. ASSUME RestInv PROVE RestInv'
  <2>1. Base' BY <1>2, <1>6 DEF RestInv, Base
  <2>2. PriorityRestored'
    <3> SUFFICES ASSUME NEW u \in Thread, \A n \in alive : mtx[n].owner # u
                 PROVE  k'.prio[u] = restPrio[u]
      BY <1>2 DEF PriorityRestored
    <3>1. u # o BY <1>2 DEF o
    <3>2. k'.prio[u] = k.prio[u] BY <1>1, <1>5, <3>1
    <3> QED BY <1>6, <3>2 DEF RestInv, PriorityRestored
  <2> QED BY <2>1, <2>2 DEF RestInv
<1>7. ASSUME LiftInv, Flag = "PRIO", NEW n \in alive' PROVE Lifted(n)'
  <2>1. n \in Mutex /\ n \in alive /\ Lifted(n) BY <1>2, <1>7 DEF LiftInv
  <2>2. \A u \in On(k, n) : u \in Thread \ {o} /\ k'.prio[u] = k.prio[u]
    BY <1>1, <1>3, <1>5, <2>1, WaiterList
  <2>3. CASE n = m
    <3>1. Ordered(p, k.list[m]) BY <1>1, <2>1, <2>2, <2>3, WaiterList, OrderedAlike DEF Lifted
    <3>2. Ordered(k'.prio, k'.list[m]) BY <1>1, <1>7, <3>1
    <3>3. ASSUME NEW u \in On(k', m) PROVE k'.prio[o] <= k'.prio[u]
      <4>1. CASE u = t BY <1>1, <1>5, <4>1
      <4>2. CASE u \in On(k, m)
        <5>1. k.prio[o] <= k.prio[u] /\ k'.prio[u] = k.prio[u] /\ u \in Thread
          BY <2>1, <2>2, <2>3, <4>2 DEF Lifted, o
        <5>2. k'.prio[o] <= k.prio[o] /\ k'.prio[o] \in Int
          <6>1. KernelOK(k') BY SuspendTaker
          <6>2. k'.prio[o] \in Prio BY <1>1, <6>1, KernelFields DEF KernelOK
          <6> QED BY <1>1, <1>5, <6>2, BoundAssumption DEF Prio
        <5> QED BY <1>1, <1>4, <5>1, <5>2
      <4> QED BY <1>1, <4>1, <4>2
    <3> QED BY <1>2, <2>3, <3>2, <3>3 DEF Lifted, o
  <2>4. CASE n # m
    <3>1. ASSUME NEW u \in On(k, n) PROVE k'.prio[mtx[n].owner] = k.prio[mtx[n].owner]
      <4>1. u \in Thread BY <2>1, <3>1, WaiterList
      <4>2. mtx[n].owner \in Thread BY <2>1, <3>1, <4>1 DEF MutexInv, Waiter
      <4> QED BY <1>1, <1>3, <1>5, <2>1, <2>4, <4>2
    <3> QED BY <1>1, <1>2, <2>1, <2>2, <2>4, <3>1, KeepLifted
  <2> QED BY <2>3, <2>4
<1>8. HandedToHighest
  <2>1. \A n \in Mutex : \A u \in Waiters(n) : u \in Thread /\ u \in On(k, n) BY WaiterList
  <2>2. \A n \in Mutex : \A u \in Waiters(n) : mtx[n].owner # u BY <2>1 DEF MutexInv, Waiter
  <2> QED BY <1>2, <2>2 DEF HandedToHighest
<1> QED BY <1>6, <1>7, <1>8 DEF LiftInv

LEMMA SameKernel ==
  ASSUME k' = k, UNCHANGED <<alive, restPrio>>, \A m \in Mutex : /\ mtx'[m].owner = mtx[m].owner
                                  /\ mtx'[m].original_priority = mtx[m].original_priority
  PROVE  Quiet
  BY DEF Quiet, Unmoved

LEMMA SameMutexes ==
  ASSUME MutexInv, UNCHANGED <<mtx, alive, restPrio>>, k'.prio = k.prio, Unmoved(k, k') \/ \E x \in Thread : Left(k, k', x)
  PROVE  Quiet
  BY DEF Quiet

LEMMA CodeIsQuiet ==
  ASSUME MutexInv, NEW t \in Thread, NEW e \in Error, k' = [k EXCEPT !.err[t] = e],
         UNCHANGED <<alive, restPrio>>,
         \A m \in Mutex : /\ mtx'[m].owner = mtx[m].owner
                          /\ mtx'[m].original_priority = mtx[m].original_priority
  PROVE  Quiet
<1>1. k'.prio = k.prio /\ k'.list = k.list
  <2>1. KernelOK(k) BY Types
  <2> QED BY <2>1, SetError
<1> QED BY <1>1 DEF Quiet, Unmoved

LEMMA DispatchIsQuiet ==
  ASSUME MutexInv, k' = rt_schedule(k), UNCHANGED <<mtx, alive, restPrio>>
  PROVE  Quiet
<1>1. k'.prio = k.prio /\ Unmoved(k, k')
  BY Types, QueueCodes, QueueMoves, ThreadAssumption DEF Codes
<1> QED BY <1>1, SameMutexes

LEMMA SleepIsQuiet ==
  ASSUME MutexInv, NEW t \in Thread, NEW n \in 1..MaxDelay, Sleep(t, n)
  PROVE  Quiet
<1>1. /\ isr = "none" /\ k.cur = t /\ pc[t] = "run" /\ t # Idle /\ UNCHANGED <<mtx, alive, restPrio>>
      /\ k' = rt_thread_sleep(k, t, n)
  BY MutexAssumption DEF Sleep, Calls, Running
<1>2. KernelOK(k) /\ k.stat[t] = "READY" /\ n \in Nat BY <1>1, Types, Caller, BoundAssumption
<1>3. k'.prio = k.prio /\ Unmoved(k, k') BY <1>1, <1>2, SleepMoves DEF Codes
<1> QED BY <1>1, <1>3, SameMutexes

LEMMA DeleteResumeIsQuiet ==
  ASSUME MutexInv, NEW d \in Thread, DeleteResume(d)
  PROVE  Quiet
<1> DEFINE m == want[d]
           t == Head(k.list[m])
           a == [k EXCEPT !.err[t] = "ERROR"]
<1>1. /\ pc[d] = "delete_resume" /\ k.list[m] # <<>> /\ k' = rt_ipc_list_resume(a, m)
      /\ UNCHANGED <<mtx, alive, restPrio>>
  BY DEF DeleteResume, Running
<1>2. m \in Mutex
  <2>1. Place(d) BY DEF MutexInv
  <2> QED BY <1>1, <2>1, Types DEF Place, Deleting
<1> HIDE DEF m
<1>3. t \in Thread /\ k.stat[t] = "SUSPEND" BY <1>1, <1>2, Types, HeadWaits
<1>4. k' = rt_thread_resume(a, Head(a.list[m])) BY <1>1 DEF rt_ipc_list_resume
<1>5. KernelOK(a) /\ a.prio = k.prio /\ a.list = k.list /\ a.stat = k.stat
  <2>1. KernelOK(k) /\ "ERROR" \in Error BY Types DEF Error
  <2> HIDE DEF t
  <2> QED BY <1>3, <2>1, SetError
<1> HIDE DEF a
<1>6. k' = rt_thread_resume(a, t) BY <1>4, <1>5
<1> HIDE DEF t
<1>7. k'.prio = a.prio /\ Left(a, k', t) BY <1>3, <1>5, <1>6, ResumeCodes, ResumeMoves DEF Codes
<1> QED BY <1>1, <1>3, <1>5, <1>7, SameMutexes DEF Left

LEMMA TickIsQuiet ==
  ASSUME MutexInv, Tick
  PROVE  Quiet
<1>1. k.cur \in Thread /\ (k.stat[k.cur] = "READY" => ~Off(k, k.cur))
  BY DEF MutexInv, Runner, Place
<1>2. k' = TickIncrease(k) /\ UNCHANGED <<mtx, alive, restPrio>> BY DEF Tick, rt_tick_increase
<1>3. k'.prio = k.prio /\ Unmoved(k, k') BY <1>1, <1>2, Types, TickSame, TickCodes DEF Codes
<1> QED BY <1>2, <1>3, SameMutexes

LEMMA TimerIsQuiet ==
  ASSUME MutexInv, TimerCheck
  PROVE  Quiet
<1>1. k' = TimerFire(k) /\ UNCHANGED <<mtx, alive, restPrio>> /\ k.timers # <<>>
  BY DEF TimerCheck, rt_timer_check, MutexInv
<1>2. k'.prio = k.prio /\ Left(k, k', Head(k.timers)) /\ Head(k.timers) \in Thread
  BY <1>1, Types, FireCodes, FireMoves, FireTimer
<1> QED BY <1>1, <1>2, SameMutexes

\* Who deletes its mutex owns no other, and stays at what it runs at.
LEMMA DeleteLifts ==
  ASSUME MutexInv, NoNesting, NEW t \in Thread, NEW m \in Mutex, Delete(t, m)
  PROVE  (RestInv => RestInv') /\ (LiftInv => LiftInv') /\ HandedToHighest
<1>1. /\ m \in alive /\ alive' = alive \ {m} /\ UNCHANGED <<k, mtx>>
      /\ mtx[m].owner \in {t, NoThread}
      /\ restPrio' = IF mtx[m].owner = t THEN [restPrio EXCEPT ![t] = k.prio[t]] ELSE restPrio
  BY DEF Delete
<1>2. restPrio \in [Thread -> Prio] /\ alive \subseteq Mutex BY Types
<1>3. ASSUME RestInv PROVE RestInv'
  <2>1. \A u \in Thread \ {t} : restPrio'[u] = restPrio[u] BY <1>1, <1>2
  <2>2. CASE mtx[m].owner = t
    <3>1. restPrio'[t] = k.prio[t] BY <1>1, <1>2, <2>2
    <3>2. \A n \in alive' : n \in alive /\ mtx[n].owner # t BY <1>1, <2>2, OneMutex
    <3>3. Base' BY <1>1, <1>3, <2>1, <3>2 DEF RestInv, Base
    <3>4. PriorityRestored'
      <4> SUFFICES ASSUME NEW u \in Thread \ {t}, \A n \in alive' : mtx[n].owner # u
                   PROVE  k.prio[u] = restPrio[u]
        BY <1>1, <2>1, <3>1 DEF PriorityRestored
      <4>1. \A n \in alive : mtx[n].owner # u BY <1>1, <2>2
      <4> QED BY <1>3, <4>1 DEF RestInv, PriorityRestored
    <3> QED BY <3>3, <3>4 DEF RestInv
  <2>3. CASE mtx[m].owner # t
    <3>1. mtx[m].owner = NoThread /\ restPrio' = restPrio BY <1>1, <2>3
    <3>2. \A u \in Thread : mtx[m].owner # u BY <3>1, ThreadAssumption
    <3>3. Base' BY <1>1, <1>3, <3>1 DEF RestInv, Base
    <3>4. PriorityRestored' BY <1>1, <1>3, <3>1, <3>2 DEF RestInv, PriorityRestored
    <3> QED BY <3>3, <3>4 DEF RestInv
  <2> QED BY <2>2, <2>3
<1>4. LiftInv => LiftInv' BY <1>1 DEF LiftInv, Lifted, On
<1>5. HandedToHighest
  <2>1. \A n \in Mutex : \A u \in Waiters(n) : u \in Thread /\ u \in On(k, n) BY WaiterList
  <2>2. \A n \in Mutex : \A u \in Waiters(n) : mtx[n].owner # u BY <2>1 DEF MutexInv, Waiter
  <2> QED BY <1>1, <2>2 DEF HandedToHighest
<1> QED BY <1>3, <1>4, <1>5

\* The steps that are not quiet, one by one.
LEMMA StepKinds ==
  ASSUME MutexInv, [Next]_vars
  PROVE  \/ Quiet
         \/ \E t \in Thread, m \in Mutex :
              \/ TakeFree(t, m) \/ ReleaseFree(t, m) \/ ReleaseHandOver(t, m) \/ Delete(t, m)
              \/ \E time \in {Forever} \cup 1..MaxDelay : TakeSuspend(t, m, time)
<1>1. ASSUME NEW t \in Thread, TakeSchedule(t) \/ Schedule(t) \/ SleepSchedule(t) PROVE Quiet
  BY <1>1, DispatchIsQuiet DEF TakeSchedule, Schedule, SleepSchedule, ScheduleStep
<1>2. ASSUME NEW t \in Thread, TakeBack(t) \/ DeleteTest(t) \/ DeleteDone(t) \/ Compute(t)
      PROVE  Quiet
  BY <1>2, SameKernel DEF TakeBack, DeleteTest, DeleteDone, Compute
<1>4. ASSUME NEW t \in Thread, NEW m \in Mutex, ReleaseHeld(t, m) PROVE Quiet
  <2>1. k' = k /\ UNCHANGED <<alive, restPrio>> /\ mtx' = [mtx EXCEPT ![m] = [mtx[m] EXCEPT !.hold = mtx[m].hold - 1]]
    BY <1>4 DEF ReleaseHeld
  <2> QED BY <2>1, Types, SameKernel
<1>5. ASSUME NEW t \in Thread, NEW m \in Mutex, TakeAgain(t, m) PROVE Quiet
  <2> DEFINE h == (mtx[m].hold + 1) % HoldSize
  <2>1. k' = [k EXCEPT !.err[t] = "EOK"] /\ UNCHANGED <<alive, restPrio>>
        /\ mtx' = [mtx EXCEPT ![m] = [mtx[m] EXCEPT !.hold = h]]
    BY <1>5 DEF TakeAgain, ClearError
  <2> HIDE DEF h
  <2>2. \A n \in Mutex : /\ mtx'[n].owner = mtx[n].owner
                         /\ mtx'[n].original_priority = mtx[n].original_priority
    BY <2>1, Types
  <2> QED BY <2>1, <2>2, CodeIsQuiet DEF Error
<1>6. ASSUME NEW t \in Thread, NEW m \in Mutex, ReleaseFails(t, m) \/ TryTakeFails(t, m) PROVE Quiet
  BY <1>6, CodeIsQuiet DEF ReleaseFails, TryTakeFails, Error
<1>7. ASSUME NEW t \in Thread, SleepBack(t) PROVE Quiet
  <2> DEFINE e == IF k.err[t] = "ETIMEOUT" THEN "EOK" ELSE k.err[t]
  <2>1. e \in Error BY Types DEF Error
  <2>2. k' = [k EXCEPT !.err[t] = e] /\ UNCHANGED <<mtx, alive, restPrio>> BY <1>7 DEF SleepBack
  <2> HIDE DEF e
  <2> QED BY <2>1, <2>2, CodeIsQuiet
<1>8. CASE UNCHANGED vars BY <1>8, SameKernel DEF vars
<1>9. ASSUME NEW t \in Thread, Step(t), ~Quiet
      PROVE  \E m \in Mutex :
               \/ TakeFree(t, m) \/ ReleaseFree(t, m) \/ ReleaseHandOver(t, m) \/ Delete(t, m)
               \/ \E time \in {Forever} \cup 1..MaxDelay : TakeSuspend(t, m, time)
  BY <1>1, <1>2, <1>4, <1>5, <1>6, <1>7, <1>9, SleepIsQuiet, DeleteResumeIsQuiet
     DEF Step, ReleaseLast, ReleaseOne
<1> QED BY <1>8, <1>9, TickIsQuiet, TimerIsQuiet DEF Next

LEMMA LiftStep ==
  ASSUME MutexInv, NoNesting, NoNesting', [Next]_vars, RestInv
  PROVE  RestInv' /\ (LiftInv => LiftInv' /\ HandedToHighest)
  BY StepKinds, QuietStep, TakeFreeLifts, TakeSuspendLifts, ReleaseFreeLifts, HandOverLifts, DeleteLifts

LEMMA LiftFirst ==
  ASSUME Init
  PROVE  RestInv /\ LiftInv
<1>1. MutexInv BY FirstState
<1>2. k.prio = InitPrio /\ \A m \in Mutex : mtx[m] = Unowned
  <2>1. \E f, g, h : k = rt_schedule([PowerOn(InitPrio) EXCEPT !.stat = f, !.list = g, !.group = h])
    BY DEF Init, Booted
  <2>2. PICK f, g, h : k = rt_schedule([PowerOn(InitPrio) EXCEPT !.stat = f, !.list = g, !.group = h])
    BY <2>1
  <2>3. k.prio = InitPrio BY <2>2 DEF rt_schedule, PowerOn
  <2> QED BY <2>3 DEF Init
<1>3. RestInv
  <2>1. restPrio = InitPrio /\ alive = Mutex BY DEF Init
  <2> QED BY <1>2, <2>1, ThreadAssumption DEF RestInv, Base, PriorityRestored, Unowned
<1>4. ASSUME NEW m \in Mutex PROVE k.list[m] = <<>>
  <2>1. \A t \in Thread : t \notin On(k, m) BY <1>1, <1>2, ThreadAssumption DEF MutexInv, Waiter, Unowned
  <2>2. On(k, m) = {} BY <1>1, <2>1, WaiterList
  <2> QED BY <1>1, <2>2, Types, EmptyWaits
<1>5. LiftInv BY <1>1, <1>4, Types DEF LiftInv, Lifted, Ordered, On, ToSet
<1> QED BY <1>3, <1>5

-----------------------------------------------------------------------------
(* Theorems about priorities, for threads that do not nest mutexes.        *)

\* What every release and every take preserves.
THEOREM LiftInvariance == Spec /\ []NoNesting => [](RestInv /\ LiftInv)
<1>1. Init => RestInv /\ LiftInv BY LiftFirst
<1>2. MutexInv /\ NoNesting /\ NoNesting' /\ [Next]_vars /\ RestInv /\ LiftInv => RestInv' /\ LiftInv'
  BY LiftStep
<1> QED BY <1>1, <1>2, MutexInvariance, PTL DEF Spec

\* rt_mutex_release, "change the owner thread to original priority": a thread
\* without a mutex is back at its own priority, whatever timeouts and hand-overs
\* its waiters went through, unless it has deleted a mutex it owned: then it is
\* at what it ran at in that moment, lifted or not.
THEOREM OwnPriorityComesBack == Spec /\ []NoNesting => []PriorityRestored
<1>1. RestInv /\ LiftInv => PriorityRestored BY DEF RestInv
<1> QED BY <1>1, LiftInvariance, PTL

\* rt_mutex_take lifts the owner, and a hand-over keeps the new owner above
\* those that still wait: with RT_IPC_FLAG_PRIO no owner is below a waiter.
THEOREM OwnersInherit ==
  ASSUME Flag = "PRIO"
  PROVE  Spec /\ []NoNesting => []PriorityInheritance
<1>1. MutexInv /\ RestInv /\ LiftInv => PriorityInheritance
  <2> SUFFICES ASSUME MutexInv, LiftInv, NEW m \in alive, NEW t \in Waiters(m)
               PROVE  k.prio[mtx[m].owner] <= k.prio[t]
    BY DEF PriorityInheritance
  <2>1. m \in Mutex BY Types
  <2> QED BY <2>1, WaiterList DEF LiftInv, Lifted
<1> QED BY <1>1, LiftInvariance, MutexInvariance, PTL

\* rt_mutex_release gives the mutex to a waiter that no other is above.
THEOREM HighestGetsItFirst == Spec /\ []NoNesting => HandOverToHighest
<1>1. MutexInv /\ NoNesting /\ NoNesting' /\ RestInv /\ LiftInv /\ [Next]_vars
        => [\A m \in Mutex : \A t \in Waiters(m) :
              Flag = "PRIO" /\ mtx'[m].owner = t
                => \A u \in Waiters(m) : k.prio[t] <= k.prio[u]]_vars
  BY LiftStep DEF HandedToHighest
<1> QED BY <1>1, LiftInvariance, MutexInvariance, PTL DEF Spec, HandOverToHighest

\* Where there is one mutex nobody can nest.
THEOREM OneMutexIsEnough ==
  ASSUME Flag = "PRIO", \A m, n \in Mutex : m = n
  PROVE  Spec => [](PriorityInheritance /\ PriorityRestored) /\ HandOverToHighest
<1>1. MutexInv => NoNesting BY Types DEF NoNesting
<1>2. Spec /\ []NoNesting => []PriorityInheritance BY OwnersInherit
<1> QED BY <1>1, <1>2, MutexInvariance, OwnPriorityComesBack, HighestGetsItFirst, PTL
=============================================================================
