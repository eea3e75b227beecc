--------------------------- MODULE SemaphoreProofs ---------------------------
(***************************************************************************)
(* The semaphore of any number of threads, with any programs and timeouts, *)
(* implements SemaphoreSpec: its invariants, the refinement, and the order *)
(* in which it wakes.                                                      *)
(***************************************************************************)
EXTENDS Semaphore, KernelProofs

\* Every thread is on a list: ready, or waiting for the semaphore.
SemOK(s) ==
  /\ KernelOK(s)
  /\ s.nest = 0
  /\ \A t \in Thread : s.stat[t] \in {"READY", "SUSPEND"} /\ ~Off(s, t)

\* Who is suspended is so in a take, with a code that only a waker changes.
Waits == \A t \in Thread : k.stat[t] = "SUSPEND" => InTake(t) /\ k.err[t] = "EOK"
Nobody == \A t \in Thread : k.stat[t] = "READY"

\* A thread that goes on is ready, but for one on its way into rt_schedule.
Runner == k.cur \in Thread /\ (pc[k.cur] # "take_sched" => k.stat[k.cur] = "READY")

SemInv ==
  /\ TypeOK
  /\ SemOK(k)
  /\ Waits
  /\ Runner
  /\ isr = "timer" => k.timers # <<>>
  /\ value > 0 => Nobody
  /\ alive = "gone" => Nobody

-----------------------------------------------------------------------------
(* What the kernel calls do to states, codes and the processor.            *)

\* The same threads wait, with the same codes.
Steady(s, r) == SemOK(r) /\ r.stat = s.stat /\ r.err = s.err

\* t alone is made ready, with code e.
Woken(s, r, t, e) ==
  /\ SemOK(r)
  /\ r.stat = [s.stat EXCEPT ![t] = "READY"]
  /\ r.err = [s.err EXCEPT ![t] = e]

\* Who is suspended is on the list, and nobody else.
LEMMA OnSem ==
  ASSUME NEW s, SemOK(s)
  PROVE  /\ \A t \in Thread : t \in ToSet(s.list[Sem]) <=> s.stat[t] = "SUSPEND"
         /\ s.list[Sem] \in Seq(Thread)
         /\ s.list[Sem] # <<>> => Head(s.list[Sem]) \in Thread
                                  /\ s.stat[Head(s.list[Sem])] = "SUSPEND"
         /\ s.list[Sem] = <<>> <=> \A t \in Thread : s.stat[t] = "READY"
<1> USE DEF SemOK, KernelOK
<1>1. s.list[Sem] \in Seq(Thread) BY KernelFields, SemAssumption DEF ListHead
<1>2. \A t \in Thread : t \in ToSet(s.list[Sem]) <=> s.stat[t] = "SUSPEND"
  BY SemAssumption DEF Placed, Off, On, ListHead
<1>3. s.list[Sem] # <<>> => Head(s.list[Sem]) \in ToSet(s.list[Sem]) BY <1>1, EmptyList
<1>4. ToSet(s.list[Sem]) \subseteq Thread BY <1>1, EmptyList
<1>5. s.list[Sem] = <<>> <=> ToSet(s.list[Sem]) = {} BY <1>1, EmptyList
<1> QED BY <1>1, <1>2, <1>3, <1>4, <1>5

\* A call that changes t alone.
LEMMA OneState ==
  ASSUME NEW s, SemOK(s), NEW r, KernelOK(r), NEW t \in Thread, Frame(s, r, t), NEW q,
         r.stat[t] = q, q \in {"READY", "SUSPEND"}, ~Off(r, t), r.nest = 0
  PROVE  SemOK(r) /\ r.stat = [s.stat EXCEPT ![t] = q]
<1>1. s.stat \in [Thread -> Stat] /\ r.stat \in [Thread -> Stat] BY KernelFields DEF SemOK, KernelOK
<1>2. \A u \in Thread : r.stat[u] = IF u = t THEN q ELSE s.stat[u] BY DEF Frame
<1>3. r.stat = [s.stat EXCEPT ![t] = q] BY <1>1, <1>2
<1>4. \A u \in Thread : r.stat[u] \in {"READY", "SUSPEND"} /\ ~Off(r, u) BY DEF SemOK, Frame
<1> QED BY <1>3, <1>4 DEF SemOK

LEMMA NoState ==
  ASSUME NEW s, SemOK(s), NEW r, KernelOK(r), Still(s, r), r.nest = 0
  PROVE  SemOK(r) /\ r.stat = s.stat
<1>1. s.stat \in [Thread -> Stat] /\ r.stat \in [Thread -> Stat] BY KernelFields DEF SemOK, KernelOK
<1>2. r.stat = s.stat BY <1>1 DEF Still
<1> QED BY <1>2 DEF SemOK, Still

LEMMA ScheduleSem ==
  ASSUME NEW s, SemOK(s)
  PROVE  LET r == rt_schedule(s)
         IN  Steady(s, r) /\ r.cur \in Thread /\ r.stat[r.cur] = "READY" /\ r.timers = s.timers
<1> DEFINE r == rt_schedule(s)
<1>1. KernelOK(r) /\ Still(s, r) /\ Chosen(s, r) /\ r.timers = s.timers BY Dispatch DEF SemOK
<1>2. Codes(s, r) BY QueueCodes DEF SemOK, KernelOK
<1> HIDE DEF r
<1>3. SemOK(r) /\ r.stat = s.stat BY <1>1, NoState DEF SemOK, Chosen
<1> QED BY <1>1, <1>2, <1>3 DEF Steady, Codes, Chosen, SemOK, r

LEMMA TickSem ==
  ASSUME NEW s, SemOK(s), s.cur \in Thread
  PROVE  LET r == TickIncrease(s)
         IN  /\ Steady(s, r) /\ r.timers = s.timers
             /\ r.cur = s.cur \/ (r.cur \in Thread /\ r.stat[r.cur] = "READY")
<1> DEFINE r == TickIncrease(s)
<1>1. KernelOK(r) /\ Still(s, r) /\ (Kept(s, r) \/ Chosen(s, r)) /\ r.timers = s.timers
  BY TickThreads DEF SemOK
<1>2. Codes(s, r) BY TickCodes DEF SemOK
<1> HIDE DEF r
<1>3. SemOK(r) /\ r.stat = s.stat BY <1>1, NoState DEF SemOK, Kept, Chosen
<1> QED BY <1>1, <1>2, <1>3 DEF Steady, Codes, Kept, Chosen, r

LEMMA FireSem ==
  ASSUME NEW s, SemOK(s), s.timers # <<>>
  PROVE  LET t == Head(s.timers)
             r == TimerFire(s)
         IN  /\ t \in Thread /\ s.stat[t] = "SUSPEND" /\ Woken(s, r, t, "ETIMEOUT")
             /\ r.cur \in Thread /\ r.stat[r.cur] = "READY"
<1> DEFINE t == Head(s.timers)
           r == TimerFire(s)
<1>1. /\ t \in Timed(s) /\ t \in Thread
      /\ KernelOK(r) /\ Frame(s, r, t) /\ Chosen(s, r) /\ r.stat[t] = "READY" /\ ~Off(r, t)
  BY FireTimer DEF SemOK
<1>2. r.err = [s.err EXCEPT ![t] = "ETIMEOUT"] BY FireCodes DEF SemOK
<1> HIDE DEF r, t
<1>3. s.stat[t] = "SUSPEND" BY <1>1 DEF SemOK, KernelOK, Placed
<1>4. r.nest = 0 BY <1>1 DEF Chosen, SemOK
<1>5. SemOK(r) /\ r.stat = [s.stat EXCEPT ![t] = "READY"] BY <1>1, <1>4, OneState
<1> QED BY <1>1, <1>2, <1>3, <1>5 DEF Woken, Chosen, SemOK, r, t

LEMMA SuspendSem ==
  ASSUME NEW t \in Thread \ {Idle}, SemOK(k), k.stat[t] = "READY",
         NEW time \in {Forever} \cup 1..MaxDelay
  PROVE  LET r == SuspendTaker(t, time)
         IN  /\ SemOK(r) /\ r.cur = k.cur
             /\ r.stat = [k.stat EXCEPT ![t] = "SUSPEND"]
             /\ r.err = [k.err EXCEPT ![t] = "EOK"]
<1> DEFINE a == [k EXCEPT !.err[t] = "EOK"]
           b == rt_ipc_list_suspend(a, Sem, t, Flag)
           c == rt_timer_start(b, t, time)
           r == SuspendTaker(t, time)
<1>1. /\ KernelOK(a) /\ Still(k, a) /\ Kept(k, a)
      /\ a.err = [k.err EXCEPT ![t] = "EOK"] /\ a.stat = k.stat
  BY SetError DEF SemOK, Error
<1>2. SemOK(a)
  BY <1>1, NoState DEF Kept, SemOK
<1>3. r = IF time = Forever THEN b ELSE c BY DEF SuspendTaker
<1> HIDE DEF a
<1>4. /\ KernelOK(b) /\ Frame(a, b, t) /\ Kept(a, b) /\ Codes(a, b)
      /\ b.stat[t] = "SUSPEND" /\ ~Off(b, t) /\ t \notin Timed(b)
  BY <1>1, ListSuspend, SemAssumption
<1> HIDE DEF b
<1>5. SemOK(b) /\ b.stat = [a.stat EXCEPT ![t] = "SUSPEND"]
  BY <1>1, <1>2, <1>4, OneState DEF Kept, SemOK
<1>6. CASE time = Forever
  BY <1>1, <1>3, <1>4, <1>5, <1>6 DEF Kept, Codes, r
<1>7. CASE time # Forever
  <2>1. time \in Nat BY <1>7, BoundAssumption
  <2>2. KernelOK(c) /\ Frame(b, c, t) /\ Kept(b, c) /\ c.stat = b.stat /\ (Off(c, t) <=> Off(b, t))
    BY <1>4, <2>1, TimerStart
  <2>3. Codes(b, c) BY <1>4, TimerCodes DEF KernelOK
  <2> HIDE DEF c
  <2>4. SemOK(c) BY <2>2, <1>4, <1>5, OneState DEF Kept, SemOK
  <2> QED BY <1>1, <1>3, <1>4, <1>5, <1>7, <2>2, <2>3, <2>4 DEF Kept, Codes, r
<1> QED BY <1>6, <1>7

LEMMA ResumeSem ==
  ASSUME NEW s, SemOK(s), s.list[Sem] # <<>>
  PROVE  LET t == Head(s.list[Sem])
             r == rt_ipc_list_resume(s, Sem)
         IN  /\ t \in Thread /\ s.stat[t] = "SUSPEND" /\ r.cur = s.cur
             /\ SemOK(r) /\ r.stat = [s.stat EXCEPT ![t] = "READY"] /\ r.err = s.err
             /\ r.prio = s.prio /\ r.list[Sem] = Without(s.list[Sem], t)
<1> DEFINE t == Head(s.list[Sem])
           r == rt_thread_resume(s, t)
<1>1. rt_ipc_list_resume(s, Sem) = r BY DEF rt_ipc_list_resume
<1>2. t \in Thread /\ s.stat[t] = "SUSPEND" BY OnSem
<1> HIDE DEF t
<1>3. KernelOK(r) /\ Frame(s, r, t) /\ Kept(s, r) /\ r.stat[t] = "READY" /\ ~Off(r, t)
  BY <1>2, ResumeThread DEF SemOK
<1>4. Codes(s, r) /\ Left(s, r, t) BY <1>2, ResumeCodes, ResumeMoves DEF SemOK
<1> HIDE DEF r
<1>5. SemOK(r) /\ r.stat = [s.stat EXCEPT ![t] = "READY"]
  BY <1>2, <1>3, OneState DEF Kept, SemOK
<1> QED BY <1>1, <1>2, <1>3, <1>4, <1>5, SemAssumption DEF Kept, Codes, Left, t

LEMMA ErrorSem ==
  ASSUME NEW s, SemOK(s), s.list[Sem] # <<>>
  PROVE  LET t == Head(s.list[Sem])
             r == ResumeWithError(s, Sem)
         IN  /\ t \in Thread /\ s.stat[t] = "SUSPEND" /\ Woken(s, r, t, "ERROR") /\ r.cur = s.cur
             /\ r.prio = s.prio /\ r.list[Sem] = Without(s.list[Sem], t)
<1> DEFINE t == Head(s.list[Sem])
           a == [s EXCEPT !.err[t] = "ERROR"]
           r == rt_ipc_list_resume(a, Sem)
<1>1. ResumeWithError(s, Sem) = r BY DEF ResumeWithError
<1>2. t \in Thread /\ s.stat[t] = "SUSPEND" BY OnSem
<1>3. /\ KernelOK(a) /\ Still(s, a) /\ Kept(s, a)
      /\ a.err = [s.err EXCEPT ![t] = "ERROR"] /\ a.stat = s.stat /\ a.list = s.list
      /\ a.prio = s.prio
  BY <1>2, SetError DEF SemOK, Error
<1> HIDE DEF a
<1>4. SemOK(a) BY <1>3, NoState DEF Kept, SemOK
<1>5. /\ r.cur = a.cur /\ SemOK(r) /\ r.prio = a.prio /\ r.list[Sem] = Without(a.list[Sem], t)
      /\ r.stat = [a.stat EXCEPT ![t] = "READY"] /\ r.err = a.err
  BY <1>3, <1>4, ResumeSem
<1> QED BY <1>1, <1>2, <1>3, <1>5 DEF Woken, Kept

\* The thread that is resumed leaves the list.
LEMMA ResumeLen ==
  ASSUME NEW s, SemOK(s), s.list[Sem] # <<>>
  PROVE  Len(ResumeWithError(s, Sem).list[Sem]) = Len(s.list[Sem]) - 1
<1>1. s.list[Sem] \in Seq(Thread) /\ Head(s.list[Sem]) \in ToSet(s.list[Sem]) BY OnSem
<1> QED BY <1>1, ErrorSem, WithoutLen

\* All waiters, one after the other.
LEMMA ResetSem ==
  ASSUME NEW s, SemOK(s)
  PROVE  LET r == rt_ipc_list_resume_all(s, Sem)
         IN  /\ SemOK(r) /\ r.cur = s.cur
             /\ \A t \in Thread : r.stat[t] = "READY"
             /\ \A t \in Thread : r.err[t] = IF s.stat[t] = "SUSPEND" THEN "ERROR" ELSE s.err[t]
             /\ r.prio = s.prio /\ r.list[Sem] = <<>>
<1> DEFINE n == Len(s.list[Sem])
<1>1. n \in Nat BY OnSem
<1>2. PICK f : /\ f = [i \in 0..n |-> IF i = 0 THEN s ELSE ResumeWithError(f[i - 1], Sem)]
               /\ rt_ipc_list_resume_all(s, Sem) = f[n]
  BY <1>1, ResumeSteps
<1> HIDE DEF n
<1> DEFINE P(i) == /\ SemOK(f[i]) /\ f[i].cur = s.cur /\ f[i].prio = s.prio /\ Len(f[i].list[Sem]) = n - i
                   /\ \A t \in Thread :
                        f[i].err[t] = IF f[i].stat[t] = "READY" /\ s.stat[t] = "SUSPEND"
                                      THEN "ERROR" ELSE s.err[t]
                   /\ \A t \in Thread : f[i].stat[t] = "SUSPEND" => s.stat[t] = "SUSPEND"
           T == {i \in 0..n : ~P(i)}
<1>3. P(0)
  <2>1. f[0] = s BY <1>1, <1>2
  <2> QED BY <2>1, <1>1 DEF n
<1>4. ASSUME NEW i \in 0..n, i # n, P(i) PROVE P(i + 1)
  <2>1. i + 1 \in 0..n /\ i + 1 # 0 /\ (i + 1) - 1 = i BY <1>1, <1>4
  <2>2. f[i + 1] = ResumeWithError(f[i], Sem) BY <2>1, <1>2
  <2> DEFINE u == f[i]
             v == f[i + 1]
             h == Head(u.list[Sem])
  <2>3. SemOK(u) /\ u.cur = s.cur /\ u.prio = s.prio /\ Len(u.list[Sem]) = n - i BY <1>4
  <2>4. u.list[Sem] # <<>>
    <3>1. n - i # 0 BY <1>1, <1>4
    <3> QED BY <2>3, <3>1
  <2> HIDE DEF u, v
  <2>5. /\ h \in Thread /\ u.stat[h] = "SUSPEND" /\ v.cur = u.cur /\ v.prio = u.prio
        /\ Woken(u, v, h, "ERROR") /\ Len(v.list[Sem]) = Len(u.list[Sem]) - 1
    BY <2>2, <2>3, <2>4, ErrorSem, ResumeLen DEF u, v
  <2> HIDE DEF h
  <2>6. Len(v.list[Sem]) = n - (i + 1) BY <1>1, <2>1, <2>3, <2>5
  <2>7. \A t \in Thread :
          /\ v.stat[t] = IF t = h THEN "READY" ELSE u.stat[t]
          /\ v.err[t] = IF t = h THEN "ERROR" ELSE u.err[t]
    BY <2>3, <2>5, KernelFields DEF Woken, SemOK, KernelOK
  <2>8. \A t \in Thread :
          /\ u.err[t] = IF u.stat[t] = "READY" /\ s.stat[t] = "SUSPEND" THEN "ERROR" ELSE s.err[t]
          /\ u.stat[t] = "SUSPEND" => s.stat[t] = "SUSPEND"
    BY <1>4 DEF u
  <2>9. \A t \in Thread :
          /\ v.err[t] = IF v.stat[t] = "READY" /\ s.stat[t] = "SUSPEND" THEN "ERROR" ELSE s.err[t]
          /\ v.stat[t] = "SUSPEND" => s.stat[t] = "SUSPEND"
    BY <2>5, <2>7, <2>8
  <2> QED BY <2>3, <2>5, <2>6, <2>9 DEF Woken, v
<1>5. T = {}
  <2>1. SUFFICES ASSUME T # {} PROVE FALSE OBVIOUS
  <2> HIDE DEF P
  <2>0. T \in SUBSET Nat BY <1>1
  <2>2. PICK x \in T : \A y \in T : x <= y
    <3> HIDE DEF T
    <3> QED BY <2>0, <2>1, Minimum
  <2>3. x \in 0..n /\ ~P(x) BY <2>2
  <2>4. x # 0 BY <1>3, <2>3
  <2>5. x - 1 \in 0..n /\ x - 1 # n /\ x - 1 \notin T /\ (x - 1) + 1 = x BY <1>1, <2>2, <2>3, <2>4
  <2>6. P(x - 1) BY <2>5
  <2>7. P((x - 1) + 1) BY <1>4, <2>5, <2>6
  <2> QED BY <2>3, <2>5, <2>7
<1>6. P(n)
  <2>1. n \in 0..n BY <1>1
  <2> HIDE DEF P
  <2> QED BY <1>5, <2>1
<1> DEFINE r == f[n]
<1>7. SemOK(r) /\ r.cur = s.cur /\ r.prio = s.prio /\ Len(r.list[Sem]) = 0 BY <1>1, <1>6
<1>8. \A t \in Thread : r.err[t] = IF r.stat[t] = "READY" /\ s.stat[t] = "SUSPEND"
                                   THEN "ERROR" ELSE s.err[t]
  BY <1>6
<1> HIDE DEF r
<1>9. r.list[Sem] = <<>> BY <1>7, OnSem
<1>10. \A t \in Thread : r.stat[t] = "READY" BY <1>7, <1>9, OnSem
<1> QED BY <1>2, <1>7, <1>8, <1>9, <1>10, Zenon DEF n, r

-----------------------------------------------------------------------------
(* What a call returns, seen through the refinement mapping.               *)

Blocked == {"take_sched", "take_back"}
Result(p, s, t) ==
  IF p[t] \notin Blocked THEN "idle" ELSE IF s.stat[t] = "SUSPEND" THEN "waiting" ELSE s.err[t]

Results == [t \in Thread |-> Outcome(t)]

LEMMA OutcomeIs ==
  ASSUME SemOK(k), SemOK(k')
  PROVE  /\ Results = [t \in Thread |-> Result(pc, k, t)]
         /\ Results' = [t \in Thread |-> Result(pc', k', t)]
<1>1. \A t \in Thread : Outcome(t) = Result(pc, k, t)
  BY OnSem DEF Outcome, Waiters, InTake, Blocked, Result
<1>2. \A t \in Thread : Outcome(t)' = Result(pc', k', t)
  BY OnSem DEF Outcome, Waiters, InTake, Blocked, Result
<1> QED BY <1>1, <1>2 DEF Results

LEMMA WaitingIs ==
  ASSUME SemOK(k), Waits, k.err \in [Thread -> Error]
  PROVE  /\ Abstract!Waiting = {t \in Thread : k.stat[t] = "SUSPEND"}
         /\ \A t \in Thread : t \in Abstract!Waiting => Result(pc, k, t) = "waiting"
<1>1. \A t \in Thread : Outcome(t) = Result(pc, k, t)
  BY OnSem DEF Outcome, Waiters, InTake, Blocked, Result
<1>2. \A t \in Thread : Outcome(t) = "waiting" <=> k.stat[t] = "SUSPEND"
  BY <1>1 DEF Waits, InTake, Result, Blocked, Error
<1> QED BY <1>1, <1>2 DEF Abstract!Waiting

\* A step is one of the abstract semaphore, or none.
Refines == Abstract!Next \/ UNCHANGED Abstract!vars

LEMMA Undecided ==
  ASSUME SemOK(k), SemOK(k'), \A t \in Thread : Result(pc', k', t) = Result(pc, k, t)
  PROVE  Results' = Results
  BY OutcomeIs

LEMMA Decided ==
  ASSUME SemOK(k), SemOK(k'), NEW t \in Thread, NEW code, Result(pc', k', t) = code,
         \A u \in Thread \ {t} : Result(pc', k', u) = Result(pc, k, u)
  PROVE  Results' = [Results EXCEPT ![t] = code]
  BY OutcomeIs

\* The abstract steps, in terms of Results.
LEMMA AbstractSteps ==
  /\ value > 0 /\ value' = value - 1 /\ Results' = Results /\ UNCHANGED calls => Refines
  /\ UNCHANGED <<value, calls>> /\ Results' = Results => Refines
  /\ \A t \in Thread :
       /\ Results[t] = "idle" /\ value = 0 /\ Results' = [Results EXCEPT ![t] = "waiting"]
          /\ UNCHANGED <<value, calls>> => Refines
       /\ Results[t] \in {"EOK", "ETIMEOUT", "ERROR"} /\ Results' = [Results EXCEPT ![t] = "idle"]
          /\ UNCHANGED <<value, calls>> => Refines
       /\ t \in Abstract!Waiting /\ Results' = [Results EXCEPT ![t] = "EOK"]
          /\ UNCHANGED <<value, reset>> /\ released' = 1 - released => Refines
       /\ t \in Abstract!Waiting /\ Results' = [Results EXCEPT ![t] = "ETIMEOUT"]
          /\ UNCHANGED <<value, calls>> => Refines
       /\ t \in Abstract!Waiting /\ Results' = [Results EXCEPT ![t] = "ERROR"]
          /\ UNCHANGED <<value, calls>> => Refines
  /\ Abstract!Waiting = {} /\ Results' = Results /\ value' = (value + 1) % ValueSize
     /\ UNCHANGED reset /\ released' = 1 - released => Refines
  /\ value' \in 0..(ValueSize - 1) /\ reset' = 1 - reset /\ UNCHANGED released
     /\ Results' = [t \in Thread |-> IF t \in Abstract!Waiting THEN "ERROR" ELSE Results[t]]
     => Refines
<1> USE DEF Results, Refines, Abstract!Next, Abstract!vars, Abstract!calls, Abstract!Decide, calls
<1>1. value > 0 /\ value' = value - 1 /\ Results' = Results /\ UNCHANGED calls => Refines
  BY DEF Abstract!TakeToken
<1>2. UNCHANGED <<value, calls>> /\ Results' = Results => Refines OBVIOUS
<1>3. ASSUME NEW t \in Thread
      PROVE  /\ Results[t] = "idle" /\ value = 0 /\ Results' = [Results EXCEPT ![t] = "waiting"]
                /\ UNCHANGED <<value, calls>> => Refines
             /\ Results[t] \in {"EOK", "ETIMEOUT", "ERROR"} /\ Results' = [Results EXCEPT ![t] = "idle"]
                /\ UNCHANGED <<value, calls>> => Refines
             /\ t \in Abstract!Waiting /\ Results' = [Results EXCEPT ![t] = "EOK"]
                /\ UNCHANGED <<value, reset>> /\ released' = 1 - released => Refines
             /\ t \in Abstract!Waiting /\ Results' = [Results EXCEPT ![t] = "ETIMEOUT"]
                /\ UNCHANGED <<value, calls>> => Refines
             /\ t \in Abstract!Waiting /\ Results' = [Results EXCEPT ![t] = "ERROR"]
                /\ UNCHANGED <<value, calls>> => Refines
  BY DEF Abstract!Wait, Abstract!Return, Abstract!Grant, Abstract!Release, Abstract!Expire,
         Abstract!Fail
<1>4. Abstract!Waiting = {} /\ Results' = Results /\ value' = (value + 1) % ValueSize
      /\ UNCHANGED reset /\ released' = 1 - released => Refines
  BY DEF Abstract!Put, Abstract!Release
<1>5. value' \in 0..(ValueSize - 1) /\ reset' = 1 - reset /\ UNCHANGED released
      /\ Results' = [t \in Thread |-> IF t \in Abstract!Waiting THEN "ERROR" ELSE Results[t]]
      => Refines
  BY DEF Abstract!Reset
<1> HIDE DEF Results, Refines
<1> QED BY <1>1, <1>2, <1>3, <1>4, <1>5

-----------------------------------------------------------------------------
(* Each step keeps the invariant and is one of the abstract semaphore.     *)

LEMMA Facts ==
  ASSUME SemInv
  PROVE  /\ SemOK(k) /\ pc \in [Thread -> Label] /\ value \in 0..(ValueSize - 1)
         /\ k \in KernelState /\ k.err \in [Thread -> Error] /\ k.stat \in [Thread -> Stat]
         /\ Abstract!Waiting = {t \in Thread : k.stat[t] = "SUSPEND"}
         /\ (Waiters = <<>> <=> Nobody)
<1>1. k \in KernelState /\ SemOK(k) /\ Waits BY DEF SemInv, TypeOK
<1>2. k.err \in [Thread -> Error] /\ k.stat \in [Thread -> Stat] BY <1>1, KernelFields
<1>3. Abstract!Waiting = {t \in Thread : k.stat[t] = "SUSPEND"} BY <1>1, <1>2, WaitingIs
<1>4. Waiters = <<>> <=> Nobody BY <1>1, OnSem DEF Waiters, Nobody
<1> QED BY <1>1, <1>2, <1>3, <1>4 DEF SemInv, TypeOK

\* A step that leaves the threads alone, up to where they are in their calls.
LEMMA PlaceOnly ==
  ASSUME SemInv, NEW t \in Thread, k.cur = t, NEW l \in Label, Goto(t, l),
         UNCHANGED <<k, isr, value, calls>>,
         pc[t] \in Blocked => k.stat[t] = "READY",
         l \in Blocked <=> pc[t] \in Blocked, l # "take_sched", k.stat[t] = "READY",
         alive' \in {"alive", "dying", "gone"}, alive' = "gone" => Nobody
  PROVE  SemInv' /\ Refines
<1>1. pc' \in [Thread -> Label] /\ \A u \in Thread : pc'[u] = IF u = t THEN l ELSE pc[u]
  BY Facts DEF Goto
<1>2. \A u \in Thread : Result(pc', k', u) = Result(pc, k, u) BY <1>1 DEF Result, calls
<1>3. Refines BY <1>2, Facts, Undecided, AbstractSteps
<1>4. Waits' BY <1>1 DEF SemInv, Waits, InTake, Blocked
<1>5. Runner' BY <1>1 DEF SemInv, Runner
<1>6. TypeOK' BY <1>1 DEF SemInv, TypeOK, calls
<1>7. Nobody' <=> Nobody BY DEF Nobody
<1> QED BY <1>3, <1>4, <1>5, <1>6, <1>7 DEF SemInv

LEMMA TakeTokenStep ==
  ASSUME SemInv, value > 0, value' = value - 1, UNCHANGED <<k, isr, pc, alive, calls>>
  PROVE  SemInv' /\ Refines
<1>1. \A u \in Thread : Result(pc', k', u) = Result(pc, k, u) BY DEF Result
<1>2. Refines BY <1>1, Facts, Undecided, AbstractSteps
<1>3. value' \in 0..(ValueSize - 1) BY Facts, SemAssumption
<1>4. TypeOK' BY <1>3 DEF SemInv, TypeOK, calls
<1>5. Waits' /\ Runner' /\ (Nobody' <=> Nobody) /\ (isr' = "timer" => k'.timers # <<>>)
  BY DEF SemInv, Waits, Runner, InTake, Nobody
<1> QED BY <1>2, <1>4, <1>5 DEF SemInv

LEMMA TakeSuspendStep ==
  ASSUME SemInv, NEW t \in Thread, NEW time \in {Forever} \cup 1..MaxDelay, TakeSuspend(t, time)
  PROVE  SemInv' /\ Refines
<1> USE DEF TakeSuspend, Calls, Running
<1>1. t # Idle BY SemAssumption
<1>2. k.stat[t] = "READY" BY DEF SemInv, Runner
<1>3. /\ SemOK(k') /\ k'.cur = t
      /\ k'.stat = [k.stat EXCEPT ![t] = "SUSPEND"]
      /\ k'.err = [k.err EXCEPT ![t] = "EOK"]
  BY <1>1, <1>2, Facts, SuspendSem
<1>4. pc' \in [Thread -> Label] /\ \A u \in Thread : pc'[u] = IF u = t THEN "take_sched" ELSE pc[u]
  BY Facts DEF Goto, Label
<1>5. \A u \in Thread : /\ k'.stat[u] = IF u = t THEN "SUSPEND" ELSE k.stat[u]
                        /\ k'.err[u] = IF u = t THEN "EOK" ELSE k.err[u]
  BY <1>3, Facts
<1>6. Result(pc', k', t) = "waiting" /\ \A u \in Thread \ {t} : Result(pc', k', u) = Result(pc, k, u)
  BY <1>4, <1>5 DEF Result, Blocked
<1>7. Results' = [Results EXCEPT ![t] = "waiting"] BY <1>3, <1>6, Facts, Decided
<1>8. Results[t] = "idle" BY <1>3, Facts, OutcomeIs DEF Result, Blocked
<1>9. Refines BY <1>7, <1>8, AbstractSteps
<1>10. Waits' BY <1>4, <1>5 DEF SemInv, Waits, InTake
<1>11. Runner' BY <1>3, <1>4 DEF Runner
<1>12. TypeOK' BY <1>3, <1>4 DEF SemInv, TypeOK, calls, SemOK, KernelOK
<1> QED BY <1>3, <1>9, <1>10, <1>11, <1>12 DEF SemInv

LEMMA ScheduleTo ==
  ASSUME SemInv, NEW t \in Thread, NEW from \in Label, NEW to \in Label,
         from \in Blocked <=> to \in Blocked,
         ScheduleStep(t, from, to), UNCHANGED <<value, alive, calls>>
  PROVE  SemInv' /\ Refines
<1> USE DEF ScheduleStep, Running
<1>1. /\ SemOK(k') /\ k'.stat = k.stat /\ k'.err = k.err /\ k'.timers = k.timers
      /\ k'.cur \in Thread /\ k'.stat[k'.cur] = "READY"
  BY Facts, ScheduleSem DEF Steady
<1>2. pc' \in [Thread -> Label] /\ \A u \in Thread : pc'[u] = IF u = t THEN to ELSE pc[u]
  BY Facts DEF Goto
<1>3. \A u \in Thread : Result(pc', k', u) = Result(pc, k, u) BY <1>1, <1>2 DEF Result
<1>4. Refines BY <1>1, <1>3, Facts, Undecided, AbstractSteps
<1>5. Waits' BY <1>1, <1>2 DEF SemInv, Waits, InTake, Blocked
<1>6. Runner' BY <1>1 DEF Runner
<1>7. TypeOK' BY <1>1, <1>2 DEF SemInv, TypeOK, calls, SemOK, KernelOK
<1>8. Nobody' <=> Nobody BY <1>1 DEF Nobody
<1> QED BY <1>1, <1>4, <1>5, <1>6, <1>7, <1>8 DEF SemInv

LEMMA TakeBackStep ==
  ASSUME SemInv, NEW t \in Thread, TakeBack(t)
  PROVE  SemInv' /\ Refines
<1> USE DEF TakeBack, Running
<1>1. k.stat[t] = "READY" /\ k.cur = t BY DEF SemInv, Runner
<1>2. pc' \in [Thread -> Label] /\ \A u \in Thread : pc'[u] = IF u = t THEN "run" ELSE pc[u]
  BY Facts DEF Goto, Label
<1>3. Result(pc', k', t) = "idle" /\ \A u \in Thread \ {t} : Result(pc', k', u) = Result(pc, k, u)
  BY <1>2 DEF Result, Blocked
<1>4. Results' = [Results EXCEPT ![t] = "idle"] BY <1>3, Facts, Decided
<1>5. Results[t] \in {"EOK", "ETIMEOUT", "ERROR"}
  BY <1>1, Facts, OutcomeIs DEF Result, Blocked, Error
<1>6. Refines BY <1>4, <1>5, AbstractSteps
<1>7. Waits' BY <1>1, <1>2 DEF SemInv, Waits, InTake
<1>8. Runner' BY <1>1, <1>2 DEF SemInv, Runner
<1>9. TypeOK' BY <1>2 DEF SemInv, TypeOK, calls
<1>10. Nobody' <=> Nobody BY DEF Nobody
<1> QED BY <1>6, <1>7, <1>8, <1>9, <1>10 DEF SemInv

\* One waiter, u, is made ready with code e; the running thread goes on or the
\* processor goes to a ready thread.
LEMMA WakeOne ==
  ASSUME SemInv, NEW u \in Thread, k.stat[u] = "SUSPEND", NEW e \in Error,
         Woken(k, k', u, e),
         pc' \in [Thread -> Label], \A v \in Thread : pc'[v] \in Blocked <=> pc[v] \in Blocked,
         isr' \in {"none", "timer"}, isr' = "timer" => k'.timers # <<>>,
         k'.cur \in Thread, pc'[k'.cur] # "take_sched" => k'.stat[k'.cur] = "READY",
         UNCHANGED value, alive' = alive, released' \in {0, 1}, reset' \in {0, 1}
  PROVE  /\ SemInv'
         /\ u \in Abstract!Waiting /\ Results' = [Results EXCEPT ![u] = e]
<1>1. \A v \in Thread : /\ k'.stat[v] = IF v = u THEN "READY" ELSE k.stat[v]
                        /\ k'.err[v] = IF v = u THEN e ELSE k.err[v]
  BY Facts DEF Woken
<1>2. pc[u] \in Blocked BY DEF SemInv, Waits, InTake, Blocked
<1>3. Result(pc', k', u) = e /\ \A v \in Thread \ {u} : Result(pc', k', v) = Result(pc, k, v)
  BY <1>1, <1>2 DEF Result
<1>4. SemOK(k') BY DEF Woken
<1>5. Results' = [Results EXCEPT ![u] = e] BY <1>3, <1>4, Facts, Decided
<1>6. Waits' BY <1>1 DEF SemInv, Waits, InTake, Blocked
<1>7. TypeOK' BY <1>4 DEF SemInv, TypeOK, SemOK, KernelOK
<1>8. ~Nobody BY DEF Nobody
<1>9. u \in Abstract!Waiting BY Facts
<1> QED BY <1>4, <1>5, <1>6, <1>7, <1>8, <1>9 DEF SemInv, Runner

LEMMA ReleaseStep ==
  ASSUME SemInv, NEW t \in Thread, Release(t)
  PROVE  SemInv' /\ Refines
<1> USE DEF Release, Calls, Running
<1>1. k.cur = t /\ k.stat[t] = "READY" BY DEF SemInv, Runner
<1>2. /\ pc' \in [Thread -> Label] /\ pc'[t] # "take_sched"
      /\ \A v \in Thread : pc'[v] \in Blocked <=> pc[v] \in Blocked
  BY Facts DEF Goto, Label, Blocked
<1>3. released' \in {0, 1} /\ reset' \in {0, 1} BY DEF SemInv, TypeOK
<1>4. CASE Waiters # <<>>
  <2> DEFINE u == Head(Waiters)
  <2>1. k' = rt_ipc_list_resume(k, Sem) /\ value' = value
    BY <1>4 DEF ReleaseKernel, ReleaseValue, Waiters
  <2>2. /\ u \in Thread /\ k.stat[u] = "SUSPEND" /\ k'.cur = t
        /\ SemOK(k') /\ k'.stat = [k.stat EXCEPT ![u] = "READY"] /\ k'.err = k.err
    BY <1>1, <1>4, <2>1, Facts, ResumeSem DEF Waiters
  <2> HIDE DEF u
  <2>3. k.err[u] = "EOK" BY <2>2 DEF SemInv, Waits
  <2>4. Woken(k, k', u, "EOK") BY <2>2, <2>3, Facts DEF Woken
  <2>5. k'.stat[k'.cur] = "READY" BY <1>1, <2>2, Facts
  <2>6. SemInv' /\ u \in Abstract!Waiting /\ Results' = [Results EXCEPT ![u] = "EOK"]
    BY <1>2, <1>3, <2>1, <2>2, <2>4, <2>5, WakeOne DEF SemInv, TypeOK, Error
  <2> QED BY <2>1, <2>2, <2>6, AbstractSteps
<1>5. CASE Waiters = <<>>
  <2>1. k' = k /\ value' = (value + 1) % ValueSize /\ Nobody
    BY <1>5, Facts DEF ReleaseKernel, ReleaseValue, Waiters
  <2>2. value' \in 0..(ValueSize - 1) BY <2>1, Facts, SemAssumption
  <2>3. \A v \in Thread : Result(pc', k', v) = Result(pc, k, v) BY <1>2, <2>1 DEF Result
  <2>4. Abstract!Waiting = {} BY <2>1, Facts DEF Nobody
  <2>5. Refines BY <2>1, <2>3, <2>4, Facts, Undecided, AbstractSteps
  <2>6. Waits' /\ Nobody' BY <1>2, <2>1 DEF Waits, Nobody
  <2>7. Runner' BY <1>1, <2>1 DEF Runner
  <2>8. TypeOK' BY <1>2, <1>3, <2>1, <2>2 DEF SemInv, TypeOK
  <2> QED BY <2>1, <2>5, <2>6, <2>7, <2>8 DEF SemInv
<1> QED BY <1>4, <1>5

LEMMA IsrReleaseStep ==
  ASSUME SemInv, IsrRelease
  PROVE  SemInv' /\ Refines
<1> USE DEF IsrRelease
<1>1. released' \in {0, 1} /\ reset' \in {0, 1} BY DEF SemInv, TypeOK
<1>2. CASE Waiters # <<>>
  <2> DEFINE u == Head(Waiters)
             s == rt_ipc_list_resume(k, Sem)
  <2>1. k' = rt_schedule(s) /\ value' = value
    BY <1>2 DEF ReleaseKernel, ReleaseValue, Waiters
  <2>2. /\ u \in Thread /\ k.stat[u] = "SUSPEND"
        /\ SemOK(s) /\ s.stat = [k.stat EXCEPT ![u] = "READY"] /\ s.err = k.err
    BY <1>2, Facts, ResumeSem DEF Waiters
  <2> HIDE DEF u, s
  <2>3. Steady(s, k') /\ k'.cur \in Thread /\ k'.stat[k'.cur] = "READY"
    BY <2>1, <2>2, ScheduleSem
  <2>4. k.err[u] = "EOK" BY <2>2 DEF SemInv, Waits
  <2>5. Woken(k, k', u, "EOK") BY <2>2, <2>3, <2>4, Facts DEF Woken, Steady
  <2>6. SemInv' /\ u \in Abstract!Waiting /\ Results' = [Results EXCEPT ![u] = "EOK"]
    BY <1>1, <2>1, <2>2, <2>3, <2>5, Facts, WakeOne DEF SemInv, TypeOK, Error
  <2> QED BY <2>1, <2>2, <2>6, AbstractSteps
<1>3. CASE Waiters = <<>>
  <2>1. k' = k /\ value' = (value + 1) % ValueSize /\ Nobody
    BY <1>3, Facts DEF ReleaseKernel, ReleaseValue, Waiters
  <2>2. value' \in 0..(ValueSize - 1) BY <2>1, Facts, SemAssumption
  <2>3. \A v \in Thread : Result(pc', k', v) = Result(pc, k, v) BY <2>1 DEF Result
  <2>4. Abstract!Waiting = {} BY <2>1, Facts DEF Nobody
  <2>5. Refines BY <2>1, <2>3, <2>4, Facts, Undecided, AbstractSteps
  <2>6. Waits' /\ Nobody' BY <2>1 DEF Waits, Nobody
  <2>7. Runner' BY <2>1 DEF SemInv, Runner
  <2>8. TypeOK' BY <1>1, <2>1, <2>2 DEF SemInv, TypeOK
  <2> QED BY <2>1, <2>5, <2>6, <2>7, <2>8 DEF SemInv
<1> QED BY <1>2, <1>3

LEMMA ResetStep ==
  ASSUME SemInv, NEW t \in Thread, NEW v \in 0..(ValueSize - 1), Reset(t, v)
  PROVE  SemInv' /\ Refines
<1> USE DEF Reset, Calls, Running
<1>1. /\ pc' \in [Thread -> Label] /\ k.cur = t
      /\ \A u \in Thread : pc'[u] \in Blocked <=> pc[u] \in Blocked
  BY Facts DEF Goto, Label, Blocked
<1>2. /\ SemOK(k') /\ k'.cur = t /\ Nobody'
      /\ \A u \in Thread : k'.err[u] = IF k.stat[u] = "SUSPEND" THEN "ERROR" ELSE k.err[u]
  BY <1>1, Facts, ResetSem DEF Waiters, Nobody
<1>3. \A u \in Thread : k.stat[u] = "SUSPEND" => pc[u] \in Blocked
  BY DEF SemInv, Waits, InTake, Blocked
<1>4. \A u \in Thread : Result(pc', k', u) = IF u \in Abstract!Waiting THEN "ERROR"
                                             ELSE Result(pc, k, u)
  BY <1>1, <1>2, <1>3, Facts DEF Result, Nobody
<1>5. Results' = [u \in Thread |-> IF u \in Abstract!Waiting THEN "ERROR" ELSE Results[u]]
  BY <1>2, <1>4, Facts, OutcomeIs
<1>6. Refines BY <1>5, AbstractSteps
<1>7. Waits' BY <1>2 DEF Waits, Nobody
<1>8. Runner' BY <1>2 DEF Runner, Nobody
<1>9. TypeOK' BY <1>1, <1>2 DEF SemInv, TypeOK, SemOK, KernelOK
<1> QED BY <1>2, <1>6, <1>7, <1>8, <1>9 DEF SemInv

LEMMA CreateStep ==
  ASSUME SemInv, NEW t \in Thread, NEW v \in 0..(ValueSize - 1), Create(t, v)
  PROVE  SemInv' /\ Refines
<1> USE DEF Create, Running
<1>1. Nobody /\ k.list[Sem] = <<>> BY Facts DEF SemInv, Waiters
<1>2. k' = k
  <2>1. Sem \in ListHead /\ k.list \in [ListHead -> Seq(Thread)]
    BY Facts, KernelFields, SemAssumption DEF ListHead
  <2>2. [k.list EXCEPT ![Sem] = <<>>] = k.list BY <1>1, <2>1
  <2>3. k' = [k EXCEPT !.list = [k.list EXCEPT ![Sem] = <<>>]] BY Facts DEF KernelState
  <2> QED BY <2>2, <2>3, Facts DEF KernelState
<1>3. \A u \in Thread : Result(pc', k', u) = Result(pc, k, u) BY <1>2 DEF Result
<1>4. Results' = Results BY <1>2, <1>3, Facts, Undecided
<1>5. Abstract!Waiting = {} BY <1>1, Facts DEF Nobody
<1>6. Results = [u \in Thread |-> IF u \in Abstract!Waiting THEN "ERROR" ELSE Results[u]]
  BY <1>5 DEF Results
<1>7. Refines BY <1>4, <1>6, AbstractSteps
<1>8. Waits' /\ Runner' /\ Nobody' BY <1>1, <1>2 DEF SemInv, Waits, Runner, InTake, Nobody
<1>9. TypeOK' BY <1>2 DEF SemInv, TypeOK
<1> QED BY <1>2, <1>7, <1>8, <1>9 DEF SemInv

LEMMA DeleteResumeStep ==
  ASSUME SemInv, NEW t \in Thread, DeleteResume(t)
  PROVE  SemInv' /\ Refines
<1> USE DEF DeleteResume, Running
<1> DEFINE u == Head(Waiters)
<1>1. u \in Thread /\ k.stat[u] = "SUSPEND" /\ Woken(k, k', u, "ERROR") /\ k'.cur = t
  BY Facts, ErrorSem DEF Waiters
<1>2. /\ pc' \in [Thread -> Label] /\ k.cur = t
      /\ \A v \in Thread : pc'[v] \in Blocked <=> pc[v] \in Blocked
  BY Facts DEF Goto, Label, Blocked
<1> HIDE DEF u
<1>3. k.stat[t] = "READY" BY DEF SemInv, Runner
<1>4. k'.stat[t] = "READY" BY <1>1, <1>3, Facts DEF Woken
<1>5. SemInv' /\ u \in Abstract!Waiting /\ Results' = [Results EXCEPT ![u] = "ERROR"]
  BY <1>1, <1>2, <1>4, WakeOne DEF SemInv, TypeOK, Error, calls
<1> QED BY <1>1, <1>5, AbstractSteps

LEMMA TickStep ==
  ASSUME SemInv, Tick
  PROVE  SemInv' /\ Refines
<1> USE DEF Tick, rt_tick_increase
<1>1. /\ Steady(k, k')
      /\ k'.cur = k.cur \/ (k'.cur \in Thread /\ k'.stat[k'.cur] = "READY")
  BY Facts, TickSem DEF SemInv, Runner
<1>2. \A u \in Thread : Result(pc', k', u) = Result(pc, k, u) BY <1>1 DEF Result, Steady
<1>3. Refines BY <1>1, <1>2, Facts, Undecided, AbstractSteps DEF Steady
<1>4. Waits' /\ Runner' /\ (Nobody' <=> Nobody)
  BY <1>1 DEF SemInv, Waits, Runner, InTake, Nobody, Steady
<1>5. isr' \in {"none", "timer"} /\ (isr' = "timer" => k'.timers # <<>>)
  BY DEF IsrAfter, TimerExpired
<1>6. TypeOK' BY <1>1, <1>5 DEF SemInv, TypeOK, Steady, SemOK, KernelOK, calls
<1> QED BY <1>1, <1>3, <1>4, <1>5, <1>6 DEF SemInv, Steady

LEMMA TimerCheckStep ==
  ASSUME SemInv, TimerCheck
  PROVE  SemInv' /\ Refines
<1> USE DEF TimerCheck, rt_timer_check
<1> DEFINE u == Head(k.timers)
<1>1. /\ u \in Thread /\ k.stat[u] = "SUSPEND" /\ Woken(k, k', u, "ETIMEOUT")
      /\ k'.cur \in Thread /\ k'.stat[k'.cur] = "READY"
  BY Facts, FireSem DEF SemInv
<1> HIDE DEF u
<1>2. isr' \in {"none", "timer"} /\ (isr' = "timer" => k'.timers # <<>>)
  BY DEF IsrAfter, TimerExpired
<1>3. SemInv' /\ u \in Abstract!Waiting /\ Results' = [Results EXCEPT ![u] = "ETIMEOUT"]
  BY <1>1, <1>2, Facts, WakeOne DEF SemInv, TypeOK, Error, calls
<1> QED BY <1>1, <1>3, AbstractSteps

LEMMA FirstState == Init => SemInv /\ Abstract!Init
<1> SUFFICES ASSUME Init PROVE SemInv /\ Abstract!Init OBVIOUS
<1> USE DEF Init
<1>1. /\ KernelOK(k) /\ k.nest = 0 /\ k.cur \in Thread
      /\ \A t \in Thread : k.stat[t] = "READY" /\ ~Off(k, t)
  BY BootedOK, SemAssumption
<1>2. SemOK(k) /\ Waits /\ Nobody /\ Runner BY <1>1 DEF SemOK, Waits, Nobody, Runner
<1>3. value \in 0..(ValueSize - 1) BY SemAssumption
<1>4. TypeOK BY <1>1, <1>3 DEF TypeOK, Label, KernelOK
<1>5. \A t \in Thread : Outcome(t) = "idle" BY DEF Outcome, InTake
<1>6. Abstract!Init BY <1>3, <1>5 DEF Abstract!Init
<1> QED BY <1>2, <1>4, <1>6 DEF SemInv

LEMMA EachStep == SemInv /\ [Next]_vars => SemInv' /\ Refines
<1> SUFFICES ASSUME SemInv, [Next]_vars PROVE SemInv' /\ Refines OBVIOUS
<1>1. ASSUME NEW t \in Thread, Step(t) PROVE SemInv' /\ Refines
  <2>1. CASE TakeToken(t) BY <2>1, TakeTokenStep DEF TakeToken
  <2>2. CASE \E time \in {Forever} \cup 1..MaxDelay : TakeSuspend(t, time)
    BY <2>2, TakeSuspendStep
  <2>3. CASE TakeSchedule(t) BY <2>3, ScheduleTo DEF TakeSchedule, Label, Blocked
  <2>4. CASE TakeBack(t) BY <2>4, TakeBackStep
  <2>5. CASE Release(t) BY <2>5, ReleaseStep
  <2>6. CASE Schedule(t) BY <2>6, ScheduleTo DEF Schedule, Label, Blocked
  <2>7. CASE \E v \in 0..(ValueSize - 1) : Reset(t, v) \/ Create(t, v)
    BY <2>7, ResetStep, CreateStep
  <2>8. CASE Delete(t) \/ DeleteTest(t) \/ DeleteObject(t)
    <3> USE DEF Delete, DeleteTest, DeleteObject, Calls, Running
    <3>1. k.cur = t /\ k.stat[t] = "READY" /\ pc[t] \notin Blocked
      BY <2>8 DEF SemInv, Runner, Blocked
    <3>2. \E l \in Label \ Blocked : Goto(t, l) BY <2>8 DEF Label, Blocked
    <3>3. alive' \in {"alive", "dying", "gone"} /\ (alive' = "gone" => Nobody)
      BY <2>8, Facts DEF SemInv, TypeOK
    <3>4. UNCHANGED <<k, isr, value, calls>> BY <2>8
    <3> QED BY <3>1, <3>2, <3>3, <3>4, PlaceOnly DEF Blocked
  <2>9. CASE DeleteResume(t) BY <2>9, DeleteResumeStep
  <2> QED BY <1>1, <2>1, <2>2, <2>3, <2>4, <2>5, <2>6, <2>7, <2>8, <2>9 DEF Step
<1>2. ASSUME Interrupt PROVE SemInv' /\ Refines
  BY <1>2, TickStep, TimerCheckStep, IsrReleaseStep, TakeTokenStep DEF Interrupt, IsrTryTake
<1>3. ASSUME UNCHANGED vars PROVE SemInv' /\ Refines
  <2> USE <1>3 DEF vars, calls
  <2>1. SemInv'
    BY DEF SemInv, TypeOK, Waits, InTake, Runner, Nobody
  <2>2. \A u \in Thread : Result(pc', k', u) = Result(pc, k, u) BY DEF Result
  <2>3. Refines BY <2>2, Facts, Undecided, AbstractSteps
  <2> QED BY <2>1, <2>3
<1> QED BY <1>1, <1>2, <1>3 DEF Next

-----------------------------------------------------------------------------
(* Theorems, for any instance.                                             *)

\* The invariant that carries the others: who is suspended waits in a take and
\* is on the list, and nobody is while a token is there.
THEOREM SemInvariance == Spec => []SemInv
<1>1. Init => SemInv BY FirstState
<1>2. SemInv /\ [Next]_vars => SemInv' BY EachStep
<1> QED BY <1>1, <1>2, PTL DEF Spec

\* The counter stays in its range and every kernel field in its type.
THEOREM SemTypeCorrect == Spec => []TypeOK
<1>1. SemInv => TypeOK BY DEF SemInv
<1> QED BY <1>1, SemInvariance, PTL

\* rt_sem_take, rt_sem_release and the timeouts never leave a token counted
\* while a thread sleeps on the list.
THEOREM NoTokenIsIdle == Spec => []NoIdleToken
<1>1. SemInv => NoIdleToken
  BY Facts DEF SemInv, Nobody, NoIdleToken, Abstract!NoIdleToken
<1> QED BY <1>1, SemInvariance, PTL

\* Release, reset, delete and timeout, in any order: a thread is suspended only
\* in a take and on the list, where the next of them finds it.
THEOREM NoWaiterIsLost == Spec => []NoLostWaiter
<1>1. SemInv => NoLostWaiter
  BY OnSem DEF SemInv, Waits, NoLostWaiter, Waiters
<1> QED BY <1>1, SemInvariance, PTL

\* The semaphore of ipc.c implements the abstract one: whoever takes a waiter
\* off the list decides what its call returns, and each token is counted or
\* handed over, once.
THEOREM SemaphoreRefines == Spec => ImplementsSemaphore
<1>1. Init => Abstract!Init BY FirstState
<1>2. SemInv /\ [Next]_vars => [Abstract!Next]_Abstract!vars BY EachStep DEF Refines
<1> QED BY <1>1, <1>2, SemInvariance, PTL DEF Spec, ImplementsSemaphore, Abstract!Spec

-----------------------------------------------------------------------------
(* The order in which the semaphore wakes.                                 *)

InOrder == Flag = "PRIO" => Ordered(k.prio, Waiters)

WokeFirst ==
  \A t, u \in ToSet(Waiters) :
    Flag = "PRIO" /\ k.prio[u] < k.prio[t] /\ u \in ToSet(Waiters')
      => t \in ToSet(Waiters') \/ k'.err[t] = "ETIMEOUT"

LEMMA WaitersAre ==
  ASSUME SemInv
  PROVE  /\ Waiters \in Seq(Thread) /\ k.prio \in [Thread -> Prio] /\ NoDup(Waiters)
         /\ \A t \in Thread : t \in ToSet(Waiters) <=> k.stat[t] = "SUSPEND"
<1>1. SemOK(k) BY Facts
<1>2. NoDup(Waiters) BY <1>1, SemAssumption DEF SemOK, KernelOK, Apart, ListHead, Waiters
<1>3. k.prio \in [Thread -> Prio] BY <1>1, KernelFields DEF SemOK, KernelOK
<1> QED BY <1>1, <1>2, <1>3, OnSem DEF Waiters

\* Nobody leaves the list, or all do.
LEMMA NobodyLeaves ==
  ASSUME SemInv, InOrder, k'.prio = k.prio, Waiters' = Waiters
  PROVE  InOrder' /\ WokeFirst
  BY DEF InOrder, WokeFirst

LEMMA AllLeave ==
  ASSUME k'.list[Sem] = <<>>
  PROVE  InOrder' /\ WokeFirst
  BY DEF InOrder, WokeFirst, Waiters, Ordered, ToSet

\* The first waiter leaves, or one that times out.
LEMMA OneLeaves ==
  ASSUME SemInv, InOrder, k'.prio = k.prio, NEW h, Waiters' = Without(Waiters, h),
         h = Head(Waiters) \/ k'.err[h] = "ETIMEOUT"
  PROVE  InOrder' /\ WokeFirst
<1>1. InOrder' BY WaitersAre, RemoveOrdered DEF InOrder
<1>2. ASSUME NEW t \in ToSet(Waiters), NEW u \in ToSet(Waiters), Flag = "PRIO",
             k.prio[u] < k.prio[t], u \in ToSet(Waiters')
      PROVE  t \in ToSet(Waiters') \/ k'.err[t] = "ETIMEOUT"
  <2>1. ToSet(Waiters') = ToSet(Waiters) \ {h} BY WaitersAre, RemoveList
  <2>2. CASE h = Head(Waiters)
    <3>1. k.prio[h] <= k.prio[u] BY <1>2, <2>2, WaitersAre, OrderedHead DEF InOrder
    <3>2. t \in Thread /\ u \in Thread /\ ToSet(Waiters) \subseteq Thread BY WaitersAre, EmptyList
    <3>3. k.prio[t] \in Int /\ k.prio[u] \in Int BY <3>2, WaitersAre, BoundAssumption DEF Prio
    <3>4. t # h BY <1>2, <3>1, <3>3
    <3> QED BY <2>1, <3>4
  <2>3. CASE k'.err[h] = "ETIMEOUT" BY <2>1, <2>3
  <2> QED BY <2>2, <2>3
<1> QED BY <1>1, <1>2 DEF WokeFirst

LEMMA SuspendInOrder ==
  ASSUME SemInv, InOrder, NEW t \in Thread, NEW time \in {Forever} \cup 1..MaxDelay,
         TakeSuspend(t, time)
  PROVE  InOrder' /\ WokeFirst
<1> DEFINE a == [k EXCEPT !.err[t] = "EOK"]
           b == rt_ipc_list_suspend(a, Sem, t, Flag)
           c == rt_timer_start(b, t, time)
<1>1. t # Idle /\ k.cur = t /\ pc[t] = "run" /\ k' = IF time = Forever THEN b ELSE c
  BY SemAssumption DEF TakeSuspend, Calls, Running, SuspendTaker
<1>2. k.stat[t] = "READY" BY <1>1 DEF SemInv, Runner
<1>3. KernelOK(a) /\ a.prio = k.prio /\ a.list = k.list /\ a.stat[t] = "READY"
  BY <1>2, Facts, SetError DEF SemOK, Error
<1> HIDE DEF a
<1>4. Sem \in WaitList /\ t \in Thread \ {Idle} BY <1>1, SemAssumption
<1>5. Flag = "PRIO" => Ordered(b.prio, b.list[Sem])
  <2>1. Flag = "PRIO" /\ Ordered(a.prio, a.list[Sem]) => Ordered(b.prio, b.list[Sem])
    BY <1>3, <1>4, SuspendOrdered
  <2> QED BY <1>3, <2>1 DEF InOrder, Waiters
<1>6. KernelOK(b) BY <1>3, <1>4, ListSuspend
<1> HIDE DEF b
<1>7. c.prio = b.prio /\ c.list[Sem] = b.list[Sem]
  BY <1>4, <1>6, TimerCodes, QueueMoves DEF Codes, Unmoved, KernelOK
<1>8. InOrder' BY <1>1, <1>5, <1>7 DEF InOrder, Waiters
<1>9. \A u \in Thread : k.stat[u] = "SUSPEND" => k'.stat[u] = "SUSPEND"
  <2>1. k'.stat = [k.stat EXCEPT ![t] = "SUSPEND"]
    BY <1>2, <1>4, Facts, SuspendSem DEF TakeSuspend
  <2> QED BY <2>1, Facts
<1>10. SemInv' BY TakeSuspendStep
<1>11. Waiters' \in Seq(Thread) /\ \A u \in Thread : u \in ToSet(Waiters') <=> k'.stat[u] = "SUSPEND"
  BY <1>10, Facts, OnSem DEF SemInv, Waiters
<1>12. \A u \in ToSet(Waiters) : u \in Thread BY WaitersAre, EmptyList
<1>13. \A u \in ToSet(Waiters) : u \in ToSet(Waiters')
  BY <1>9, <1>11, <1>12, WaitersAre
<1> QED BY <1>8, <1>13 DEF WokeFirst

LEMMA ReleaseInOrder ==
  ASSUME SemInv, InOrder, Waiters # <<>>,
         LET s == rt_ipc_list_resume(k, Sem) IN k' = s \/ k' = rt_schedule(s)
  PROVE  InOrder' /\ WokeFirst
<1> DEFINE s == rt_ipc_list_resume(k, Sem)
<1>1. SemOK(s) /\ s.prio = k.prio /\ s.list[Sem] = Without(k.list[Sem], Head(k.list[Sem]))
  BY Facts, ResumeSem DEF Waiters
<1> HIDE DEF s
<1>2. rt_schedule(s).prio = s.prio /\ rt_schedule(s).list[Sem] = s.list[Sem]
  BY <1>1, QueueCodes, QueueMoves, ThreadAssumption, SemAssumption DEF Codes, Unmoved, SemOK, KernelOK
<1>3. k'.prio = k.prio /\ Waiters' = Without(Waiters, Head(Waiters))
  BY <1>1, <1>2 DEF s, Waiters
<1> QED BY <1>3, OneLeaves

\* Every step keeps the list in order and wakes in it.
LEMMA OrderStep ==
  ASSUME SemInv, InOrder, [Next]_vars
  PROVE  InOrder' /\ WokeFirst
<1>1. ASSUME k' = k PROVE InOrder' /\ WokeFirst BY <1>1, NobodyLeaves DEF Waiters
<1>2. ASSUME k' = rt_schedule(k) PROVE InOrder' /\ WokeFirst
  <2>1. k'.prio = k.prio /\ Waiters' = Waiters
    BY <1>2, Facts, QueueCodes, QueueMoves, ThreadAssumption, SemAssumption DEF Codes, Unmoved, Waiters
  <2> QED BY <2>1, NobodyLeaves
<1>3. ASSUME NEW t \in Thread, Step(t) PROVE InOrder' /\ WokeFirst
  <2>1. CASE TakeToken(t) \/ TakeBack(t) \/ Delete(t) \/ DeleteTest(t) \/ DeleteObject(t)
    BY <1>1, <2>1 DEF TakeToken, TakeBack, Delete, DeleteTest, DeleteObject
  <2>2. CASE \E time \in {Forever} \cup 1..MaxDelay : TakeSuspend(t, time)
    BY <2>2, SuspendInOrder
  <2>3. CASE TakeSchedule(t) \/ Schedule(t)
    BY <1>2, <2>3 DEF TakeSchedule, Schedule, ScheduleStep
  <2>4. CASE Release(t)
    <3>1. CASE Waiters # <<>>
      BY <2>4, <3>1, ReleaseInOrder DEF Release, ReleaseKernel, Waiters
    <3>2. CASE Waiters = <<>> BY <1>1, <2>4, <3>2 DEF Release, ReleaseKernel, Waiters
    <3> QED BY <3>1, <3>2
  <2>5. ASSUME NEW v \in 0..(ValueSize - 1), Reset(t, v) PROVE InOrder' /\ WokeFirst
    <3>1. k'.list[Sem] = <<>> BY <2>5, Facts, ResetSem DEF Reset, Waiters
    <3> QED BY <3>1, AllLeave
  <2>6. ASSUME NEW v \in 0..(ValueSize - 1), Create(t, v) PROVE InOrder' /\ WokeFirst
    <3>1. k'.list[Sem] = <<>>
      <4>1. Sem \in ListHead /\ k.list \in [ListHead -> Seq(Thread)]
        BY Facts, KernelFields, SemAssumption DEF ListHead
      <4> QED BY <2>6, <4>1, Facts DEF Create, KernelState
    <3> QED BY <3>1, AllLeave
  <2>7. CASE DeleteResume(t)
    <3>1. k'.prio = k.prio /\ Waiters' = Without(Waiters, Head(Waiters))
      BY <2>7, Facts, ErrorSem DEF DeleteResume, Waiters
    <3> QED BY <3>1, OneLeaves
  <2> QED BY <1>3, <2>1, <2>2, <2>3, <2>4, <2>5, <2>6, <2>7 DEF Step
<1>4. CASE Tick
  <2>1. k' = TickIncrease(k) /\ k.cur \in Thread /\ (k.stat[k.cur] = "READY" => ~Off(k, k.cur))
    BY <1>4, Facts DEF Tick, rt_tick_increase, SemInv, Runner, SemOK
  <2>2. k'.prio = k.prio /\ Unmoved(k, k')
    BY <2>1, Facts, TickCodes, TickSame DEF Codes, SemOK
  <2> QED BY <2>2, NobodyLeaves, SemAssumption DEF Unmoved, Waiters
<1>5. CASE TimerCheck
  <2> DEFINE h == Head(k.timers)
  <2>1. k' = TimerFire(k) /\ k.timers # <<>> BY <1>5 DEF TimerCheck, rt_timer_check, SemInv
  <2>2. k'.prio = k.prio /\ k'.err = [k.err EXCEPT ![h] = "ETIMEOUT"] /\ Left(k, k', h)
    BY <2>1, Facts, FireCodes, FireMoves DEF SemOK
  <2>3. h \in Thread BY <2>1, Facts, FireSem
  <2>4. Waiters' = Without(Waiters, h) /\ k'.err[h] = "ETIMEOUT"
    BY <2>2, <2>3, Facts, SemAssumption DEF Left, Waiters
  <2> QED BY <2>2, <2>4, OneLeaves
<1>6. CASE IsrRelease
  <2>1. CASE Waiters # <<>>
    BY <1>6, <2>1, ReleaseInOrder DEF IsrRelease, ReleaseKernel, Waiters
  <2>2. CASE Waiters = <<>> BY <1>1, <1>6, <2>2 DEF IsrRelease
  <2> QED BY <2>1, <2>2
<1>7. CASE IsrTryTake \/ UNCHANGED vars BY <1>1, <1>7 DEF IsrTryTake, vars
<1> QED BY <1>3, <1>4, <1>5, <1>6, <1>7 DEF Next, Interrupt

\* With RT_IPC_FLAG_PRIO, release and delete wake the waiters from the highest
\* priority down: whoever sleeps on is never above a thread that was woken, but
\* for one whose timeout came first.
THEOREM HighestIsWokenFirst == Spec => WakesHighestFirst
<1>1. Init => InOrder
  <2> SUFFICES ASSUME Init PROVE Waiters = <<>> BY DEF InOrder, Ordered
  <2>1. SemOK(k) /\ \A t \in Thread : k.stat[t] = "READY" BY FirstState, BootedOK, SemAssumption DEF Init, SemInv
  <2> QED BY <2>1, OnSem DEF Waiters
<1>2. SemInv /\ InOrder /\ [Next]_vars => InOrder' BY OrderStep
<1>3. SemInv /\ InOrder /\ [Next]_vars
        => [\A t, u \in ToSet(Waiters) :
              Flag = "PRIO" /\ k.prio[u] < k.prio[t] /\ u \in ToSet(Waiters')
                => t \in ToSet(Waiters') \/ k'.err[t] = "ETIMEOUT"]_vars
  BY OrderStep DEF WokeFirst
<1> QED BY <1>1, <1>2, <1>3, SemInvariance, PTL DEF Spec, WakesHighestFirst
=============================================================================
