------------------------------ MODULE TimerList ------------------------------
(***************************************************************************)
(* The timers of src/timer.c: a hard list served by the tick interrupt and *)
(* a soft list served by the timer thread, both ordered by a tick counter  *)
(* that wraps around.  The module models the list itself, one-shot and     *)
(* periodic timers, timeout functions that start and stop timers, and the  *)
(* timer thread's decision to sleep; Kernel models what a timer does to    *)
(* the thread it belongs to.  A skip list is its bottom row here: the rows *)
(* above only shorten the search for a place.                              *)
(*                                                                         *)
(* Two threads run: the timer thread, of the higher priority, and one that *)
(* uses timers.  Every call is cut where the code has interrupts enabled.  *)
(* The function of a hard timer stands for every handler: it may start a   *)
(* soft timer wherever it interrupts the timer thread, but for the few     *)
(* instructions of rt_soft_timer_check that unlink a timer with interrupts *)
(* enabled: a start in there would leave the links in disorder.            *)
(*                                                                         *)
(* Rules of use: a timer is started and stopped by the application, or by  *)
(* functions of timers, not by both; a function does not restart the       *)
(* one-shot timer it belongs to; a soft one stops no other timer, and a    *)
(* hard one stops no soft timer and starts none that is on the list or     *)
(* that a call or the serving of the list is busy with; SET_ONESHOT and    *)
(* SET_PERIODIC are used on timers that are not active; no soft timer      *)
(* expires at RT_TICK_MAX.                                                 *)
(***************************************************************************)
EXTENDS Integers, Sequences, FiniteSets, SequencesExt

CONSTANTS Timer,
          Soft,       \* those with RT_TIMER_FLAG_SOFT_TIMER
          FuncTimer,  \* those that timeout functions start and stop
          NoTimer,
          InitTime,   \* InitTime[t]: the time given to rt_timer_init
          InitPeriodic, \* those created with RT_TIMER_FLAG_PERIODIC
          Controlled, \* those whose time and mode change, and that are deleted
          App,        \* the thread that uses timers
          TimerThread,
          TickSize,   \* 2^32, the range of rt_tick
          MaxTime,    \* longest init_tick
          MaxLate     \* how far, in ticks, the timer thread may be behind

RT_TICK_MAX == TickSize - 1
Half == RT_TICK_MAX \div 2

ASSUME TimerAssumption ==
  /\ Soft \subseteq Timer /\ FuncTimer \subseteq Timer
  /\ Controlled \subseteq Timer \ FuncTimer
  /\ NoTimer \notin Timer
  /\ InitTime \in [Timer -> 1..MaxTime] /\ InitPeriodic \subseteq Timer
  /\ App # TimerThread
ASSUME TickAssumption ==
  /\ TickSize \in Nat \ {0} /\ MaxTime \in Nat \ {0} /\ MaxLate \in Nat
  /\ MaxTime + MaxLate + 2 < Half   \* RT_ASSERT(init_tick < RT_TICK_MAX / 2)

VARIABLES tick,    \* rt_tick
          tm,      \* lists of timers and fields of the timers
          isr,     \* "none", or "check" while rt_timer_check serves a tick
          cur,     \* the running thread
          sleep,   \* of the timer thread: Ready, Forever or ticks to wait
          pc,      \* where each thread is
          arg,     \* the timer each thread's call of start or stop is about
          loc,     \* local variables of the timer thread
          missed   \* auxiliary: a soft timer was started behind the look of the
                   \* timer thread at its empty list, and it has not looked again

vars == <<tick, tm, isr, cur, sleep, pc, arg, loc, missed>>

Caller == {App, TimerThread}
Ready == -2
Forever == -1
Tick == 0..(TickSize - 1)

CallLabel == {"start", "start_time", "start_insert", "start_resume", "start_sched",
              "stop_remove", "stop_flag"}
Label == CallLabel \cup {"run", "next", "delta", "delay", "suspend", "sched", "check",
                         "walk", "func", "after"}

TypeOK ==
  /\ tick \in Tick
  /\ tm \in [hard : Seq(Timer \ Soft), soft : Seq(Soft), active : SUBSET Timer,
             periodic : SUBSET Timer, timeout_tick : [Timer -> Tick],
             init_tick : [Timer -> 1..MaxTime], live : SUBSET Timer]
  /\ isr \in {"none", "check"}
  /\ cur \in Caller
  /\ sleep \in {Ready, Forever} \cup 0..MaxTime
  /\ pc \in [Caller -> Label]
  /\ arg \in [Caller -> Timer \cup {NoTimer}]
  /\ loc \in [next_timeout : Tick, current_tick : Tick, n : Soft \cup {NoTimer},
              t : Soft \cup {NoTimer}, ret : {"after", "walk"}]
  /\ missed \in BOOLEAN

\* Locals that are written before they are read again.
Fresh == [next_timeout |-> 0, current_tick |-> 0, n |-> NoTimer, t |-> NoTimer, ret |-> "walk"]

Init ==
  /\ tick = 0
  /\ tm = [hard |-> <<>>, soft |-> <<>>, active |-> {}, periodic |-> InitPeriodic,
           timeout_tick |-> [t \in Timer |-> 0], init_tick |-> InitTime,
           live |-> Timer]
  /\ isr = "none"
  /\ cur = TimerThread
  /\ sleep = Ready
  /\ pc = [c \in Caller |-> IF c = App THEN "run" ELSE "next"]
  /\ arg = [c \in Caller |-> NoTimer]
  /\ loc = Fresh
  /\ missed = FALSE

Goto(c, label) == pc' = [pc EXCEPT ![c] = label]
Running(c, label) == isr = "none" /\ cur = c /\ pc[c] = label

-----------------------------------------------------------------------------
(* Lists.  a - b is taken modulo TickSize, as the unsigned difference is;  *)
(* less than Half means that a is not before b.                            *)

Minus(a, b) == (a - b) % TickSize

\* Mutation of NotBefore: the ticks themselves are compared.
NotBeforePlain(a, b) == a >= b
NotBefore(a, b) == Minus(a, b) < Half

Without(q, t) == SelectSeq(q, LAMBDA u : u # t)

\* Behind the timers that expire no later: the walk stops at the first one
\* whose timeout_tick is not the same and less than Half ahead.
Insert(s, q, t) ==
  LET later == {i \in DOMAIN q : /\ s.timeout_tick[q[i]] # s.timeout_tick[t]
                                 /\ NotBefore(s.timeout_tick[q[i]], s.timeout_tick[t])}
      place == IF later = {} THEN Len(q) + 1 ELSE CHOOSE i \in later : \A j \in later : i <= j
  IN  InsertAt(q, place, t)

\* timeout_tick is written before the timer is on a list again and not read
\* until then: the model forgets it.
_rt_timer_remove(s, t) ==
  [s EXCEPT !.hard = Without(@, t), !.soft = Without(@, t), !.timeout_tick[t] = 0]

\* The regions of rt_timer_start.
StartRemove(s, t) == [_rt_timer_remove(s, t) EXCEPT !.active = @ \ {t}]
StartTime(s, t) == [s EXCEPT !.timeout_tick[t] = (tick + s.init_tick[t]) % TickSize]
StartInsert(s, t) ==
  [s EXCEPT !.soft = IF t \in Soft THEN Insert(s, @, t) ELSE @,
            !.hard = IF t \in Soft THEN @ ELSE Insert(s, @, t),
            !.active = @ \cup {t}]

\* All of it, with interrupts disabled.
rt_timer_start(s, t) == StartInsert(StartTime(StartRemove(s, t), t), t)
rt_timer_stop(s, t) ==
  IF t \in s.active THEN [_rt_timer_remove(s, t) EXCEPT !.active = @ \ {t}] ELSE s

-----------------------------------------------------------------------------
(* rt_timer_start and rt_timer_stop called with interrupts enabled.        *)

\* RT_TICK_MAX is what the timer thread reads from an empty list.
AvoidsTickMax(t) == t \in Soft => (tick + tm.init_tick[t]) % TickSize # RT_TICK_MAX

Finish(c) ==
  /\ Goto(c, IF c = App THEN "run" ELSE loc.ret)
  /\ arg' = [arg EXCEPT ![c] = NoTimer]

TimerStart(c) ==
  LET t == arg[c] IN
  \/ /\ Running(c, "start")
     /\ tm' = StartRemove(tm, t)
     /\ Goto(c, "start_time")
     /\ UNCHANGED <<tick, isr, cur, sleep, arg, loc, missed>>
  \/ /\ Running(c, "start_time") /\ AvoidsTickMax(t)
     /\ tm' = StartTime(tm, t)
     /\ Goto(c, "start_insert")
     /\ UNCHANGED <<tick, isr, cur, sleep, arg, loc, missed>>
  \/ /\ Running(c, "start_insert")
     /\ tm' = StartInsert(tm, t)
     /\ IF t \in Soft THEN Goto(c, "start_resume") /\ UNCHANGED arg ELSE Finish(c)
     /\ UNCHANGED <<tick, isr, cur, sleep, loc, missed>>

\* Mutation of Resumed: only one that sleeps on a timeout is resumed.
ResumeIfDelayed == IF sleep = Forever THEN Forever ELSE Ready
Resumed == Ready

\* A soft timer was started: the timer thread looks at its list again.
ResumeTimerThread(c) ==
  \/ /\ Running(c, "start_resume")
     /\ IF sleep = Ready THEN Finish(c) /\ UNCHANGED sleep
        ELSE sleep' = Resumed /\ Goto(c, "start_sched") /\ UNCHANGED arg
     /\ UNCHANGED <<tick, tm, isr, cur, loc, missed>>
  \/ /\ Running(c, "start_sched")
     /\ cur' = IF sleep = Ready THEN TimerThread ELSE c
     /\ Finish(c)
     /\ UNCHANGED <<tick, tm, isr, sleep, loc, missed>>

TimerStop(c) ==
  \/ /\ Running(c, "stop_remove")
     /\ tm' = _rt_timer_remove(tm, arg[c])
     /\ Goto(c, "stop_flag")
     /\ UNCHANGED <<tick, isr, cur, sleep, arg, loc, missed>>
  \/ /\ Running(c, "stop_flag")
     /\ tm' = [tm EXCEPT !.active = @ \ {arg[c]}]
     /\ Finish(c)
     /\ UNCHANGED <<tick, isr, cur, sleep, loc, missed>>

-----------------------------------------------------------------------------
(* The application thread.                                                 *)

AppCalls(label) == \E t \in tm.live \ FuncTimer :
  /\ Running(App, "run")
  /\ label = "stop_remove" => t \in tm.active
  /\ arg' = [arg EXCEPT ![App] = t]
  /\ Goto(App, label)
  /\ UNCHANGED <<tick, tm, isr, cur, sleep, loc, missed>>

\* rt_timer_control
AppControl(t) ==
  /\ Running(App, "run") /\ t \in tm.live \cap Controlled
  /\ \/ \E time \in 1..MaxTime : tm' = [tm EXCEPT !.init_tick[t] = time]
     \/ t \notin tm.active /\ tm' = [tm EXCEPT !.periodic = @ \cup {t}]
     \/ t \notin tm.active /\ tm' = [tm EXCEPT !.periodic = @ \ {t}]
  /\ UNCHANGED <<tick, isr, cur, sleep, pc, arg, loc, missed>>

\* rt_timer_detach, rt_timer_delete; ACTIVATED goes with the object.
AppDetach(t) ==
  /\ Running(App, "run") /\ t \in tm.live \cap Controlled
  /\ tm' = [_rt_timer_remove(tm, t) EXCEPT !.live = @ \ {t}, !.active = @ \ {t}]
  /\ UNCHANGED <<tick, isr, cur, sleep, pc, arg, loc, missed>>

\* rt_timer_init, rt_timer_create
AppInit(t) ==
  /\ Running(App, "run") /\ t \notin tm.live
  /\ tm' = [tm EXCEPT !.live = @ \cup {t}, !.active = @ \ {t}, !.timeout_tick[t] = 0,
                      !.periodic = IF t \in InitPeriodic THEN @ \cup {t} ELSE @ \ {t},
                      !.init_tick[t] = InitTime[t]]
  /\ UNCHANGED <<tick, isr, cur, sleep, pc, arg, loc, missed>>

-----------------------------------------------------------------------------
(* The tick.  A hard timer's function runs in the handler: it does nothing,*)
(* stops its own periodic timer, starts or stops another hard timer, or    *)
(* starts a soft one.                                                      *)

\* No more ticks than the threads can keep up with: none while a soft timer the
\* timer thread is awake for or has missed, or one that a call is just starting,
\* is MaxLate ticks behind; but for the tick a call waits for that avoids
\* RT_TICK_MAX.
Pending ==
  (IF sleep = Ready \/ missed THEN ToSet(tm.soft) ELSE {})
    \cup {arg[c] : c \in {d \in Caller : pc[d] \in {"start_insert", "start_resume"}}}
KeepsUp ==
  \/ \E c \in Caller : pc[c] = "start_time" /\ ~AvoidsTickMax(arg[c])
  \/ \A t \in Pending : Minus(tick, tm.timeout_tick[t]) \notin MaxLate..(Half - 1)

\* Tick and thread timer of the timer thread, then rt_timer_check.
rt_tick_increase ==
  /\ isr = "none" /\ KeepsUp
  /\ tick' = (tick + 1) % TickSize
  /\ isr' = "check"
  /\ sleep' = IF sleep > 0 THEN sleep - 1 ELSE sleep
  /\ UNCHANGED <<tm, cur, pc, arg, loc, missed>>

Expired(s, t) == NotBefore(tick, s.timeout_tick[t])

FuncEffects(s, t) ==
  {s} \cup (IF t \in s.periodic THEN {rt_timer_stop(s, t)} ELSE {})
      \cup {rt_timer_start(s, u) : u \in FuncTimer \ (Soft \cup {t})}
      \cup {rt_timer_stop(s, u) : u \in FuncTimer \ (Soft \cup {t})}

Restarted(s, t) ==
  IF t \in s.periodic \cap s.active THEN rt_timer_start(s, t)
  ELSE [s EXCEPT !.active = @ \ {t}]

\* The soft timers that a handler may start.
Busy == {arg[c] : c \in Caller} \cup {loc.t}
HandlerStarts == {u \in (FuncTimer \cap Soft) \ (Busy \cup ToSet(tm.soft)) : AvoidsTickMax(u)}

\* A timer thread that has seen an empty list but does not sleep yet is still
\* READY: rt_timer_start resumes nobody, and the thread goes to sleep.
HardFunc(s, t) ==
  \/ /\ \E e \in FuncEffects(s, t) : tm' = Restarted(e, t)
     /\ UNCHANGED <<cur, sleep, missed>>
  \/ /\ \E u \in HandlerStarts : tm' = Restarted(rt_timer_start(s, u), t)
     /\ sleep' = Resumed
     /\ cur' = IF sleep = Ready THEN cur ELSE TimerThread
     /\ missed' = (missed \/ pc[TimerThread] = "suspend")

rt_timer_check ==
  /\ isr = "check"
  /\ IF tm.hard # <<>> /\ Expired(tm, Head(tm.hard))
     THEN /\ HardFunc(_rt_timer_remove(tm, Head(tm.hard)), Head(tm.hard))
          /\ UNCHANGED isr
     ELSE /\ isr' = "none"
          /\ sleep' = IF sleep = 0 THEN Ready ELSE sleep
          /\ cur' = IF sleep = 0 THEN TimerThread ELSE cur
          /\ UNCHANGED <<tm, missed>>
  /\ UNCHANGED <<tick, pc, arg, loc>>

-----------------------------------------------------------------------------
(* rt_thread_timer_entry                                                   *)

T == TimerThread

ReadNext ==
  /\ Running(T, "next")
  /\ LET next == IF tm.soft = <<>> THEN RT_TICK_MAX ELSE tm.timeout_tick[Head(tm.soft)]
     IN  /\ loc' = [loc EXCEPT !.next_timeout = next]
         /\ Goto(T, IF next = RT_TICK_MAX THEN "suspend" ELSE "delta")
  /\ UNCHANGED <<tick, tm, isr, cur, sleep, arg, missed>>

ReadTick ==
  /\ Running(T, "delta")
  /\ IF NotBefore(loc.next_timeout, tick)
     THEN loc' = [loc EXCEPT !.current_tick = tick] /\ Goto(T, "delay")
     ELSE loc' = Fresh /\ Goto(T, "check")
  /\ UNCHANGED <<tick, tm, isr, cur, sleep, arg, missed>>

\* rt_thread_suspend or rt_thread_delay, up to the call of rt_schedule.
FallAsleep ==
  /\ \/ Running(T, "suspend") /\ sleep' = Forever
     \/ Running(T, "delay") /\ sleep' = Minus(loc.next_timeout, loc.current_tick)
  /\ Goto(T, "sched")
  /\ loc' = Fresh
  /\ UNCHANGED <<tick, tm, isr, cur, arg, missed>>

Reschedule ==
  /\ Running(T, "sched")
  /\ cur' = IF sleep = Ready THEN T ELSE App
  /\ Goto(T, "check")
  /\ UNCHANGED <<tick, tm, isr, sleep, arg, loc, missed>>

-----------------------------------------------------------------------------
(* rt_soft_timer_check.  The scheduler is locked but while a function runs;*)
(* as the timer thread has the highest priority nothing depends on it.     *)

NodeAt(q, i) == IF i \in DOMAIN q THEN q[i] ELSE NoTimer
Successor(q, t) == NodeAt(q, 1 + CHOOSE i \in DOMAIN q : q[i] = t)

CheckBegin ==
  /\ Running(T, "check")
  /\ loc' = [loc EXCEPT !.current_tick = tick, !.n = NodeAt(tm.soft, 1)]
  /\ missed' = FALSE
  /\ Goto(T, "walk")
  /\ UNCHANGED <<tick, tm, isr, cur, sleep, arg>>

Walk ==
  /\ Running(T, "walk")
  /\ IF loc.n # NoTimer /\ NotBefore(loc.current_tick, tm.timeout_tick[loc.n])
     THEN /\ loc' = [loc EXCEPT !.t = loc.n, !.n = Successor(tm.soft, loc.n)]
          /\ tm' = _rt_timer_remove(tm, loc.n)
          /\ Goto(T, "func")
     ELSE /\ loc' = Fresh
          /\ Goto(T, "next")
          /\ UNCHANGED tm
  /\ UNCHANGED <<tick, isr, cur, sleep, arg, missed>>

\* The function does nothing, stops its own timer or starts another one.
SoftFunc ==
  /\ Running(T, "func")
  /\ \/ Goto(T, "after") /\ UNCHANGED <<arg, loc>>
     \/ /\ loc.t \in tm.active
        /\ arg' = [arg EXCEPT ![T] = loc.t]
        /\ loc' = [loc EXCEPT !.ret = "after"]
        /\ Goto(T, "stop_remove")
     \/ \E u \in (FuncTimer \cap Soft) \ {loc.t} :
          /\ arg' = [arg EXCEPT ![T] = u]
          /\ loc' = [loc EXCEPT !.ret = "after"]
          /\ Goto(T, "start")
  /\ UNCHANGED <<tick, tm, isr, cur, sleep, missed>>

AfterFunc ==
  /\ Running(T, "after")
  /\ tm' = [tm EXCEPT !.active = @ \ {loc.t}]
  /\ LET again == loc.t \in tm.periodic \cap tm.active
     IN  /\ loc' = [loc EXCEPT !.current_tick = tick, !.ret = "walk", !.t = NoTimer]
         /\ arg' = [arg EXCEPT ![T] = IF again THEN loc.t ELSE NoTimer]
         /\ Goto(T, IF again THEN "start" ELSE "walk")
  /\ UNCHANGED <<tick, isr, cur, sleep, missed>>

-----------------------------------------------------------------------------
TimerThreadStep ==
  \/ ReadNext \/ ReadTick \/ FallAsleep \/ Reschedule
  \/ CheckBegin \/ Walk \/ SoftFunc \/ AfterFunc

InCall == \E c \in Caller : TimerStart(c) \/ ResumeTimerThread(c) \/ TimerStop(c)

Next ==
  \/ AppCalls("start") \/ AppCalls("stop_remove")
  \/ \E t \in Timer : AppControl(t) \/ AppDetach(t) \/ AppInit(t)
  \/ InCall \/ TimerThreadStep
  \/ rt_tick_increase \/ rt_timer_check

Spec == Init /\ [][Next]_vars

\* The tick keeps coming and is served; a thread goes on with the call it is
\* in when it has the processor.
FairSpec ==
  /\ Spec
  /\ WF_vars(rt_tick_increase) /\ WF_vars(rt_timer_check)
  /\ WF_vars(TimerThreadStep) /\ WF_vars(InCall)

-----------------------------------------------------------------------------
(* Properties.                                                             *)

\* Ticks a timer has still to wait, negative when it is late.
Remaining(t) ==
  LET d == Minus(tm.timeout_tick[t], tick) IN IF d < Half THEN d ELSE d - TickSize

Ordered(q) == \A i, j \in DOMAIN q : i < j => q[i] # q[j] /\ Remaining(q[i]) <= Remaining(q[j])

\* Both lists stay ordered by the time left across the wrap of rt_tick, with
\* no timer on them twice; and ACTIVATED tells whether a timer is on its list,
\* but for one a call or the serving of a tick is busy with.
ListsOrdered ==
  /\ Ordered(tm.hard) /\ Ordered(tm.soft)
  /\ tm.active \ Busy = (ToSet(tm.hard) \cup ToSet(tm.soft)) \ Busy

\* A hard timer is served in the handler of the tick it expires at: it is
\* never taken off before, and none that is due is left when the handler ends,
\* wherever the tick counter wraps and whatever the functions start and stop.
ServedOnTime ==
  [][isr = "check" =>
       /\ tm'.hard # tm.hard => Remaining(Head(tm.hard)) <= 0
       /\ isr' = "none" => \A t \in ToSet(tm.hard) : Remaining(t) > 0]_vars

\* A soft timer on the list is served, stopped or started again: the timer
\* thread does not sleep through it, be it started by the application, by another
\* soft timer or by a handler at any point of the timer thread's way to sleep,
\* but for the start in a handler that comes between its look at an empty list
\* and its suspension: that one the code misses.
SoftTimerServed ==
  \A t \in Soft : t \in ToSet(tm.soft) ~> (t \notin ToSet(tm.soft) \/ missed)
=============================================================================
