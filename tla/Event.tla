-------------------------------- MODULE Event --------------------------------
(***************************************************************************)
(* The event object of src/ipc.c: a set of flags and a list of threads     *)
(* that wait for all or for one of the flags they name, and may clear what *)
(* they receive.                                                           *)
(*                                                                         *)
(* A sender decides for every waiter, in list order and under one          *)
(* interrupt lock: it clears the flags on the waiter's behalf and leaves   *)
(* in thread->event_set what the waiter will report when it runs.          *)
(*                                                                         *)
(* Rule of use: when an event is deleted nobody waits for it with a        *)
(* timeout, and nobody starts a call on it.  The idle thread does not wait *)
(* for flags.                                                              *)
(***************************************************************************)
EXTENDS Ipc

CONSTANTS EvList,   \* event->parent.suspend_thread
          EvFlag,   \* RT_IPC_FLAG_FIFO or RT_IPC_FLAG_PRIO
          Bit       \* the flags of an event

ASSUME EvAssumption ==
  /\ EvList \in WaitList
  /\ EvFlag \in {"FIFO", "PRIO"}
  /\ Prog[Idle] \cap {"ev_recv", "ev_recv_timed"} = {}

VARIABLES set,        \* event->set
          event_set,  \* thread->event_set
          event_info, \* thread->event_info
          evalive     \* "alive", "dying" while it is deleted, "gone" after

evvars == <<set, event_set, event_info, evalive>>

Option == [all : BOOLEAN,    \* RT_EVENT_FLAG_AND, otherwise RT_EVENT_FLAG_OR
           clear : BOOLEAN]  \* RT_EVENT_FLAG_CLEAR
NoOption == [all |-> FALSE, clear |-> FALSE]

EvLabel == {"ev_sched", "ev_back", "ev_close", "ev_resume", "ev_free"}

EvTypeOK ==
  /\ set \subseteq Bit
  /\ event_set \in [Thread -> SUBSET Bit]
  /\ event_info \in [Thread -> Option]
  /\ evalive \in {"alive", "dying", "gone"}

EvInit ==
  /\ set = {}
  /\ event_set = [t \in Thread |-> {}]
  /\ event_info = [t \in Thread |-> NoOption]
  /\ evalive = "alive"

Satisfies(has, wants, option) ==
  IF option.all THEN wants \subseteq has ELSE wants \cap has # {}

-----------------------------------------------------------------------------
(* rt_event_send.  The walk over the suspend list carries the kernel, the  *)
(* flags and what the threads will report.                                 *)

Received(has, wants, option) == IF option.all THEN wants ELSE wants \cap has

\* Mutation of Deliver: the flags are cleared when all waiters were served.
DeliverKeep(w, t) ==
  IF ~Satisfies(w.set, w.event_set[t], event_info[t]) THEN w
  ELSE [k |-> rt_thread_resume(w.k, t), set |-> w.set,
        event_set |-> [w.event_set EXCEPT ![t] = Received(w.set, @, event_info[t])]]
Deliver(w, t) ==
  LET gets == Received(w.set, w.event_set[t], event_info[t])
  IN  IF ~Satisfies(w.set, w.event_set[t], event_info[t]) THEN w
      ELSE [k |-> rt_thread_resume(w.k, t),
            set |-> IF event_info[t].clear THEN w.set \ gets ELSE w.set,
            event_set |-> [w.event_set EXCEPT ![t] = gets]]

\* Mutation of SendTo: the walk ends with the first waiter it has resumed.
SendToFirst(new) ==
  LET wait == k.list[EvList]
      start == [k |-> k, set |-> set \cup new, event_set |-> event_set]
      served == {i \in DOMAIN wait : Satisfies(start.set, event_set[wait[i]], event_info[wait[i]])}
  IN  IF served = {} THEN start
      ELSE Deliver(start, wait[CHOOSE i \in served : \A j \in served : i <= j])
SendTo(new) ==
  LET wait == k.list[EvList]
      walk[i \in 0..Len(wait)] ==
        IF i = 0 THEN [k |-> k, set |-> set \cup new, event_set |-> event_set]
        ELSE Deliver(walk[i - 1], wait[i])
  IN  walk[Len(wait)]

Woke(w) == w.k # k

EvSend(t, new) ==
  /\ Calls(t, "ev_send") /\ evalive = "alive"
  /\ LET w == SendTo(new)
     IN  /\ k' = w.k /\ set' = w.set /\ event_set' = w.event_set
         /\ Goto(t, IF Woke(w) THEN "sched" ELSE "run")
  /\ UNCHANGED <<isr, timeout, event_info, evalive>>

EvIsrSend(new) ==
  /\ isr = "none" /\ evalive = "alive"
  /\ LET w == SendTo(new)
     IN  /\ k' = IF Woke(w) THEN rt_schedule(w.k) ELSE k
         /\ set' = w.set /\ event_set' = w.event_set
  /\ UNCHANGED <<isr, pc, timeout, event_info, evalive>>

-----------------------------------------------------------------------------
(* rt_event_recv.  A call that fails at once changes nothing.              *)

\* The call returns set \cap wants.
EvTake(t, wants, option) ==
  /\ Calls(t, "ev_recv") \/ Calls(t, "ev_recv_timed")
  /\ evalive = "alive"
  /\ Satisfies(set, wants, option)
  /\ set' = IF option.clear THEN set \ wants ELSE set
  /\ UNCHANGED <<k, isr, pc, timeout, event_set, event_info, evalive>>

EvWait(t, wants, option, time) ==
  /\ Calls(t, IF time = Forever THEN "ev_recv" ELSE "ev_recv_timed") /\ evalive = "alive"
  /\ ~Satisfies(set, wants, option)
  /\ event_set' = [event_set EXCEPT ![t] = wants]
  /\ event_info' = [event_info EXCEPT ![t] = option]
  /\ k' = BlockOn(k, EvList, t, EvFlag, time)
  /\ Goto(t, "ev_sched")
  /\ UNCHANGED <<isr, timeout, set, evalive>>

EvSchedule(t) == IpcSchedule(t, "ev_sched", "ev_back") /\ UNCHANGED evvars

\* *recved = event_set[t]; the fields of the thread are forgotten with it.
EvBack(t) ==
  /\ Running(t, "ev_back")
  /\ Return(t)
  /\ event_set' = [event_set EXCEPT ![t] = {}]
  /\ event_info' = [event_info EXCEPT ![t] = NoOption]
  /\ UNCHANGED <<isr, set, evalive>>

-----------------------------------------------------------------------------
(* rt_event_control(RT_IPC_CMD_RESET), rt_event_delete, rt_event_detach,   *)
(* rt_event_create, rt_event_init.                                         *)

EvReset(t) ==
  /\ Calls(t, "ev_reset") /\ evalive = "alive"
  /\ k' = rt_ipc_list_resume_all(k, EvList)
  /\ set' = {}
  /\ Goto(t, "sched")
  /\ UNCHANGED <<isr, timeout, event_set, event_info, evalive>>

EvDelete(t) ==
  /\ Calls(t, "ev_delete") /\ evalive = "alive"
  /\ \A u \in ToSet(k.list[EvList]) : ~TimerActive(k, u)
  /\ evalive' = "dying"
  /\ Goto(t, "ev_close")
  /\ UNCHANGED <<k, isr, timeout, set, event_set, event_info>>

EvDeleteResume(t) ==
  /\ CloseList(t, EvList, "ev_close", "ev_resume", "ev_free")
  /\ UNCHANGED <<isr, timeout, evvars>>

EvDeleteObject(t) ==
  /\ Running(t, "ev_free")
  /\ evalive' = "gone"
  /\ set' = {}
  /\ Goto(t, "run")
  /\ UNCHANGED <<k, isr, timeout, event_set, event_info>>

EvCreate(t) ==
  /\ Calls(t, "ev_create") /\ evalive = "gone"
  /\ evalive' = "alive"
  /\ set' = {}
  /\ k' = [k EXCEPT !.list[EvList] = <<>>]
  /\ UNCHANGED <<isr, pc, timeout, event_set, event_info>>

-----------------------------------------------------------------------------
Named == SUBSET Bit \ {{}}

EvStep(t) ==
  \/ \E new \in Named : EvSend(t, new)
  \/ \E wants \in Named, option \in Option :
       EvTake(t, wants, option) \/ \E time \in Timeout \ {0} : EvWait(t, wants, option, time)
  \/ EvSchedule(t) \/ EvBack(t)
  \/ EvReset(t) \/ EvDelete(t) \/ EvDeleteResume(t) \/ EvDeleteObject(t) \/ EvCreate(t)

EvInterrupt == \E new \in Named : EvIsrSend(new)

-----------------------------------------------------------------------------
(* Properties.                                                             *)

\* Nobody sleeps on flags that are there: after any mix of sends, receptions
\* that clear, timeouts and resets, no listed waiter is satisfied by the set.
NoSatisfiedWaiter ==
  \A t \in ToSet(k.list[EvList]) : ~Satisfies(set, event_set[t], event_info[t])

\* The waiters one send wakes without an error.
WokenNow == {t \in ToSet(k.list[EvList]) : t \notin ToSet(k.list[EvList]') /\ k'.err[t] = "EOK"}

\* A flag that is cleared for one waiter is not received by a waiter further
\* down the list, nor left in the set: what a waiter with RT_EVENT_FLAG_CLEAR
\* receives from a send is in the set no more, and of several that one send
\* wakes no two receive the same flag.
ClearedOnce ==
  [][\A t, u \in WokenNow :
       event_info[t].clear =>
         /\ event_set'[t] \cap set' = {}
         /\ t # u /\ event_info[u].clear => event_set'[t] \cap event_set'[u] = {}]_<<k, evvars>>
=============================================================================
