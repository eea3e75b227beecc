------------------------------ MODULE DataQueue ------------------------------
(***************************************************************************)
(* The data queue of components/drivers/src/dataqueue.c: a ring of items   *)
(* with two free-running 16-bit indices.  Producers that found it full are *)
(* woken only when no more than the low water mark is left.                *)
(*                                                                         *)
(* A wait that is repeated starts with the whole timeout again.  The index *)
(* difference is an int: once put_index has wrapped before get_index, it   *)
(* is negative, a full queue does not look full and a push overwrites an   *)
(* item.  The properties speak of the queue up to the first wrap, of its   *)
(* first IndexSize - 1 items; the model goes on behind it, as the code     *)
(* does.                                                                   *)
(*                                                                         *)
(* Rules of use: the low water mark is below the size; when the queue is   *)
(* reset nobody waits with a timeout.  The callback evt_notify is left     *)
(* out.                                                                    *)
(***************************************************************************)
EXTENDS Ipc

CONSTANTS PushList,   \* queue->suspended_push_list
          PopList,    \* queue->suspended_pop_list
          DqSize,     \* queue->size
          Lwm,        \* queue->lwm
          IndexSize,  \* 2^16, the range of put_index and get_index
          Item,       \* what data_ptr and data_size say
          NoItem

ASSUME DqAssumption ==
  /\ {PushList, PopList} \subseteq WaitList /\ PushList # PopList
  /\ {Lwm, DqSize, IndexSize} \subseteq Nat /\ Lwm < DqSize /\ DqSize < IndexSize
  /\ NoItem \notin Item

VARIABLES dq,      \* fields of the queue; auxiliary: put_index has wrapped
          dqitem,  \* the item each thread pushes
          dqtime,  \* the timeout argument of the call each thread waits in
          popped   \* auxiliary: the item this step has popped

dqvars == <<dq, dqitem, dqtime, popped>>

DqLabel == {"push_sched", "push_back", "pop_sched", "pop_back", "close_pop", "resume_pop",
            "close_push", "resume_push", "dq_exit"}

DqTypeOK ==
  /\ dq \in [put_index : 0..(IndexSize - 1), get_index : 0..(IndexSize - 1),
             queue : [0..(DqSize - 1) -> Item \cup {NoItem}], wrapped : BOOLEAN]
  /\ dqitem \in [Thread -> Item \cup {NoItem}]
  /\ dqtime \in [Thread -> Timeout]
  /\ popped \in Item \cup {NoItem}

DqInit ==
  /\ dq = [put_index |-> 0, get_index |-> 0, queue |-> [i \in 0..(DqSize - 1) |-> NoItem],
           wrapped |-> FALSE]
  /\ dqitem = [t \in Thread |-> NoItem]
  /\ dqtime = [t \in Thread |-> 0]
  /\ popped = NoItem

DqQuiet == popped' = NoItem
Count(q) == q.put_index - q.get_index
DqFull == Count(dq) = DqSize
DqEmpty == dq.get_index = dq.put_index

Leave(t) == dqitem' = [dqitem EXCEPT ![t] = NoItem] /\ dqtime' = [dqtime EXCEPT ![t] = 0]
DqReturn(t) == Return(t) /\ Leave(t)
DqSuspend(t, list, time) ==
  /\ k' = BlockOn(k, list, t, "FIFO", time)
  /\ dqtime' = [dqtime EXCEPT ![t] = time]
  /\ UNCHANGED <<timeout, dq>>

-----------------------------------------------------------------------------
(* rt_data_queue_push                                                      *)

Pushed(m) ==
  [dq EXCEPT !.queue[dq.put_index % DqSize] = m, !.put_index = (@ + 1) % IndexSize,
             !.wrapped = @ \/ dq.put_index = IndexSize - 1]

PushBody(t, m, time) ==
  IF ~DqFull
  THEN /\ dq' = Pushed(m)
       /\ k' = [ResumeFirst(k, PopList) EXCEPT !.err[t] = "EOK"]
       /\ Goto(t, IF k.list[PopList] # <<>> THEN "sched" ELSE "run")
       /\ Leave(t) /\ UNCHANGED timeout
  ELSE IF time = 0
  THEN DqReturn(t) /\ UNCHANGED dq
  ELSE /\ DqSuspend(t, PushList, time)
       /\ dqitem' = [dqitem EXCEPT ![t] = m]
       /\ Goto(t, "push_sched")

Push(t, m, time) ==
  /\ Calls(t, IF time = 0 THEN "trypush" ELSE IF time > 0 THEN "push_timed" ELSE "push")
  /\ PushBody(t, m, time)
  /\ DqQuiet /\ UNCHANGED isr

PushSchedule(t) ==
  IpcSchedule(t, "push_sched", "push_back") /\ DqQuiet /\ UNCHANGED <<dq, dqitem, dqtime>>

PushBack(t) ==
  /\ Running(t, "push_back")
  /\ IF k.err[t] = "EOK" THEN PushBody(t, dqitem[t], dqtime[t]) ELSE DqReturn(t) /\ UNCHANGED dq
  /\ DqQuiet /\ UNCHANGED isr

IsrPush(m) ==
  /\ isr = "none"
  /\ ~DqFull
  /\ dq' = Pushed(m)
  /\ k' = IF k.list[PopList] # <<>> THEN rt_schedule(ResumeFirst(k, PopList)) ELSE k
  /\ DqQuiet /\ UNCHANGED <<isr, pc, timeout, dqitem, dqtime>>

-----------------------------------------------------------------------------
(* rt_data_queue_pop.  The item of a free slot is forgotten.               *)

\* Mutation of Popped: the slot is found from the end that is written.
PoppedNewest ==
  [dq EXCEPT !.queue[(dq.put_index - 1) % DqSize] = NoItem, !.get_index = (@ + 1) % IndexSize]
Popped ==
  [dq EXCEPT !.queue[dq.get_index % DqSize] = NoItem, !.get_index = (@ + 1) % IndexSize]

WakesPusher == Count(Popped) <= Lwm /\ k.list[PushList] # <<>>
Taken(s) == IF WakesPusher THEN ResumeFirst(s, PushList) ELSE s

PopBody(t, time) ==
  IF ~DqEmpty
  THEN /\ popped' = dq.queue[dq.get_index % DqSize]
       /\ dq' = Popped
       /\ k' = [Taken(k) EXCEPT !.err[t] = "EOK"]
       /\ Goto(t, IF WakesPusher THEN "sched" ELSE "run")
       /\ Leave(t) /\ UNCHANGED timeout
  ELSE IF time = 0
  THEN DqReturn(t) /\ DqQuiet /\ UNCHANGED dq
  ELSE /\ DqSuspend(t, PopList, time)
       /\ Goto(t, "pop_sched")
       /\ DqQuiet /\ UNCHANGED dqitem

Pop(t, time) ==
  /\ Calls(t, IF time = 0 THEN "trypop" ELSE IF time > 0 THEN "pop_timed" ELSE "pop")
  /\ PopBody(t, time)
  /\ UNCHANGED isr

PopSchedule(t) ==
  IpcSchedule(t, "pop_sched", "pop_back") /\ DqQuiet /\ UNCHANGED <<dq, dqitem, dqtime>>

PopBack(t) ==
  /\ Running(t, "pop_back")
  /\ IF k.err[t] = "EOK" THEN PopBody(t, dqtime[t]) ELSE DqReturn(t) /\ DqQuiet /\ UNCHANGED dq
  /\ UNCHANGED isr

IsrPop ==
  /\ isr = "none"
  /\ ~DqEmpty
  /\ popped' = dq.queue[dq.get_index % DqSize]
  /\ dq' = Popped
  /\ k' = IF WakesPusher THEN rt_schedule(Taken(k)) ELSE k
  /\ UNCHANGED <<isr, pc, timeout, dqitem, dqtime>>

-----------------------------------------------------------------------------
(* rt_data_queue_reset: every waiter is failed, with the scheduler locked. *)
(* The items and the indices stay.                                         *)

DqReset(t) ==
  /\ Calls(t, "dq_reset")
  /\ \A u \in ToSet(k.list[PopList]) \cup ToSet(k.list[PushList]) : ~TimerActive(k, u)
  /\ k' = rt_enter_critical(k)
  /\ Goto(t, "close_pop")
  /\ DqQuiet /\ UNCHANGED <<isr, timeout, dq, dqitem, dqtime>>

DqResetResume(t) ==
  /\ \/ CloseList(t, PopList, "close_pop", "resume_pop", "close_push")
     \/ CloseList(t, PushList, "close_push", "resume_push", "dq_exit")
  /\ DqQuiet /\ UNCHANGED <<isr, timeout, dq, dqitem, dqtime>>

DqResetEnd(t) ==
  /\ Running(t, "dq_exit")
  /\ k' = rt_schedule(rt_exit_critical(k))
  /\ Goto(t, "sched")
  /\ DqQuiet /\ UNCHANGED <<isr, timeout, dq, dqitem, dqtime>>

-----------------------------------------------------------------------------
DqStep(t) ==
  \/ \E time \in Timeout : Pop(t, time) \/ \E m \in Item : Push(t, m, time)
  \/ PushSchedule(t) \/ PushBack(t) \/ PopSchedule(t) \/ PopBack(t)
  \/ DqReset(t) \/ DqResetResume(t) \/ DqResetEnd(t)

DqInterrupt == IsrPop \/ \E m \in Item : IsrPush(m)

-----------------------------------------------------------------------------
(* Properties.                                                             *)

DqWoken(list, labels) ==
  {t \in Thread : pc[t] \in labels /\ t \notin ToSet(k.list[list]) /\ k.err[t] = "EOK"}
WokenPoppers == DqWoken(PopList, {"pop_sched", "pop_back"})
WokenPushers == DqWoken(PushList, {"push_sched", "push_back"})

\* No consumer sleeps on items that nobody woken is about to take.  A producer
\* may sleep on a queue with room, but only above the low water mark, counting
\* the producers that are about to push: at the latest the pop that reaches
\* the mark wakes it.  This holds until put_index wraps.
DqNobodyStranded ==
  dq.wrapped \/
    /\ k.list[PopList] # <<>> => Count(dq) <= Cardinality(WokenPoppers)
    /\ k.list[PushList] # <<>> => Count(dq) + Cardinality(WokenPushers) > Lwm

\* Producers that wait and try again, consumers and handlers that push and pop
\* make a bounded queue: no item is lost, doubled or overtaken, not by a reset
\* either, until put_index wraps (IndexSize - 1 items after the start).
DqContent == [i \in 1..Count(dq) |-> dq.queue[(dq.get_index + i - 1) % DqSize]]

DqAbstract == INSTANCE QueueSpec WITH
  Message <- Item, Nothing <- NoItem, Reader <- {"caller"}, Size <- DqSize,
  Sender <- {}, Resets <- FALSE, sending <- [s \in {} |-> NoItem],
  queue <- DqContent, held <- [r \in {"caller"} |-> popped]

DqImplementsQueue ==
  DqAbstract!Init /\ [][~dq'.wrapped => DqAbstract!Next]_(DqAbstract!vars)
=============================================================================
