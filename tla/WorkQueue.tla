------------------------------ MODULE WorkQueue ------------------------------
(***************************************************************************)
(* The work queue of components/drivers/src/workqueue.c: a list of works,  *)
(* the thread that does them, and a semaphore on which those wait who      *)
(* cancel the work in progress.                                            *)
(*                                                                         *)
(* The thread tests the list once before it sleeps and not at all when it  *)
(* wakes up.  With an empty list it takes the list head for a work; the    *)
(* model takes no step then.                                               *)
(*                                                                         *)
(* Rules of use under which the work thread always finds its work: no      *)
(* interrupt handler uses the queue, one thread does, and its priority is  *)
(* below that of the work thread.  A work function sleeps, submits other   *)
(* works, or just ends.  rt_workqueue_destroy is not modelled.             *)
(***************************************************************************)
EXTENDS Ipc

CONSTANTS Worker,  \* queue->work_thread
          WqSem,   \* the suspend list of queue->sem
          Work,
          NoWork   \* RT_NULL

ASSUME WqAssumption ==
  /\ Worker \in Thread
  /\ WqSem \in WaitList
  /\ NoWork \notin Work

VARIABLE wq

WqLabel == {"wq_suspend", "wq_asleep", "wq_take", "wq_func", "wq_napping", "wq_ack",
            "wq_resume", "wq_unlink", "wq_insert"}

\* The last two rules: one thread submits and cancels, below the work thread.
WqUser == {t \in Thread : Prog[t] \cap {"dowork", "cancel", "cancel_sync", "cancel_all"} # {}}
OneSubmitterBelow ==
  /\ \A t, u \in WqUser : t = u
  /\ \A t \in WqUser : InitPrio[Worker] < InitPrio[t]

WqTypeOK ==
  wq \in [work_list : Seq(Work), work_current : Work \cup {NoWork}, sem : 0..1]

\* rt_workqueue_create
WqInit == wq = [work_list |-> <<>>, work_current |-> NoWork, sem |-> 0]

\* rt_list_remove(&work->list)
NotQueued(w) == Without(wq.work_list, w)
Busy(w) == wq.work_current = w

-----------------------------------------------------------------------------
(* _workqueue_thread_entry                                                 *)

WqTest ==
  /\ Calls(Worker, "wq_entry")
  /\ Goto(Worker, IF wq.work_list = <<>> THEN "wq_suspend" ELSE "wq_take")
  /\ UNCHANGED <<k, isr, timeout, wq>>

WqSuspend ==
  /\ Running(Worker, "wq_suspend")
  /\ k' = rt_thread_suspend(k, Worker)
  /\ Goto(Worker, "wq_asleep")
  /\ UNCHANGED <<isr, timeout, wq>>

WqWake == IpcSchedule(Worker, "wq_asleep", "wq_take") /\ UNCHANGED wq

WqTake ==
  /\ Running(Worker, "wq_take") /\ wq.work_list # <<>>
  /\ wq' = [wq EXCEPT !.work_current = Head(wq.work_list), !.work_list = Tail(@)]
  /\ Goto(Worker, "wq_func")
  /\ UNCHANGED <<k, isr, timeout>>

\* work_func calls rt_thread_delay.
WqNap ==
  \/ /\ Running(Worker, "wq_func")
     /\ k' = rt_thread_sleep(k, Worker, 1)
     /\ Goto(Worker, "wq_napping")
     /\ UNCHANGED <<isr, timeout, wq>>
  \/ IpcSchedule(Worker, "wq_napping", "wq_func") /\ UNCHANGED wq

\* work_func returns; the acknowledgement begins with rt_enter_critical.
WqDone ==
  /\ Running(Worker, "wq_func")
  /\ wq' = [wq EXCEPT !.work_current = NoWork]
  /\ k' = rt_enter_critical([k EXCEPT !.err[Worker] = "EOK"])
  /\ Goto(Worker, "wq_ack")
  /\ UNCHANGED <<isr, timeout>>

\* _workqueue_work_completion: rt_sem_release until rt_sem_trytake succeeds,
\* that is until no waiter is left; then rt_exit_critical.
WqAck ==
  /\ Running(Worker, "wq_ack")
  /\ IF wq.sem = 1
     THEN /\ wq' = [wq EXCEPT !.sem = 0]
          /\ k' = rt_schedule(rt_exit_critical(k))
          /\ Goto(Worker, "run")
     ELSE /\ wq' = IF k.list[WqSem] = <<>> THEN [wq EXCEPT !.sem = 1] ELSE wq
          /\ k' = ResumeFirst(k, WqSem)
          /\ UNCHANGED pc
  /\ UNCHANGED <<isr, timeout>>

-----------------------------------------------------------------------------
(* rt_workqueue_dowork and rt_workqueue_critical_work; -RT_EBUSY for the   *)
(* work in progress changes nothing.                                       *)

Submitted(w) == [wq EXCEPT !.work_list = Append(NotQueued(w), w)]

WqDowork(t, w) ==
  /\ Calls(t, "dowork") /\ ~Busy(w)
  /\ wq' = Submitted(w)
  /\ Goto(t, IF wq.work_current = NoWork THEN "wq_resume" ELSE "run")
  /\ UNCHANGED <<k, isr, timeout>>

\* Called by a work function.
WqSubmitMore(w) ==
  /\ Running(Worker, "wq_func") /\ ~Busy(w)
  /\ wq' = Submitted(w)
  /\ UNCHANGED <<k, isr, pc, timeout>>

\* rt_thread_resume(queue->work_thread), with interrupts enabled.
WqResume(t) ==
  /\ \/ /\ Running(t, "wq_resume")
        /\ Goto(t, IF k.stat[Worker] = "SUSPEND" THEN "wq_unlink" ELSE "sched")
        /\ UNCHANGED k
     \/ /\ Running(t, "wq_unlink")
        /\ k' = ResumeUnlink(k, Worker)
        /\ Goto(t, "wq_insert")
     \/ /\ Running(t, "wq_insert")
        /\ k' = rt_schedule_insert_thread(k, Worker)
        /\ Goto(t, "sched")
  /\ UNCHANGED <<isr, timeout, wq>>

-----------------------------------------------------------------------------
(* rt_workqueue_cancel_work; -RT_EBUSY for the work in progress.           *)
WqCancel(t, w) ==
  /\ Calls(t, "cancel") /\ ~Busy(w)
  /\ wq' = [wq EXCEPT !.work_list = NotQueued(w)]
  /\ UNCHANGED <<k, isr, pc, timeout>>

\* rt_workqueue_cancel_work_sync.  rt_sem_take is called with interrupts
\* disabled: the thread is switched away when they are enabled, after all
\* that the call does.
WqCancelSync(t, w) ==
  /\ Calls(t, "cancel_sync")
  /\ IF ~Busy(w)
     THEN wq' = [wq EXCEPT !.work_list = NotQueued(w)] /\ UNCHANGED k
     ELSE IF wq.sem > 0
     THEN wq' = [wq EXCEPT !.sem = 0] /\ UNCHANGED k
     ELSE k' = rt_schedule(BlockOn(k, WqSem, t, "FIFO", Forever)) /\ UNCHANGED wq
  /\ UNCHANGED <<isr, pc, timeout>>

\* rt_workqueue_cancel_all_work: the list is emptied with the scheduler locked.
WqCancelAll(t) ==
  /\ Calls(t, "cancel_all")
  /\ wq' = [wq EXCEPT !.work_list = <<>>]
  /\ k' = rt_schedule(k)
  /\ UNCHANGED <<isr, pc, timeout>>

-----------------------------------------------------------------------------
WqStep(t) ==
  \/ (t = Worker /\ (WqTest \/ WqSuspend \/ WqWake \/ WqTake \/ WqNap \/ WqDone \/ WqAck))
  \/ \E w \in Work :
       WqDowork(t, w) \/ (t = Worker /\ WqSubmitMore(w)) \/ WqCancel(t, w) \/ WqCancelSync(t, w)
  \/ WqResume(t) \/ WqCancelAll(t)
  \/ Pause(t) /\ UNCHANGED wq

-----------------------------------------------------------------------------
(* Properties.                                                             *)

WorkerAsleep == k.stat[Worker] = "SUSPEND" /\ pc[Worker] \in {"wq_asleep", "wq_take"}

\* The work thread does not sleep on a work, unless the submitter is about to
\* wake it; and who waits for the end of a work waits while one is in progress
\* or is being acknowledged.
WqNobodyStranded ==
  /\ WorkerAsleep /\ wq.work_list # <<>> =>
       \E t \in Thread : pc[t] \in {"wq_resume", "wq_unlink", "wq_insert"}
  /\ k.list[WqSem] # <<>> => wq.work_current # NoWork \/ pc[Worker] = "wq_ack"

\* "we have work to do with." (workqueue.c:79): past the test of the list and
\* the sleep, the work thread finds a work on the list.
HasWorkToDo == Running(Worker, "wq_take") => wq.work_list # <<>>
=============================================================================
