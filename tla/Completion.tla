----------------------------- MODULE Completion ------------------------------
(***************************************************************************)
(* The completion of components/drivers/src/completion.c: a flag that an   *)
(* interrupt handler or a thread raises and the one thread that waits for  *)
(* it lowers.                                                              *)
(*                                                                         *)
(* The waiter lowers the flag however its wait ended: a completion between *)
(* the end of its timeout and its next step is lost, and it says           *)
(* -RT_ETIMEOUT.                                                           *)
(*                                                                         *)
(* Rule of use: one thread at a time waits, and the completion is not      *)
(* initialised while it does.                                              *)
(***************************************************************************)
EXTENDS Ipc

CONSTANT CpList  \* completion->suspended_list

ASSUME CpAssumption == CpList \in WaitList

VARIABLE completed  \* completion->flag = RT_COMPLETED

CpLabel == {"cp_sched", "cp_back", "cp_done"}

CpTypeOK == completed \in BOOLEAN

CpInit == completed = FALSE

\* rt_completion_init
CpReinit(t) ==
  /\ Calls(t, "cp_init")
  /\ \A u \in Thread : pc[u] \notin {"cp_sched", "cp_back"}
  /\ completed' = FALSE
  /\ k' = [k EXCEPT !.list[CpList] = <<>>]
  /\ UNCHANGED <<isr, pc, timeout>>

-----------------------------------------------------------------------------
(* rt_completion_wait.  With timeout 0 and nothing completed it returns.   *)

CpTake(t) ==
  /\ Calls(t, "cp_wait") /\ completed
  /\ completed' = FALSE
  /\ UNCHANGED <<k, isr, pc, timeout>>

CpWait(t, time) ==
  /\ Calls(t, "cp_wait") /\ ~completed
  /\ \A u \in Thread : pc[u] \notin {"cp_sched", "cp_back"}
  /\ k' = BlockOn(k, CpList, t, "FIFO", time)
  /\ Goto(t, "cp_sched")
  /\ UNCHANGED <<isr, timeout, completed>>

CpSchedule(t) == IpcSchedule(t, "cp_sched", "cp_back") /\ UNCHANGED completed

CpBack(t) ==
  /\ Running(t, "cp_back")
  /\ completed' = FALSE
  /\ Return(t)
  /\ UNCHANGED isr

-----------------------------------------------------------------------------
(* rt_completion_done.  The flag is tested before interrupts are disabled. *)

CpDone(t) ==
  \/ /\ Calls(t, "cp_done") /\ ~completed
     /\ Goto(t, "cp_done")
     /\ UNCHANGED <<k, isr, timeout, completed>>
  \/ /\ Running(t, "cp_done")
     /\ completed' = TRUE
     /\ k' = ResumeFirst(k, CpList)
     /\ Goto(t, IF k.list[CpList] # <<>> THEN "sched" ELSE "run")
     /\ UNCHANGED <<isr, timeout>>

CpIsrDone ==
  /\ isr = "none" /\ ~completed
  /\ completed' = TRUE
  /\ k' = IF k.list[CpList] # <<>> THEN rt_schedule(ResumeFirst(k, CpList)) ELSE k
  /\ UNCHANGED <<isr, pc, timeout>>

-----------------------------------------------------------------------------
CpStep(t) ==
  \/ CpReinit(t) \/ CpTake(t) \/ (\E time \in Timeout \ {0} : CpWait(t, time))
  \/ CpSchedule(t) \/ CpBack(t) \/ CpDone(t)

\* Nobody sleeps on a completion that has happened, whatever was signalled
\* before the wait, during it or when its timeout was over.
CpNobodyStranded == k.list[CpList] # <<>> => ~completed
=============================================================================
