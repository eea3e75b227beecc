------------------------------ MODULE DriverIpc ------------------------------
(***************************************************************************)
(* A driver's threads and interrupt handler on one of the helpers it may   *)
(* use: a memory pool, a data queue, a completion, a work queue, the heap  *)
(* or a pipe.                                                              *)
(***************************************************************************)
EXTENDS MemPool, DataQueue, Completion, WorkQueue, Heap, Pipe

CONSTANT Helpers  \* the helpers to choose from

\* No thread ends here, so that the idle thread has no stack to free.
ASSUME DriverAssumption == Prog[Idle] = {}

ASSUME HelperAssumption ==
  Helpers \subseteq {"mempool", "dataqueue", "completion", "workqueue", "heap", "pipe"}

\* Each helper has suspend lists of its own.
ASSUME ListsAssumption ==
  /\ MpList \notin {PushList, PopList, CpList, WqSem, HeapSem, PipeLock}
  /\ {PushList, PopList} \cap {CpList, WqSem, HeapSem, PipeLock} = {}
  /\ CpList \notin {WqSem, HeapSem, PipeLock}
  /\ WqSem \notin {HeapSem, PipeLock}
  /\ HeapSem # PipeLock

VARIABLE helper   \* the one the driver uses

vars == <<k, isr, pc, timeout, helper, mpvars, dqvars, completed, wq, heapvars, pipevars>>

Init ==
  /\ helper \in Helpers
  /\ IpcInit /\ MpInit /\ DqInit /\ CpInit /\ WqInit /\ HeapInit /\ PipeInit

MpNext == (\E t \in Thread : MpStep(t)) \/ MpInterrupt
DqNext == (\E t \in Thread : DqStep(t)) \/ DqInterrupt
CpNext == (\E t \in Thread : CpStep(t)) \/ CpIsrDone
WqNext == \E t \in Thread : WqStep(t)
HeapNext == \E t \in Thread : HeapStep(t)
PipeNext == \E t \in Thread : PipeStep(t)

Schedule(t) == IpcSchedule(t, "sched", "run") /\ DqQuiet /\ UNCHANGED <<dq, dqitem, dqtime>>
Tick == IpcTick /\ DqQuiet /\ UNCHANGED <<dq, dqitem, dqtime>>
TimerCheck == IpcTimerCheck /\ DqQuiet /\ UNCHANGED <<dq, dqitem, dqtime>>

Next ==
  /\ UNCHANGED helper
  /\ \/ /\ helper = "mempool" /\ MpNext
        /\ UNCHANGED <<dqvars, completed, wq, heapvars, pipevars>>
     \/ /\ helper = "dataqueue" /\ DqNext
        /\ UNCHANGED <<mpvars, completed, wq, heapvars, pipevars>>
     \/ /\ helper = "completion" /\ CpNext
        /\ UNCHANGED <<mpvars, dqvars, wq, heapvars, pipevars>>
     \/ /\ helper = "workqueue" /\ WqNext
        /\ UNCHANGED <<mpvars, dqvars, completed, heapvars, pipevars>>
     \/ /\ helper = "heap" /\ HeapNext
        /\ UNCHANGED <<mpvars, dqvars, completed, wq, pipevars>>
     \/ /\ helper = "pipe" /\ PipeNext
        /\ UNCHANGED <<mpvars, dqvars, completed, wq, heapvars>>
     \/ /\ (\E t \in Thread : Schedule(t)) \/ Tick \/ TimerCheck
        /\ UNCHANGED <<mpvars, completed, wq, heapvars, pipevars>>

Spec == Init /\ [][Next]_vars

\* No thread waits for what is there, whichever helper it waits on.
NobodyStranded ==
  /\ MpNobodyStranded
  /\ DqNobodyStranded
  /\ CpNobodyStranded
  /\ WqNobodyStranded
  /\ HeapNobodyStranded
  /\ PipeNobodyStranded

\* Every block of the pool and of the heap is free or in one pair of hands.
BlocksAccounted == MpBlocksAccounted /\ HeapAccounted

TypeOK ==
  /\ IpcTypeOK
  /\ pc \in [Thread -> {"run", "sched"} \cup MpLabel \cup DqLabel \cup CpLabel \cup WqLabel
                       \cup HeapLabel \cup PipeLabel]
  /\ MpTypeOK /\ DqTypeOK /\ CpTypeOK /\ WqTypeOK /\ HeapTypeOK /\ PipeTypeOK
  /\ helper \in Helpers
=============================================================================
