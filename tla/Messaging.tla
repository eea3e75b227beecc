------------------------------ MODULE Messaging ------------------------------
(***************************************************************************)
(* A message queue and an event used by the same threads and interrupt     *)
(* handlers: while one thread is halfway through a copy or sleeps on one   *)
(* of the objects, the others work on both.                                *)
(***************************************************************************)
EXTENDS MsgQueue, Event

ASSUME MessagingAssumption == MqList # EvList

vars == <<k, isr, pc, timeout, mqvars, evvars>>

TypeOK ==
  /\ IpcTypeOK
  /\ pc \in [Thread -> {"run", "sched"} \cup MqLabel \cup EvLabel]
  /\ MqTypeOK
  /\ EvTypeOK

Init == IpcInit /\ MqInit /\ EvInit

Schedule(t) == IpcSchedule(t, "sched", "run") /\ UNCHANGED <<mqvars, evvars>>
Tick == IpcTick /\ UNCHANGED <<mqvars, evvars>>
TimerCheck == IpcTimerCheck /\ UNCHANGED <<mqvars, evvars>>

Next ==
  \/ \E t \in Thread : MqStep(t) /\ UNCHANGED evvars
  \/ \E t \in Thread : EvStep(t) /\ UNCHANGED mqvars
  \/ \E t \in Thread : Schedule(t)
  \/ MqInterrupt /\ UNCHANGED evvars
  \/ EvInterrupt /\ UNCHANGED mqvars
  \/ Tick \/ TimerCheck

Spec == Init /\ [][Next]_vars
=============================================================================
