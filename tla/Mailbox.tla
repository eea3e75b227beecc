------------------------------- MODULE Mailbox -------------------------------
(***************************************************************************)
(* The mailbox of src/ipc.c: a ring of words, a list of threads that wait  *)
(* for mail and one of threads that wait for room.  Interrupt handlers     *)
(* send and receive without waiting.                                       *)
(*                                                                         *)
(* A thread that is woken owns nothing: it looks at the mailbox again, may *)
(* find that another thread was faster, and sleeps for what is left of its *)
(* timeout.                                                                *)
(*                                                                         *)
(* Rules of use: when a mailbox is deleted nobody has been woken on it and *)
(* not yet returned, nobody waits on it with a timeout, and from then on   *)
(* nobody starts a call on it.                                             *)
(***************************************************************************)
EXTENDS Ipc

CONSTANTS Receivers,  \* mb->parent.suspend_thread
          Senders,    \* mb->suspend_sender_thread
          Flag,       \* RT_IPC_FLAG_FIFO or RT_IPC_FLAG_PRIO
          Size,       \* mb->size
          Word,       \* what is sent
          NoWord,
          Sends       \* Sends[t]: the words thread t sends

ASSUME MailboxAssumption ==
  /\ {Receivers, Senders} \subseteq WaitList /\ Receivers # Senders
  /\ Flag \in {"FIFO", "PRIO"}
  /\ Size \in Nat \ {0}
  /\ NoWord \notin Word
  /\ Sends \in [Thread -> SUBSET Word]
  \* the idle thread never waits
  /\ {"send_timed", "send_wait", "recv_timed", "recv_wait"} \cap Prog[Idle] = {}

VARIABLES mb,     \* fields of the mailbox
          alive,  \* "alive", "dying" while it is deleted, "gone" after
          value,  \* the argument of the send each thread makes
          got     \* auxiliary: the word this step has received

vars == <<k, isr, pc, timeout, mb, alive, value, got>>

Label == {"run", "sched", "send_sched", "send_back", "recv_sched", "recv_back",
          "close_recv", "resume_recv", "close_send", "resume_send", "free"}

TypeOK ==
  /\ IpcTypeOK
  /\ pc \in [Thread -> Label]
  /\ mb \in [msg_pool : [0..(Size - 1) -> Word \cup {NoWord}], entry : 0..Size,
             in_offset : 0..(Size - 1), out_offset : 0..(Size - 1)]
  /\ alive \in {"alive", "dying", "gone"}
  /\ value \in [Thread -> Word \cup {NoWord}]
  /\ got \in Word \cup {NoWord}

NewMailbox == [msg_pool |-> [i \in 0..(Size - 1) |-> NoWord], entry |-> 0,
               in_offset |-> 0, out_offset |-> 0]

Init ==
  /\ IpcInit
  /\ mb = NewMailbox
  /\ alive = "alive"
  /\ value = [t \in Thread |-> NoWord]
  /\ got = NoWord

Quiet == got' = NoWord
Full == mb.entry = Size
Empty == mb.entry = 0

-----------------------------------------------------------------------------
(* rt_mb_send_wait; rt_mb_send is the call with timeout 0.                 *)

\* Mutation of NextOffset: the offset runs past the end of the pool.
OffsetPastEnd(i) == IF i + 1 > Size THEN 0 ELSE i + 1
NextOffset(i) == IF i + 1 >= Size THEN 0 ELSE i + 1

\* Mutation of Store: the number of entries is taken for the input offset.
StoreAtEntry(v) == [mb EXCEPT !.msg_pool[mb.entry] = v, !.in_offset = NextOffset(@), !.entry = @ + 1]
Store(v) ==
  [mb EXCEPT !.msg_pool[mb.in_offset] = v, !.in_offset = NextOffset(@), !.entry = @ + 1]

\* The loop from its test to an interrupt-enable, time being what is left.
\* Without time left the call returns -RT_EFULL.
SendBody(t, v, time) ==
  IF ~Full
  THEN /\ mb' = Store(v)
       /\ k' = ResumeFirst(k, Receivers)
       /\ Goto(t, IF k.list[Receivers] # <<>> THEN "sched" ELSE "run")
       /\ WaitsFor(t, 0)
       /\ value' = [value EXCEPT ![t] = NoWord]
  ELSE IF time = 0
  THEN /\ Return(t)
       /\ value' = [value EXCEPT ![t] = NoWord]
       /\ UNCHANGED mb
  ELSE /\ k' = BlockOn(k, Senders, t, Flag, time)
       /\ Goto(t, "send_sched")
       /\ WaitsFor(t, time)
       /\ value' = [value EXCEPT ![t] = v]
       /\ UNCHANGED mb

SendWait(t, v, time) ==
  /\ Calls(t, IF time = 0 THEN "send" ELSE IF time > 0 THEN "send_timed" ELSE "send_wait")
  /\ alive = "alive"
  /\ SendBody(t, v, time)
  /\ Quiet /\ UNCHANGED <<isr, alive>>

SendSchedule(t) == IpcSchedule(t, "send_sched", "send_back") /\ Quiet /\ UNCHANGED <<mb, alive, value>>

\* Woken by a receiver the sender tries again; otherwise it returns the error.
SendBack(t) ==
  /\ Running(t, "send_back")
  /\ IF k.err[t] = "EOK" THEN SendBody(t, value[t], timeout[t])
     ELSE Return(t) /\ value' = [value EXCEPT ![t] = NoWord] /\ UNCHANGED mb
  /\ Quiet /\ UNCHANGED <<isr, alive>>

IsrSend(v) ==
  /\ isr = "none" /\ alive = "alive"
  /\ ~Full
  /\ mb' = Store(v)
  /\ k' = IF k.list[Receivers] # <<>> THEN rt_schedule(ResumeFirst(k, Receivers)) ELSE k
  /\ Quiet /\ UNCHANGED <<isr, pc, timeout, alive, value>>

-----------------------------------------------------------------------------
(* rt_mb_recv                                                              *)

\* The slot keeps the word in the code; nobody reads it before it is written
\* again, so that the model forgets it.
Fetched == [mb EXCEPT !.msg_pool[mb.out_offset] = NoWord,
                      !.out_offset = NextOffset(@), !.entry = @ - 1]

\* Mutation of WakeSender: a sender is woken only if the ring was full.
WakeIfFull(s) == IF Full THEN ResumeFirst(s, Senders) ELSE s
WakeSender(s) == ResumeFirst(s, Senders)

\* Without time left the call returns -RT_ETIMEOUT.
RecvBody(t, time) ==
  IF ~Empty
  THEN /\ got' = mb.msg_pool[mb.out_offset]
       /\ mb' = Fetched
       /\ k' = WakeSender(k)
       /\ Goto(t, IF k.list[Senders] # <<>> THEN "sched" ELSE "run")
       /\ WaitsFor(t, 0)
  ELSE IF time = 0
  THEN /\ Return(t)
       /\ Quiet /\ UNCHANGED mb
  ELSE /\ k' = BlockOn(k, Receivers, t, Flag, time)
       /\ Goto(t, "recv_sched")
       /\ WaitsFor(t, time)
       /\ Quiet /\ UNCHANGED mb

Recv(t, time) ==
  /\ Calls(t, IF time = 0 THEN "tryrecv" ELSE IF time > 0 THEN "recv_timed" ELSE "recv_wait")
  /\ alive = "alive"
  /\ RecvBody(t, time)
  /\ UNCHANGED <<isr, alive, value>>

RecvSchedule(t) == IpcSchedule(t, "recv_sched", "recv_back") /\ Quiet /\ UNCHANGED <<mb, alive, value>>

RecvBack(t) ==
  /\ Running(t, "recv_back")
  /\ IF k.err[t] = "EOK" THEN RecvBody(t, timeout[t])
     ELSE Return(t) /\ Quiet /\ UNCHANGED mb
  /\ UNCHANGED <<isr, alive, value>>

IsrRecv ==
  /\ isr = "none" /\ alive = "alive"
  /\ ~Empty
  /\ got' = mb.msg_pool[mb.out_offset]
  /\ mb' = Fetched
  /\ k' = IF k.list[Senders] # <<>> THEN rt_schedule(WakeSender(k)) ELSE k
  /\ UNCHANGED <<isr, pc, timeout, alive, value>>

Schedule(t) == IpcSchedule(t, "sched", "run") /\ Quiet /\ UNCHANGED <<mb, alive, value>>

-----------------------------------------------------------------------------
(* Reset, deletion and a new mailbox.                                      *)

\* rt_mb_control(RT_IPC_CMD_RESET)
Reset(t) ==
  /\ Calls(t, "reset") /\ alive = "alive"
  /\ k' = rt_ipc_list_resume_all(rt_ipc_list_resume_all(k, Receivers), Senders)
  /\ mb' = NewMailbox
  /\ Goto(t, "sched")
  /\ Quiet /\ UNCHANGED <<isr, timeout, alive, value>>

Waiting == ToSet(k.list[Receivers]) \cup ToSet(k.list[Senders])
Woken(list, labels) ==
  {t \in Thread : pc[t] \in labels /\ t \notin ToSet(k.list[list]) /\ k.err[t] = "EOK"}
WokenReceivers == Woken(Receivers, {"recv_sched", "recv_back"})
WokenSenders == Woken(Senders, {"send_sched", "send_back"})

\* rt_mb_delete and rt_mb_detach
Delete(t) ==
  /\ Calls(t, "delete") /\ alive = "alive"
  /\ WokenReceivers \cup WokenSenders = {}
  /\ \A u \in Waiting : ~TimerActive(k, u)
  /\ alive' = "dying"
  /\ Goto(t, "close_recv")
  /\ Quiet /\ UNCHANGED <<k, isr, timeout, mb, value>>

DeleteResume(t) ==
  /\ \/ CloseList(t, Receivers, "close_recv", "resume_recv", "close_send")
     \/ CloseList(t, Senders, "close_send", "resume_send", "free")
  /\ Quiet /\ UNCHANGED <<isr, timeout, mb, alive, value>>

DeleteObject(t) ==
  /\ Running(t, "free")
  /\ alive' = "gone"
  /\ mb' = NewMailbox
  /\ Goto(t, "run")
  /\ Quiet /\ UNCHANGED <<k, isr, timeout, value>>

\* rt_mb_create or rt_mb_init in the same place.
Create(t) ==
  /\ Calls(t, "create") /\ alive = "gone"
  /\ alive' = "alive"
  /\ mb' = NewMailbox
  /\ k' = [k EXCEPT !.list[Receivers] = <<>>, !.list[Senders] = <<>>]
  /\ Quiet /\ UNCHANGED <<isr, pc, timeout, value>>

-----------------------------------------------------------------------------
Tick == IpcTick /\ Quiet /\ UNCHANGED <<mb, alive, value>>
TimerCheck == IpcTimerCheck /\ Quiet /\ UNCHANGED <<mb, alive, value>>

Step(t) ==
  \/ \E v \in Sends[t], time \in Timeout : SendWait(t, v, time)
  \/ SendSchedule(t) \/ SendBack(t)
  \/ \E time \in Timeout : Recv(t, time)
  \/ RecvSchedule(t) \/ RecvBack(t) \/ Schedule(t)
  \/ Reset(t) \/ Delete(t) \/ DeleteResume(t) \/ DeleteObject(t) \/ Create(t)

Interrupt == Tick \/ TimerCheck \/ (\E v \in Word : IsrSend(v)) \/ IsrRecv

Next == (\E t \in Thread : Step(t)) \/ Interrupt

Spec == Init /\ [][Next]_vars

\* Ticks keep coming and are served to the end; a thread that is given the
\* processor again and again makes progress in the end.
Fairness ==
  /\ WF_vars(Tick)
  /\ WF_vars(TimerCheck)
  /\ \A t \in Thread : SF_vars(Step(t))

FairSpec == Spec /\ Fairness

-----------------------------------------------------------------------------
(* Properties.                                                             *)

\* The ring with its two offsets, the blocked senders that try again and the
\* handlers implement a bounded queue: no word is lost, doubled or reordered,
\* and what rt_mb_recv stores in *value is the oldest word.
Content == [i \in 1..mb.entry |-> mb.msg_pool[(mb.out_offset + i - 1) % Size]]

Abstract == INSTANCE QueueSpec WITH
  Message <- Word, Nothing <- NoWord, Reader <- {"caller"},
  Sender <- {}, Resets <- TRUE, sending <- [s \in {} |-> NoWord],
  queue <- Content, held <- [r \in {"caller"} |-> got]

ImplementsQueue == Abstract!Spec

\* Nobody is left on a list while what it waits for is there: the mail is no
\* more than the receivers that were woken and have not looked yet can take,
\* and the room no more than the woken senders can fill.
NoStrandedThread ==
  /\ k.list[Receivers] # <<>> => mb.entry <= Cardinality(WokenReceivers)
  /\ k.list[Senders] # <<>> => Size - mb.entry <= Cardinality(WokenSenders)

\* A call with a timeout made by a thread of the highest priority returns,
\* also if other threads of that priority are faster each time it is woken:
\* the timeout that is left shrinks.
TimedCallReturns ==
  \A t \in Thread : InitPrio[t] = 0 =>
    (pc[t] \in {"send_sched", "send_back", "recv_sched", "recv_back"} /\ timeout[t] # Forever
       ~> pc[t] = "run")
=============================================================================
