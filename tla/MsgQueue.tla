------------------------------ MODULE MsgQueue -------------------------------
(***************************************************************************)
(* The message queue of src/ipc.c at the level of its pointers: a pool of  *)
(* nodes that are chained in the free list, in the queue, or in the hands  *)
(* of a call that copies a message in or out with interrupts enabled.      *)
(*                                                                         *)
(* Threads send, send urgently, receive with any timeout, reset and delete;*)
(* interrupt handlers send.  Copying is one step: a node in somebody's     *)
(* hands is touched by nobody else (NodesAccounted).                       *)
(*                                                                         *)
(* Rule of use: when a queue is deleted nobody is inside a call on it but  *)
(* threads that sleep on it without a timeout, and nobody starts one.  The *)
(* idle thread does not wait for a message.                                *)
(***************************************************************************)
EXTENDS Ipc

CONSTANTS MqList,   \* mq->parent.suspend_thread
          MqFlag,   \* RT_IPC_FLAG_FIFO or RT_IPC_FLAG_PRIO
          MqMax,    \* mq->max_msgs
          Msg,      \* contents of a message
          Null      \* RT_NULL, and the contents of a free node

ASSUME MqAssumption ==
  /\ MqList \in WaitList
  /\ MqFlag \in {"FIFO", "PRIO"}
  /\ MqMax \in Nat \ {0}
  /\ Null \notin Msg \cup (1..MqMax)
  /\ Prog[Idle] \cap {"mq_recv", "mq_recv_timed"} = {}

VARIABLES mq,       \* fields of the queue and of the nodes of its pool
          mqalive,  \* "alive", "dying" while it is deleted, "gone" after
          msg       \* the local variable msg of each call: a node in its hands

mqvars == <<mq, mqalive, msg>>

Node == 1..MqMax
MqLabel == {"mq_copy", "mq_copy_urgent", "mq_link", "mq_link_urgent", "mq_recv_sched",
            "mq_recv_back", "mq_copy_out", "mq_put_free", "mq_close", "mq_resume", "mq_free"}

MqTypeOK ==
  /\ mq \in [next : [Node -> Node \cup {Null}], data : [Node -> Msg \cup {Null}],
             head : Node \cup {Null}, tail : Node \cup {Null}, free : Node \cup {Null},
             entry : 0..MqMax]
  /\ mqalive \in {"alive", "dying", "gone"}
  /\ msg \in [Thread -> Node \cup {Null}]

\* rt_mq_init, rt_mq_create: the last node of the pool is the first free one.
NewQueue ==
  [next |-> [n \in Node |-> IF n = 1 THEN Null ELSE n - 1], data |-> [n \in Node |-> Null],
   head |-> Null, tail |-> Null, free |-> MqMax, entry |-> 0]

MqInit ==
  /\ mq = NewQueue
  /\ mqalive = "alive"
  /\ msg = [t \in Thread |-> Null]

Takes(t, n) == msg' = [msg EXCEPT ![t] = n]

-----------------------------------------------------------------------------
(* rt_mq_send and rt_mq_urgent.                                            *)

TakeFree(q) == [q EXCEPT !.free = q.next[q.free]]

MqSend(t, urgent) ==
  /\ Calls(t, IF urgent THEN "mq_urgent" ELSE "mq_send") /\ mqalive = "alive"
  /\ mq.free # Null
  /\ Takes(t, mq.free)
  /\ mq' = TakeFree(mq)
  /\ Goto(t, IF urgent THEN "mq_copy_urgent" ELSE "mq_copy")
  /\ UNCHANGED <<k, isr, timeout, mqalive>>

\* The message is an argument of the call, chosen here where it is first read.
Filled(q, n, m) == [q EXCEPT !.data[n] = m]

MqCopy(t, m) ==
  /\ \/ /\ Running(t, "mq_copy")
        /\ mq' = [Filled(mq, msg[t], m) EXCEPT !.next[msg[t]] = Null]
        /\ Goto(t, "mq_link")
     \/ /\ Running(t, "mq_copy_urgent")
        /\ mq' = Filled(mq, msg[t], m)
        /\ Goto(t, "mq_link_urgent")
  /\ UNCHANGED <<k, isr, timeout, mqalive, msg>>

LinkTail(q, n) ==
  [q EXCEPT !.next = IF q.tail # Null THEN [@ EXCEPT ![q.tail] = n] ELSE @,
            !.tail = n,
            !.head = IF @ = Null THEN n ELSE @,
            !.entry = @ + 1]

LinkHead(q, n) ==
  [q EXCEPT !.next[n] = q.head, !.head = n, !.tail = IF @ = Null THEN n ELSE @,
            !.entry = @ + 1]

\* Mutation of WakeReceiver: only the first message of an empty queue wakes.
WakeIfEmpty(s) == IF mq.entry = 0 THEN ResumeFirst(s, MqList) ELSE s
WakeReceiver(s) == ResumeFirst(s, MqList)

MqLink(t) ==
  /\ \/ Running(t, "mq_link") /\ mq' = LinkTail(mq, msg[t])
     \/ Running(t, "mq_link_urgent") /\ mq' = LinkHead(mq, msg[t])
  /\ k' = WakeReceiver(k)
  /\ Goto(t, IF k.list[MqList] # <<>> THEN "sched" ELSE "run")
  /\ Takes(t, Null)
  /\ UNCHANGED <<isr, timeout, mqalive>>

\* A handler's call is not interrupted by threads.
MqIsrSend(m) ==
  /\ isr = "none" /\ mqalive = "alive"
  /\ mq.free # Null
  /\ mq' = LinkTail([Filled(TakeFree(mq), mq.free, m) EXCEPT !.next[mq.free] = Null], mq.free)
  /\ k' = IF k.list[MqList] # <<>> THEN rt_schedule(WakeReceiver(k)) ELSE k
  /\ UNCHANGED <<isr, pc, timeout, mqalive, msg>>

-----------------------------------------------------------------------------
(* rt_mq_recv                                                              *)

UnlinkHead(q) == [q EXCEPT !.head = q.next[q.head], !.tail = IF @ = q.head THEN Null ELSE @]

\* The contents of a free node are read by nobody: the model forgets them.
PutFree(q, n) == [q EXCEPT !.next[n] = q.free, !.free = n, !.data[n] = Null]

\* Mutations of Unlinked: the tail is not cleared with the last message; the
\* node is put on the free list before the message is copied.
UnlinkedKeepTail(q) == [q EXCEPT !.head = q.next[q.head], !.entry = @ - 1]
UnlinkedAndFreed(q) == PutFree([UnlinkHead(q) EXCEPT !.entry = @ - 1], q.head)
Unlinked(q) == [UnlinkHead(q) EXCEPT !.entry = @ - 1]

RecvBody(t, time) ==
  IF mq.entry > 0
  THEN /\ Takes(t, mq.head)
       /\ mq' = Unlinked(mq)
       /\ Goto(t, "mq_copy_out")
       /\ WaitsFor(t, 0)
       /\ UNCHANGED k
  ELSE IF time = 0
  THEN Return(t) /\ UNCHANGED <<mq, msg>>
  ELSE /\ k' = BlockOn(k, MqList, t, MqFlag, time)
       /\ Goto(t, "mq_recv_sched")
       /\ WaitsFor(t, time)
       /\ UNCHANGED <<mq, msg>>

MqRecv(t, time) ==
  /\ Calls(t, IF time = 0 THEN "mq_tryrecv" ELSE IF time > 0 THEN "mq_recv_timed" ELSE "mq_recv")
  /\ mqalive = "alive"
  /\ RecvBody(t, time)
  /\ UNCHANGED <<isr, mqalive>>

MqRecvSchedule(t) == IpcSchedule(t, "mq_recv_sched", "mq_recv_back") /\ UNCHANGED mqvars

MqRecvBack(t) ==
  /\ Running(t, "mq_recv_back")
  /\ IF k.err[t] = "EOK" THEN RecvBody(t, timeout[t]) ELSE Return(t) /\ UNCHANGED <<mq, msg>>
  /\ UNCHANGED <<isr, mqalive>>

\* The message is read: mq.data[msg[t]] is what the caller gets.
MqCopyOut(t) ==
  /\ Running(t, "mq_copy_out")
  /\ Goto(t, "mq_put_free")
  /\ UNCHANGED <<k, isr, timeout, mqvars>>

MqPutFree(t) ==
  /\ Running(t, "mq_put_free")
  /\ mq' = PutFree(mq, msg[t])
  /\ Takes(t, Null)
  /\ Goto(t, "run")
  /\ UNCHANGED <<k, isr, timeout, mqalive>>

-----------------------------------------------------------------------------
(* Reset, deletion and a new queue.                                        *)

\* Nodes from p on, along next; more than MqMax of them on a cycle.
Chain(q, p) ==
  LET at[i \in 0..MqMax] ==
        IF i = 0 THEN p ELSE IF at[i - 1] = Null THEN Null ELSE q.next[at[i - 1]]
  IN  [i \in 1..Cardinality({j \in 0..MqMax : at[j] # Null}) |-> at[i - 1]]

\* The loop that moves every message to the free list.
Emptied(q) ==
  LET after[i \in 0..MqMax] ==
        IF i = 0 THEN q
        ELSE LET r == after[i - 1]
             IN  IF r.head = Null THEN r ELSE PutFree(UnlinkHead(r), r.head)
  IN  [after[MqMax] EXCEPT !.entry = 0]

\* rt_mq_control(RT_IPC_CMD_RESET)
MqReset(t) ==
  /\ Calls(t, "mq_reset") /\ mqalive = "alive"
  /\ k' = rt_ipc_list_resume_all(k, MqList)
  /\ mq' = Emptied(mq)
  /\ Goto(t, "sched")
  /\ UNCHANGED <<isr, timeout, mqalive, msg>>

MqWoken ==
  {t \in Thread : /\ pc[t] \in {"mq_recv_sched", "mq_recv_back"}
                  /\ t \notin ToSet(k.list[MqList])
                  /\ k.err[t] = "EOK"}

\* rt_mq_delete and rt_mq_detach
MqDelete(t) ==
  /\ Calls(t, "mq_delete") /\ mqalive = "alive"
  /\ MqWoken = {}
  /\ \A u \in Thread : msg[u] = Null
  /\ \A u \in ToSet(k.list[MqList]) : ~TimerActive(k, u)
  /\ mqalive' = "dying"
  /\ Goto(t, "mq_close")
  /\ UNCHANGED <<k, isr, timeout, mq, msg>>

MqDeleteResume(t) ==
  /\ CloseList(t, MqList, "mq_close", "mq_resume", "mq_free")
  /\ UNCHANGED <<isr, timeout, mqvars>>

MqDeleteObject(t) ==
  /\ Running(t, "mq_free")
  /\ mqalive' = "gone"
  /\ mq' = NewQueue
  /\ Goto(t, "run")
  /\ UNCHANGED <<k, isr, timeout, msg>>

MqCreate(t) ==
  /\ Calls(t, "mq_create") /\ mqalive = "gone"
  /\ mqalive' = "alive"
  /\ mq' = NewQueue
  /\ k' = [k EXCEPT !.list[MqList] = <<>>]
  /\ UNCHANGED <<isr, pc, timeout, msg>>

-----------------------------------------------------------------------------
MqStep(t) ==
  \/ \E urgent \in BOOLEAN : MqSend(t, urgent)
  \/ \E m \in Msg : MqCopy(t, m)
  \/ MqLink(t)
  \/ \E time \in Timeout : MqRecv(t, time)
  \/ MqRecvSchedule(t) \/ MqRecvBack(t) \/ MqCopyOut(t) \/ MqPutFree(t)
  \/ MqReset(t) \/ MqDelete(t) \/ MqDeleteResume(t) \/ MqDeleteObject(t) \/ MqCreate(t)

MqInterrupt == \E m \in Msg : MqIsrSend(m)

-----------------------------------------------------------------------------
(* Properties.                                                             *)

\* The chains, with senders and receivers halfway through a copy, implement a
\* bounded queue: what a call has copied in is linked at the end its call says,
\* is handed out once, in order, and does not change in the hands of the
\* receiver that copies it out.
Queued == Chain(mq, mq.head)

MqAbstract == INSTANCE QueueSpec WITH
  Message <- Msg, Nothing <- Null, Reader <- Thread, Size <- MqMax,
  Sender <- Thread, Resets <- TRUE,
  queue <- [i \in DOMAIN Queued |-> mq.data[Queued[i]]],
  sending <- [t \in Thread |->
    [message |-> IF pc[t] \in {"mq_link", "mq_link_urgent"} THEN mq.data[msg[t]] ELSE Null,
     urgent |-> pc[t] = "mq_link_urgent"]],
  held <- [t \in Thread |-> IF pc[t] \in {"mq_copy_out", "mq_put_free"}
                            THEN mq.data[msg[t]] ELSE Null]

MqImplementsQueue == MqAbstract!Spec

\* Every node of the pool is in exactly one place, whatever call is halfway:
\* in the free list, in the queue, or in the hands of one call; tail is the
\* last node of the queue and entry its length.
InHands(n) == {t \in Thread : msg[t] = n}
Free == Chain(mq, mq.free)

NodesAccounted ==
  /\ \A n \in Node : Cardinality({i \in DOMAIN Queued : Queued[i] = n})
                     + Cardinality({i \in DOMAIN Free : Free[i] = n})
                     + Cardinality(InHands(n)) = 1
  /\ mq.entry = Len(Queued)
  /\ mq.tail = IF Queued = <<>> THEN Null ELSE Last(Queued)

\* No receiver sleeps while there are more messages than the receivers that
\* were woken for one and have not looked yet.
MqNoStrandedReceiver == k.list[MqList] # <<>> => mq.entry <= Cardinality(MqWoken)
=============================================================================
