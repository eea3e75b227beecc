--------------------------------- MODULE Pipe ---------------------------------
(***************************************************************************)
(* The pipe of components/drivers/src/pipe.c behind its file operations: a *)
(* ring buffer under a mutex, and two wait queues (waitqueue.c), one for   *)
(* the readers of an empty pipe and one for the writers of a full one.     *)
(*                                                                         *)
(* A wait begins after the mutex was given up: a wake-up that comes before *)
(* it is kept in the queue's flag.  A wake-up wakes one thread.            *)
(*                                                                         *)
(* Rules of use: one thread blocks as a reader and one as a writer; others *)
(* use the pipe without blocking.  A thread closes what it has opened, and *)
(* outside its other calls.                                                *)
(***************************************************************************)
EXTENDS Ipc, RingBuffer

CONSTANTS PipeLock,  \* pipe->lock.parent.suspend_thread
          Access,    \* Access[t]: "r", "w" or "rw", what t opens the pipe for
          NonBlock,  \* the threads that set O_NONBLOCK
          Payload    \* the data that is written, cut to what a call writes

ASSUME PipeAssumption ==
  /\ Byte = 0..(2 * BufSize) /\ Payload \subseteq [1..(BufSize + 1) -> Byte]
  /\ PipeLock \in WaitList
  /\ Access \in [Thread -> {"r", "w", "rw"}]
  /\ NonBlock \subseteq Thread
  /\ \A m \in {"r", "w"} : Cardinality({t \in Thread : "pipe" \in Prog[t] /\ t \notin NonBlock
                                                        /\ Access[t] \in {m, "rw"}}) <= 1

VARIABLES pipe,   \* fields of the pipe
          opened, \* the threads that have a file descriptor of it
          rest,   \* count - ret of each thread's write
          after   \* where a thread goes on after its rt_schedule

pipevars == <<pipe, opened, rest, after>>

NoFifo == <<>>  \* RT_NULL
Queue == {"reader", "writer"}
PipeLabel ==
  {"pp_sched", "pp_out", "open_in", "close_in", "close_readers", "close_writers", "close_end",
   "read_in", "read_done", "read_out", "read_idle", "read_wait", "read_woken", "read_lock",
   "write_in", "write_again", "write_out", "write_end", "write_idle", "write_wait",
   "write_woken", "write_lock", "write_last"}

PipeTypeOK ==
  /\ pipe \in [fifo : Ring \cup {NoFifo}, readers : Nat, writers : Nat, ref_count : Nat,
               owner : Thread \cup {NoThread}, original : Prio,
               flag : [Queue -> BOOLEAN], waiting : [Queue -> Seq(Thread)]]
  /\ opened \subseteq Thread
  /\ rest \in [Thread -> 0..(BufSize + 1)]
  /\ after \in [Thread -> PipeLabel \cup {"run"}]

\* rt_pipe_create
PipeInit ==
  /\ pipe = [fifo |-> NoFifo, readers |-> 0, writers |-> 0, ref_count |-> 0,
             owner |-> NoThread, original |-> IdlePrio,
             flag |-> [q \in Queue |-> FALSE], waiting |-> [q \in Queue |-> <<>>]]
  /\ opened = {}
  /\ rest = [t \in Thread |-> 0]
  /\ after = [t \in Thread |-> "run"]

Reads(t) == Access[t] \in {"r", "rw"}
Writes(t) == Access[t] \in {"w", "rw"}

-----------------------------------------------------------------------------
(* rt_mutex_take, rt_mutex_release, with priority inheritance, and the two *)
(* calls of the wait queue.                                                *)

Switch(t, next) == Goto(t, "pp_sched") /\ after' = [after EXCEPT ![t] = next]
GoOn(t, next) == Goto(t, next) /\ UNCHANGED after

PipeSchedule(t) ==
  /\ IpcSchedule(t, "pp_sched", after[t])
  /\ after' = [after EXCEPT ![t] = "run"]
  /\ UNCHANGED <<pipe, opened, rest>>

PriorityTo(s, t, p) == IF s.prio[t] # p THEN ChangePriority(s, t, p) ELSE s

Lock(t, next) ==
  IF pipe.owner = NoThread
  THEN /\ pipe' = [pipe EXCEPT !.owner = t, !.original = k.prio[t]]
       /\ GoOn(t, next)
       /\ UNCHANGED k
  ELSE /\ LET p == k.prio[t]
              o == pipe.owner
          IN  k' = rt_ipc_list_suspend(IF p < k.prio[o] THEN ChangePriority(k, o, p) ELSE k,
                                       PipeLock, t, "FIFO")
       /\ Switch(t, next)
       /\ UNCHANGED pipe

Unlock(t, next) ==
  LET s == PriorityTo(k, t, pipe.original)
  IN  IF s.list[PipeLock] # <<>>
      THEN LET o == Head(s.list[PipeLock])
           IN  /\ pipe' = [pipe EXCEPT !.owner = o, !.original = s.prio[o]]
               /\ k' = rt_ipc_list_resume(s, PipeLock)
               /\ Switch(t, next)
      ELSE /\ pipe' = [pipe EXCEPT !.owner = NoThread]
           /\ k' = s
           /\ GoOn(t, next)

\* Mutation of Flagged: a wake-up is kept only if nobody waits for it.
FlagIfWaiting(p, q) == IF p.waiting[q] # <<>> THEN [p EXCEPT !.flag[q] = TRUE] ELSE p
Flagged(p, q) == [p EXCEPT !.flag[q] = TRUE]

rt_wqueue_wakeup(t, q, next) ==
  IF pipe.waiting[q] # <<>>
  THEN /\ k' = rt_thread_resume(k, Head(pipe.waiting[q]))
       /\ pipe' = [Flagged(pipe, q) EXCEPT !.waiting[q] = Tail(@)]
       /\ Switch(t, next)
  ELSE /\ pipe' = Flagged(pipe, q)
       /\ GoOn(t, next)
       /\ UNCHANGED k

\* With -1 for the time, up to rt_schedule.
rt_wqueue_wait(t, q, woken, next) ==
  IF pipe.flag[q]
  THEN /\ pipe' = [pipe EXCEPT !.flag[q] = FALSE]
       /\ GoOn(t, next)
       /\ UNCHANGED k
  ELSE /\ pipe' = [pipe EXCEPT !.waiting[q] = Append(@, t)]
       /\ k' = rt_thread_suspend(k, t)
       /\ Switch(t, woken)

Woken(t, q, next) ==
  /\ pipe' = [pipe EXCEPT !.flag[q] = FALSE,
                          !.waiting[q] = Without(@, t)]
  /\ GoOn(t, next)
  /\ UNCHANGED k

\* The end of a section under the mutex.
PipeUnlock(t) ==
  /\ \/ Running(t, "pp_out") /\ Unlock(t, "run")
     \/ Running(t, "read_out") /\ Unlock(t, "read_idle")
     \/ Running(t, "write_out") /\ Unlock(t, "write_idle")
     \/ Running(t, "write_end") /\ Unlock(t, "write_last")
  /\ UNCHANGED <<isr, timeout, opened, rest>>

PipeLocked(t) ==
  /\ \/ Running(t, "read_lock") /\ Lock(t, "read_in")
     \/ Running(t, "write_lock") /\ Lock(t, "write_again")
  /\ UNCHANGED <<isr, timeout, opened, rest>>

-----------------------------------------------------------------------------
(* pipe_fops_open and pipe_fops_close                                      *)

Open(t) ==
  /\ Calls(t, "pipe") /\ t \notin opened
  /\ Lock(t, "open_in")
  /\ UNCHANGED <<isr, timeout, opened, rest>>

OneIf(b) == IF b THEN 1 ELSE 0

OpenBody(t) ==
  /\ Running(t, "open_in")
  /\ pipe' = [pipe EXCEPT !.fifo = IF pipe.ref_count = 0 THEN NewRing ELSE @,
                          !.readers = @ + OneIf(Reads(t)), !.writers = @ + OneIf(Writes(t)),
                          !.ref_count = @ + 1]
  /\ opened' = opened \cup {t}
  /\ GoOn(t, "pp_out")
  /\ UNCHANGED <<k, isr, timeout, rest>>

Close(t) ==
  /\ Calls(t, "pipe") /\ t \in opened
  /\ Lock(t, "close_in")
  /\ UNCHANGED <<isr, timeout, opened, rest>>

CloseBody(t) ==
  /\ Running(t, "close_in")
  /\ pipe' = [pipe EXCEPT !.readers = @ - OneIf(Reads(t)), !.writers = @ - OneIf(Writes(t))]
  /\ GoOn(t, "close_readers")
  /\ UNCHANGED <<k, isr, timeout, opened, rest>>

CloseWake(t) ==
  /\ \/ /\ Running(t, "close_readers")
        /\ IF pipe.writers = 0 THEN rt_wqueue_wakeup(t, "reader", "close_writers")
           ELSE GoOn(t, "close_writers") /\ UNCHANGED <<k, pipe>>
     \/ /\ Running(t, "close_writers")
        /\ IF pipe.readers = 0 THEN rt_wqueue_wakeup(t, "writer", "close_end")
           ELSE GoOn(t, "close_end") /\ UNCHANGED <<k, pipe>>
  /\ UNCHANGED <<isr, timeout, opened, rest>>

CloseEnd(t) ==
  /\ Running(t, "close_end")
  /\ pipe' = [pipe EXCEPT !.fifo = IF pipe.ref_count = 1 THEN NoFifo ELSE @, !.ref_count = @ - 1]
  /\ opened' = opened \ {t}
  /\ GoOn(t, "pp_out")
  /\ UNCHANGED <<k, isr, timeout, rest>>

-----------------------------------------------------------------------------
(* pipe_fops_read.  The test outside the lock is made again under it.      *)

Read(t) ==
  /\ Calls(t, "pipe") /\ t \in opened /\ Reads(t)
  /\ pipe.writers > 0
  /\ Lock(t, "read_in")
  /\ UNCHANGED <<isr, timeout, opened, rest>>

ReadBody(t, count) ==
  /\ Running(t, "read_in")
  /\ IF pipe.writers = 0 THEN GoOn(t, "pp_out") /\ UNCHANGED pipe
     ELSE IF DataLen(pipe.fifo) > 0
     THEN pipe' = [pipe EXCEPT !.fifo = RingGet(@, count)] /\ GoOn(t, "read_done")
     ELSE GoOn(t, IF t \in NonBlock THEN "pp_out" ELSE "read_out") /\ UNCHANGED pipe
  /\ UNCHANGED <<k, isr, timeout, opened, rest>>

ReadWake(t) ==
  /\ \/ Running(t, "read_done") /\ rt_wqueue_wakeup(t, "writer", "pp_out")
     \/ Running(t, "read_idle") /\ rt_wqueue_wakeup(t, "writer", "read_wait")
  /\ UNCHANGED <<isr, timeout, opened, rest>>

ReadWait(t) ==
  /\ \/ Running(t, "read_wait") /\ rt_wqueue_wait(t, "reader", "read_woken", "read_lock")
     \/ Running(t, "read_woken") /\ Woken(t, "reader", "read_lock")
  /\ UNCHANGED <<isr, timeout, opened, rest>>

-----------------------------------------------------------------------------
(* pipe_fops_write                                                         *)

Write(t, count) ==
  /\ Calls(t, "pipe") /\ t \in opened /\ Writes(t)
  /\ pipe.readers > 0
  /\ rest' = [rest EXCEPT ![t] = count]
  /\ Lock(t, "write_in")
  /\ UNCHANGED <<isr, timeout, opened>>

\* What is written is data followed by anything; "write_again" is every look at
\* the pipe but the first, after which the reader is woken at the end.
WriteBody(t, data) ==
  LET n == Lower(rest[t], SpaceLen(pipe.fifo))
  IN  /\ Running(t, "write_in") \/ Running(t, "write_again")
      /\ IF pipe.readers = 0
         THEN /\ GoOn(t, IF pc[t] = "write_in" THEN "pp_out" ELSE "write_end")
              /\ rest' = [rest EXCEPT ![t] = 0]
              /\ UNCHANGED pipe
         ELSE /\ pipe' = [pipe EXCEPT !.fifo = RingPut(@, SubSeq(data, 1, rest[t]))]
              /\ IF n = rest[t] \/ t \in NonBlock
                 THEN GoOn(t, "write_end") /\ rest' = [rest EXCEPT ![t] = 0]
                 ELSE GoOn(t, "write_out") /\ rest' = [rest EXCEPT ![t] = @ - n]
      /\ UNCHANGED <<k, isr, timeout, opened>>

WriteWake(t) ==
  /\ \/ Running(t, "write_idle") /\ rt_wqueue_wakeup(t, "reader", "write_wait")
     \/ Running(t, "write_last") /\ rt_wqueue_wakeup(t, "reader", "run")
  /\ UNCHANGED <<isr, timeout, opened, rest>>

WriteWait(t) ==
  /\ \/ Running(t, "write_wait") /\ rt_wqueue_wait(t, "writer", "write_woken", "write_lock")
     \/ Running(t, "write_woken") /\ Woken(t, "writer", "write_lock")
  /\ UNCHANGED <<isr, timeout, opened, rest>>

-----------------------------------------------------------------------------
PipeStep(t) ==
  \/ PipeSchedule(t) \/ PipeUnlock(t) \/ PipeLocked(t)
  \/ Open(t) \/ OpenBody(t) \/ Close(t) \/ CloseBody(t) \/ CloseWake(t) \/ CloseEnd(t)
  \/ Read(t) \/ (\E count \in 1..BufSize : ReadBody(t, count)) \/ ReadWake(t) \/ ReadWait(t)
  \/ (\E count \in 1..(BufSize + 1) : Write(t, count)) \/ (\E data \in Payload : WriteBody(t, data))
  \/ WriteWake(t) \/ WriteWait(t)
  \/ Pause(t) /\ UNCHANGED pipevars

-----------------------------------------------------------------------------
(* Properties.                                                             *)

At(t) == IF pc[t] = "pp_sched" THEN after[t] ELSE pc[t]
OnTheWay(labels) == \E t \in Thread : At(t) \in labels

\* A reader sleeps on an empty pipe that somebody may write, and a writer on a
\* full one that somebody may read, unless another thread is on its way to the
\* wake-up; whoever waits for the mutex waits for an owner.
PipeNobodyStranded ==
  /\ k.list[PipeLock] # <<>> => pipe.owner # NoThread
  /\ pipe.waiting["reader"] # <<>> /\ (DataLen(pipe.fifo) > 0 \/ pipe.writers = 0) =>
       OnTheWay({"write_out", "write_end", "write_idle", "write_last", "close_readers"})
  /\ pipe.waiting["writer"] # <<>> /\ (SpaceLen(pipe.fifo) > 0 \/ pipe.readers = 0) =>
       OnTheWay({"read_done", "read_out", "read_idle", "close_readers", "close_writers"})
  /\ pipe.fifo = NoFifo <=> opened = {}

\* The pipe's buffer with a byte of its own in each place, and n bytes more.
OwnBytes == [pipe.fifo EXCEPT !.buffer = [i \in 0..(BufSize - 1) |-> i]]
NewBytes(n) == [i \in 1..n |-> BufSize + i - 1]

\* The buffer of the pipe is a queue of bytes to every call of ringbuffer.c, but
\* for the forced put that DiscardsOnlyOld is about.
RingIsQueue ==
  pipe.fifo # NoFifo => \A n \in 1..(BufSize + 1) : IsQueueOfBytes(OwnBytes, NewBytes(n))

\* ringbuffer.c:110 of the forced put: "When the buffer is full, it will discard
\* the old data."  The code may lose the new data as well.
DiscardsOnlyOld ==
  pipe.fifo # NoFifo => \A n \in 1..(BufSize + 1) : DiscardsOld(OwnBytes, NewBytes(n))
=============================================================================
