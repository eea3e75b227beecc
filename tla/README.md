# A TLA+ development of the RT-Thread kernel

This directory models the kernel of RT-Thread (`src/rt-thread/src`) and the
helpers for its drivers (`src/rt-thread/components/drivers/src`): scheduler,
threads, timers, idle thread, the inter-process communication objects, memory
pool and heap, completion, data queue, work queue, ring buffer and pipe. The
modules are translated from the C code (sources are GBK-encoded) and
model-checked with TLC on small instances. What TLAPS proves for every instance
is in section 5.

## 1. Inventory of the system

RT-Thread is a preemptive real-time kernel for one core. Threads call the
kernel directly; the kernel protects its data by disabling interrupts for short
regions (`rt_hw_interrupt_disable` / `_enable`) and, for longer ones, by locking
the scheduler (`rt_enter_critical`). What can happen between two such regions
is any interrupt (the tick among them) and, when the interrupt or a call of
`rt_schedule` switches threads, any step of any ready thread.

| Component (source) | State | Operations | Talks to |
|---|---|---|---|
| Scheduler (`scheduler.c`, `__rt_ffs` of `kservice.c`) | ready table of lists by priority, priority bitmap, current thread, lock nesting | `rt_schedule`, insert, remove, enter/exit critical, start | everybody; reads what threads and timers change |
| Threads (`thread.c`) | per thread: state, current and initial priority, error, time slice, one list node `tlist`, one timer | init/create, startup, sleep, yield, suspend, resume, control, delete/detach, exit, timeout function | scheduler, timers, defunct list |
| Idle thread, startup (`idle.c`, `components.c`) | `rt_thread_defunct` | reap and free dead threads; power-on order | threads, object container |
| Tick and timers (`clock.c`, `timer.c`) | `rt_tick`, hard and soft timer lists | `rt_tick_increase`, `rt_timer_check`, start/stop/control, timer thread | thread timeout functions |
| Semaphore (`ipc.c`) | 16-bit value, suspend list | take, trytake, release, control(reset), delete/detach | threads, thread timers, interrupt handlers |
| Mutex (`ipc.c`) | value, owner, hold, original priority, suspend list | take, trytake, release, delete/detach | threads; changes the owner's priority |
| Event, mailbox, message queue (`ipc.c`) | event set; ring of words; free and used message lists | send, receive, urgent, control, delete | threads, timers |
| Memory pool (`mempool.c`) | free block list, waiters and their count | alloc with timeout, free, delete | threads, timers |
| Heap (`mem.c`, `memheap.c`) | blocks of one memory area, a semaphore | malloc, realloc, free | semaphore |
| Object container (`object.c`) | list of objects per class | init, allocate, detach, delete, find | all objects |
| Signals (`signal.c`) | pending set, handlers, per thread | kill, mask, wait | threads (off by default) |
| Driver IPC (`components/drivers/src`) | completion flag, wait queue, work queue, data queue, ring buffer, pipe | wait/done, wakeup, submit/cancel, push/pop | threads, interrupt handlers |
| Device layer, interrupt entry (`device.c`, `irq.c`) | open counts, callbacks, interrupt nesting | open/close/read/write, enter/leave | drivers |
| Everything else (dfs, net, finsh, libc, CMSIS, lwp, vbus, drivers) | | | outside the kernel core, partly vendored |

**Hard behaviours.** Interrupts between the regions of one call; a timeout that
races a release, a resume or a deletion for the same thread; results that a
waker leaves in the thread (`thread->error`) and the woken call reads much
later; state tested before interrupts are disabled and used after
(`rt_thread_suspend`, `rt_thread_resume`, `rt_ipc_list_resume_all`); a thread
that dies while others, a timer or the processor still refer to it; wake-ups
while the scheduler is locked; inheritance of priorities that must come back;
counters with 8 and 16 bits. `PROJECT.json` lists each of them as a hazard at
the line where it bites, with the properties aimed at it.

**What makes each component correct.**

- *Scheduler, threads*: the bitmap, the queues and the thread states agree at
  every point where interrupts are enabled; a list node is on one list; the
  running thread is the highest ready one unless a call is about to reschedule
  or the scheduler is locked; dead threads stay dead and are freed unreferenced.
- *Timers*: only a suspended thread has a running timer (the assertion in
  `rt_thread_timeout`); each expiry is served once, in order; the order
  survives the wrap of the tick.
- *Semaphore*: tokens are neither lost nor duplicated; no thread sleeps while a
  token is there; the code a take returns is what happened to it; a timed take
  returns.
- *Mutex*: ownership is exclusive and equals what the calls returned; priority
  inheritance bounds inversion and a release undoes it.
- *Event, mailbox, message queue, pool*: nothing sent is lost, duplicated or
  reordered; nobody waits for what is available; a flag that is received and
  cleared is received once; a timed call returns.
- *Heap*: the blocks tile the memory, the free ones are joined, no block is
  handed out twice; what is free can be found.
- *Driver IPC*: no wake-up between a test and a wait is lost; queues and rings
  are queues; the work thread finds the work it was woken for.

## 2. Modules

```
Kernel            the kernel record k, its routines as operators, tick, thread timers
  Threads         life of a thread, idle thread                <- MCThreads
  Semaphore       rt_sem_*              refines SemaphoreSpec  <- MCSemaphore
  Mutex           rt_mutex_*                                   <- MCMutex
  Ipc             what objects with a waiting loop share
    Mailbox       rt_mb_*               refines QueueSpec      <- MCMailbox
    MsgQueue      rt_mq_*               refines QueueSpec
    Event         rt_event_*
      Messaging   MsgQueue and Event together                  <- MCMessaging
    MemPool       rt_mp_*
    DataQueue     rt_data_queue_*       refines QueueSpec
    Completion    rt_completion_*
    WorkQueue     rt_workqueue_*
    Heap          rt_malloc, rt_realloc, rt_free
    Pipe          rt_pipe_* with mutex and wait queues, on RingBuffer
      DriverIpc   these six, one at a time                     <- MCDriverIpc
RingBuffer        rt_ringbuffer_*, pure operators
TimerList         hard and soft timers, the timer thread       <- MCTimerList
KernelProofs      lists; what each kernel routine, and each call, preserves
  ThreadsProofs     the inductive invariant of Threads and its theorems
  SemaphoreProofs   the inductive invariant of Semaphore, its refinement
  MutexProofs       the inductive invariant of Mutex
  MailboxProofs     the inductive invariant of Mailbox, its refinement
  MessagingProofs   the inductive invariant of Messaging, its refinement
  MemoryProofs      heap and memory pool within DriverIpc
    DriverProofs      ring buffer, pipe, data queue and completion within DriverIpc
```

**Kernel.** The globals of the kernel and the fields of all thread objects form
one record `k`. A C routine that runs with interrupts disabled is an operator
from record to record with the routine's name, and a routine that calls another
applies its operator, so `rt_ipc_list_resume` is `rt_thread_resume` of the head
of a list, and so on. `k.list` maps every list a `tlist` node can be on (ready
queues, suspend lists, defunct list) to the sequence of threads on it;
`k.timers` is the active timer list, soonest first, and `k.left[t]` is
`timeout_tick - rt_tick`. `pc[t]` says between which two regions of which call a
thread is (`"run"`: in none). A thread takes a step only if it is `k.cur` and
no interrupt is being served. The tick interrupt is `rt_tick_increase` followed,
if a timer has expired, by one `rt_timer_check` step per timer, and no thread
step in between (`isr = "timer"`). Interrupts do not nest.

**Threads** has one action per region of each call of `thread.c`. A call that
works on another thread keeps it in `arg`. `alloc` is the set of thread objects
in the object container, what `rt_object_delete` and `rt_object_detach` remove
from. `owed` is an auxiliary variable: a call has made a thread ready and left
the rescheduling to its caller, as `rt_thread_resume` and
`RT_THREAD_CTRL_CHANGE_PRIORITY` do. `Prog[t]` is the set of calls a thread may
make, in any order and as often as it likes.

**Semaphore** cuts `rt_sem_take` at `rt_schedule`; deletion resumes one waiter
per region and the test of the list is a region of its own. A deleted semaphore
is created anew, also while calls on the old one are on their way back: all they
still read is `thread->error`. **SemaphoreSpec** is the promise: tokens, calls that wait and
their outcome, no scheduler. `Semaphore!ImplementsSemaphore` maps a waiting call
to "on the suspend list" and an outcome to the error code in the thread, from
the moment it is taken off the list: so it says that whoever takes a waiter off
the list decides what its call returns, for release, timeout, reset, delete and
all their interleavings.

**Mutex** has the recursive mutex with its inheritance and restoration of
priorities. `depth[t][m]` is an auxiliary count of the takes that have returned
to `t`, and `want[t]` the mutex of a call in progress; the invariants compare
them with `owner` and `hold`. `rt_mutex_delete` restores no priority: the history
variable `restPrio[t]` is the thread's own priority until it deletes a mutex it
owns, and what it then ran at afterwards; `PriorityRestored` compares it with the
priority of every thread that owns no mutex that still exists.

Kernel also has what every waiting call does: `BlockOn` (clear the error, suspend
on a list, start the timer), `ResumeFirst`, and the loop that fails all waiters of
a list with interrupts disabled.

**Ipc** holds what the objects with a waiting loop share besides: that loop with
interrupts enabled (`CloseList`), and the timeout. The C code keeps `timeout` and the
tick at which the wait began and subtracts on a retry; `timeout[t]` is the value
this subtraction would give now, counted down by the tick.

**Mailbox**, **MsgQueue**, **DataQueue** hand nothing to the thread they wake: it
looks again, another may have been faster, and it waits for what is left. Each is
shown to implement **QueueSpec**, a bounded FIFO, with the ring (or chain of
nodes) mapped to a sequence and `held` to what a receiver was given. Each takes
of QueueSpec what its calls are for: only a `Sender` may overtake, with a message
it has offered as urgent, and only where `Resets` holds may a step empty the queue.
A mailbox has no `Sender`, so that nothing overtakes, and loses words by reset and
deletion only in that it may be emptied (which step empties it, QueueSpec does not
say); a data queue has neither, its reset keeps the items. In MsgQueue a node is in
the free list, in the queue, or in the hands of a call that copies with interrupts
enabled: an offer, urgent exactly if the call is `rt_mq_urgent`, which is put when
its node is linked. The two indices of a data queue have 16 bits and are subtracted
as `int`: behind the wrap of `put_index` the code overwrites items, the model does
the same, and the properties claim nothing from there on (`dq.wrapped`).
**Event** keeps for every waiter the flags it asks for
and, once a sender has decided for it, those it reports. **Messaging** lets the
same threads and handlers use both, so that a sender of one object preempts a
half-done copy of the other.

**TimerList** is independent of Kernel: it has two threads, the timer thread and
one application thread below it, a tick modulo `TickSize`, and timers whose
functions start and stop other timers. `rt_timer_start`, `_stop`, `_control`,
`rt_timer_check` and `rt_soft_timer_check` are cut where interrupts are enabled.
The function of a hard timer, which runs in the tick, also starts soft timers: it
stands for every handler that does, at whatever point it finds the timer thread.
`missed` records the one start of this kind that the code forgets (section 4).
Kernel's timers are the special case of a one-shot hard timer per thread.

**MemPool, Completion, WorkQueue, Heap, Pipe** each have one action per region
of their C functions; mutexes and semaphores inside them (heap lock, pipe lock,
the one of the work in progress) use the suspend lists of Kernel. Heap has the
block headers as maps from offsets (`next`, `prev`, `used`). **DriverIpc** chooses one helper
at the start and runs its steps with the shared scheduler, tick and timers.
**RingBuffer** is pure: `IsQueueOfBytes` compares put, forced put and get with
the sequence of bytes in the ring, but for the forced put that run
`ring_forced_put` is about.

### Rules of use

The code relies on these without checking them, and the models have them as
named guards:

- a thread handed to a call of another thread is alive and in no other such
  call (`Free`, `Held` in Threads): RT-Thread has no reference counts;
- `rt_thread_resume` is applied to a thread that suspended itself or was
  suspended, not to one asleep with a timer, from thread level (`Quiet`); an
  interrupt handler may resume a sleeping thread;
- a thread is not deleted while its timer runs, an IPC object is not deleted
  while somebody waits for it with a timeout (`DeleteTimed = FALSE`). The
  violation runs drop this rule and show what happens (section 4);
- a thread does not suspend another, sleep or exit with the scheduler locked,
  and nobody suspends, deletes or reprioritises the idle thread;
- the idle thread takes no semaphore and no mutex and waits for no mail, message
  or flag; its priority is the lowest;
- a mutex is deleted by its owner or while it is free;
- a mailbox, queue, event or pool is deleted when nobody waits for it with a
  timeout, nobody was woken on it and is still inside the call (for the queue:
  nobody copies a message), and from then on nobody starts a call on it;
- a timer is started and stopped by the application or by timeout functions, not
  by both; a timeout function does not restart its own one-shot timer, a soft one
  stops no other timer, a handler starts soft timers that are inactive and no call
  is busy with, and not in the few instructions where `rt_soft_timer_check` unlinks
  a timer with interrupts enabled (`timer.c`:604); the kind of an active timer is
  not changed; no soft timer expires at RT_TICK_MAX;
- the low water mark of a data queue is below its size, and it is reset while
  nobody waits with a timeout;
- one thread waits for a completion; it is not initialised again meanwhile;
- one thread uses a work queue, of a priority below the work thread's, and no
  interrupt handler does (`work_cancelled_before_start` drops the priority);
- a block of the heap that is being freed or resized is used by no other call;
- one thread blocks as reader of a pipe and one as writer, the others open it
  with O_NONBLOCK.

Each of these rules stands for a window in the code. Without it: two calls link
the node of one thread twice (`thread.c`:683, 746: `Free` and `Held` let ticks,
handlers and the calls on other threads into these windows, but no second call on
the same thread); a woken caller touches a freed object (`ipc.c`:1491);
`rt_timer_start` links a timer twice, or `rt_soft_timer_check` follows a removed
node (`timer.c`:604); RT_TICK_MAX is taken for "no timer" (`timer.c`:651); a second
waiter on a pipe stays asleep, since a wake-up wakes one thread.

No thread of Mutex ends. One that ends as the owner of a mutex leaves it owned for
ever, and `WaiterHasOwner` says nothing of it.

## 3. Runs

All pass runs check deadlock.

| Run | Instance | Asks |
|---|---|---|
| `threads` | three threads (one high, two that share a queue, one of them static) and idle; delays 0 and 1; slice of 1 tick; lock nesting up to 2 | consistency of ready table, bitmap, node, timers and container at every interrupt-enable point; immediate preemption; dead threads; the scheduler lock |
| `semaphore` | two waiters of different priority, a third thread that releases, resets and deletes; the first and the third create it anew; handlers that release and try; timeouts 1 and 2; counter modulo 3 | refinement of `SemaphoreSpec`; no idle token, no lost waiter, order of wake-up; timed takes return |
| `mutex` | one mutex; high, medium and low thread; timeout 1 and forever; nesting 2; the medium thread may compute for ever | ownership, results, waiters, inheritance, restoration by a release, hand-over; no unbounded inversion |
| `mailbox` | two words; a, of the highest priority, with timeouts 1 and 2 and the deletion; b and c of one priority, without limit; handlers that send and receive | refinement of `QueueSpec`; nobody stranded though a wake-up hands nothing over; a timed call returns |
| `messaging` | a queue of two messages and an event of two flags; two threads of one priority; handlers that send; timeout 1 | every node in one place; refinement of `QueueSpec`; nobody sleeps on what is there; a cleared flag is reported once and is gone from the set |
| `timers` | two hard timers (one periodic, worked by functions), two soft ones (one started by handlers too); tick modulo 11; times up to 2 | order across the wrap; hard timers served at their tick; soft ones served in the end, but for the start that the code misses |
| `driver_ipc` | pool of two blocks; data queue of two, indices modulo 4, two items; two works; heap of four units; pipe of two bytes; a above b and c, c does not block on the pipe; timeout 1 | nobody stranded; blocks accounted; data queue (until its index wraps) and ring are queues; only a shrinking `rt_realloc` hides a free block |
| `threads_delete_timed`, `semaphore_delete_timed`, `mutex_timed_out_booster`, `work_cancelled_before_start`, `ring_forced_put` | as above, with one rule dropped or one more property | what the code's documentation says and the code does not do (section 4) |

Distinct states: threads 451,873; semaphore 19,848; mutex 22,727; mailbox
125,704; messaging 181,278; timers 1,517,886; driver_ipc 1,500,429.

**Bounds.** Three threads are the least that have a caller, the thread it works
on and a third that interferes; with idle they have a shared queue, a queue that
empties and one that never does. Slices of one tick make every tick a possible
yield; a delay of 0 expires before the next tick, one of 1 or 2 lets
two timers be pending in both orders. The counter of the semaphore wraps after 3
instead of 65536, `hold` after 4 instead of 256: `ValueSize` and `HoldSize` are
constants, and the wrap does not depend on their size. Nesting of the scheduler
lock is bounded by 2 (guard of `EnterCritical`), of one mutex by `MaxDepth`.

Queues, pools and rings of two are full, half full and empty, wrap around, and
have a first node that is not the last. In Messaging two threads, one halfway
through a copy, and the handlers compete for two nodes, so both the free list
and the queue run out. `TickSize` 11 lets the tick wrap while timers of up to
`MaxTime` ticks, and late ones, stay within half the range; `MaxLate` bounds how
many ticks a soft timer may be late (`KeepsUp`, a guard of the tick): the
processor has time to serve its timers, and one that was missed is started again,
or another, before the tick has gone half its range. `MaxCount` bounds the pool's `suspend_thread_count`,
which grows with every timeout. `IndexSize` 4 lets three items through the data
queue before `put_index` wraps: it is full, half full and empty before.
The heap of four units, blocks of one, headers of one, has room for two blocks
with headers: enough for a split, a join on either side, a fit that fails, and
a resize in place and by copy.

**Fairness** (`FairSpec` of Semaphore, Mutex, Mailbox, TimerList). The tick is a hardware timer
and is served to its end: weak fairness of `Tick` and `TimerCheck`. A thread
runs only while it is `k.cur`, so what it can do next comes and goes with every
preemption: strong fairness of its step says that code that is given the
processor again and again advances. In Mutex a thread gives back what it has
taken: strong fairness of the two kinds of release of each thread but idle.
In TimerList
the application may stop calling but ends a call it has begun, and the timer
thread, of the higher priority, goes on: weak fairness of both. Messaging and
DriverIpc state safety only.
Nothing is assumed of interrupt handlers, of who calls what, or of the order in
which threads of one priority make their calls.

**Mutants.** Each checked property has one in `PROJECT.json`: an operator beside
the one it replaces that differs as a plausible bug would (a bit that is not
cleared, a node that stays linked, a stale error code, a missing
inheritance), and that makes TLC find the property violated.

## 4. Where code and documentation disagree

| Run | What TLC shows |
|---|---|
| `threads_delete_timed` | `rt_thread_delete` unlinks a sleeping thread, stops its timer and closes it in three regions. A timer that expires after the first makes the thread READY; it is closed while it is on a ready queue, and the defunct list then links the same node. The documentation says closed threads take no part in scheduling. |
| `semaphore_delete_timed` | `rt_ipc_list_resume_all` tests the list with interrupts enabled and takes its head with interrupts disabled. If the only waiter times out in between, the code takes the list head for a thread. The mutex, and every other IPC object, is deleted by the same loop. |
| `mutex_timed_out_booster` | A mutex owner that was lifted by a waiter that has since timed out drops to its own priority in `rt_mutex_release` and keeps running, because only a hand-over leads to `rt_schedule`. A thread of higher priority stays ready until the next rescheduling. |
| `ring_forced_put` | `rt_ringbuffer_put_force` with more bytes than fit, when the write index passes the end and the mirrors were equal, flips both mirrors: the full ring counts as empty. The comment at `ringbuffer.c`:110 promises that the old data is discarded; here the new data goes with it. The pipe itself makes no forced put: the run asks what one would do to its buffer. |
| `work_cancelled_before_start` | A thread above the work thread submits a work, which resumes the work thread, and cancels it before that one runs. `_workqueue_thread_entry` does not test the list again and takes the list head for a work ("we have work to do with"). |

Other behaviours of the code that the models show or assume away, without a run of
their own:

- A soft timer started by a handler between the look of the timer thread at its
  empty list (`timer.c`:650) and its suspension (654) is missed: the thread is
  still READY, so `rt_timer_start` (411) resumes nobody, and the thread then sleeps
  without a limit, until another soft timer is started. `SoftTimerServed` excuses
  just this start (`missed`); without the excuse TLC shows the missed timer. A
  thread of the timer thread's own priority or above could do the same; the model
  has none.
- A thread that deletes a mutex it owns keeps the priority a waiter lifted it to:
  `rt_mutex_delete` and `_detach` restore nothing (`ipc.c`:664). `PriorityRestored`
  says so and no more.
- The release of the inner of two nested mutexes restores the priority the owner
  had when it took that one, maybe below a thread that waits for the outer one. The
  run has one mutex; the theorems have the hypothesis `NoNesting`.
- `put_index` and `get_index` of a data queue have 16 bits. Between the wrap of the
  one and of the other their difference is negative, a full queue does not look
  full (`dataqueue.c`:80), and a push overwrites an item.
- `suspend_thread_count` of a pool stays too high after a timeout: a later
  `rt_mp_free` would take the empty list's head for a thread. MemPool follows the
  code up to that call. Waiters of a pool are served last in, first out.
- A completion that comes after the timeout but before the waiter's next step is
  lost. The timeouts of data queues start anew with each retry.
- `rt_malloc` refuses a block that would fill the last free one exactly up to its
  end in some cases (`ptr < mem_size_aligned - size`, `mem.c`:320).
- An `rt_realloc` that shrinks a block below `lfree` leaves `lfree` too high,
  against the comment at `mem.c`:141, "pointer to the lowest free block": the space
  in front is found only after a later `rt_free`. `LfreeLostByRealloc` says that
  nothing else hides a free block.
- Lengths of pipe reads and writes are cut to 16 bits.

## 5. Proofs

`ThreadsProofs` proves, for any set of threads, any number of
priorities, lists and static threads, any program and any delay, under the named
assumptions of `Kernel` and `Threads` and the rule `DeleteTimed = FALSE`:

| Theorem | States |
|---|---|
| `Invariance` | `Spec => []IInv` |
| `TypeCorrect`, `BitmapIsExact`, `ReadyThreadsAreQueued`, `NodesOnOneList`, `TheDeadStayDead`, `FreedThreadsAreUnreferenced`, `TimersOfSuspendedThreads`, `TheHighestRuns` | the invariants of run `threads` |
| `LockedProcessorStays` | the action property `LockKeepsRunning` |

*Why an invariant of its own.* None of the checked properties is inductive. What
a call does after an interrupt depends on what it left behind: `ResumeInsert`
links a node, and this is right only if the node is on no list, which only the
fact that `t` is at `"resume_insert"` with `u` in `arg[t]` tells. `IInv` is the
conjunction of

- `KernelOK(k)`: nodes are on one list once (`Apart`), being on a list or having
  a timer goes with a state and a priority (`Placed`), the bitmap is exact
  (`Bitmap`), the idle thread is queued;
- `Hands`, `Windows`: a thread is in the hands of at most one call, and is, at
  each label, as that call left it (off every list, no timer, not running, ...);
- `DeadThread`, `Freed`, `Queued`: what a closed, a freed and a READY thread is;
- `Current`, `Locked`, `Pending`: the running thread is READY unless it is on its
  way into `rt_schedule`, also while it holds the scheduler lock; the timer
  interrupt goes on only while there are timers.

TLC has checked `IInv` on all states of run `threads`.

*Layers.* `KernelProofs` proves what removing, inserting, prepending and
appending do to a sequence without repetition, and for each routine that it
preserves `KernelOK` and leaves every other thread where it was (`Frame`).
It then chains these (suspend, resume, yield, change of priority, tick,
timeout) and shows that `rt_schedule` finds a READY thread: the bitmap is never
empty because the idle thread is always queued, and a set of priorities has a
least element. `ThreadsProofs` then needs one lemma for all steps, `OneThread`: a
step that changes one thread and the place of one caller keeps `IInv` if it keeps
the parts that speak of those two. Each action is a lemma that applies it, and
`NextStep` collects them.

*The highest runs.* `RunsHighest` compares the running thread with the head of
the highest queue. A step that reschedules establishes it; one that links a
READY thread owes a rescheduling or is about to do it, and then nothing is
claimed; every other step only takes a thread that does not run off a queue, so
that the head of the highest queue stays or gets lower. That a queue is a
sequence without repetition, from which the removal of another thread leaves the
head alone, comes from `IInv`.

**Semaphore** (`SemaphoreProofs`), for any finite set of
threads, priorities, programs, timeouts and width of the counter:

| Theorem | States |
|---|---|
| `SemInvariance` | `Spec => []SemInv` |
| `SemTypeCorrect`, `NoTokenIsIdle`, `NoWaiterIsLost` | the invariants of the semaphore runs |
| `SemaphoreRefines` | `Spec => ImplementsSemaphore`: the detailed semaphore implements `SemaphoreSpec` |
| `HighestIsWokenFirst` | the action property `WakesHighestFirst` |

`SemInv` says of every thread that it is READY on its queue or suspended on the
list of the semaphore (`SemOK`), that who is suspended is inside a take that
nobody has decided yet (`Waits`: the error code is still RT_EOK), that the
running thread is READY or on its way into `rt_schedule` (`Runner`), and that
nobody waits while the value is positive or the object is gone. The refinement
needs `Waits`: a step of the detailed system that takes a waiter off the list
must leave the outcome in its error code, and every other step must leave every
waiter's outcome alone (`Results`, `WakeOne`). `rt_sem_control` resumes the whole
list; that this recursion empties the list and touches nobody else is proved with
a minimal counterexample (lemma `Minimum`), since induction is not at hand.
`HighestIsWokenFirst` adds one invariant, `InOrder`: the list is in the order of
the priorities. `SuspendOrdered` of `KernelProofs` shows that the search of
`rt_ipc_list_suspend` puts a thread behind its equals and before everybody lower,
`RemoveOrdered` that a list stays in order when a thread leaves it, and
`OrderedHead` that its first thread is the one to wake.

**Mutex** (`MutexProofs`), for any finite set of threads,
any mutexes, priorities, programs, timeouts and depth of nested takes below
the width of `hold`, and with deletion of a mutex somebody waits for:

| Theorem | States |
|---|---|
| `MutexInvariance` | `Spec => []MutexInv` |
| `MutexTypeCorrect` | the type invariant of the mutex runs: `hold` does not wrap, a boosted thread gets back a priority |
| `OwnershipIsExclusive`, `CodesTellOwnership`, `NobodyWaitsForNobody` | the invariants `OwnerIsInside`, `ResultIsOwnership` and `WaiterHasOwner` |
| `OwnPriorityComesBack` | `Spec /\ []NoNesting => []PriorityRestored`: a thread without a mutex is at its own priority, or, if it has deleted one it owned, at that of its last deletion |
| `OwnersInherit` | with RT_IPC_FLAG_PRIO, `Spec /\ []NoNesting => []PriorityInheritance` |
| `HighestGetsItFirst` | `Spec /\ []NoNesting => HandOverToHighest` |
| `OneMutexIsEnough` | the three of them, without `NoNesting`, for every instance with one mutex |

`OwnerIsInside` is not inductive: a release hands the mutex to a thread that is
still inside `rt_mutex_take`, with the timeout of that thread still to come or
already past. `MutexInv` therefore says what holds in between. `Place`: a thread
is READY on its queue, or suspended on the list of one mutex, or asleep with a
timer. `Waiter`: who is on the list of a mutex is in a take of it that nobody has
decided, and another thread owns the mutex. `Holder`: `hold` counts the takes
that have returned and the one that was granted, and a thread off the list has
RT_EOK exactly if it is the owner. `Whole`: owner, value and the saved priority
of a mutex agree. Boosting and restoring a priority, the tick and the scheduler
move threads between queues; the lemmas `Same`, `Unmoved` and `Left` of
`KernelProofs` say that they move nobody on or off a suspend list, so each action
of Mutex has to account only for the thread it wakes, suspends or decides.

*Priorities.* One `original_priority` per mutex can undo one boost: a thread that
holds two mutexes, or holds one and waits for another, gets the wrong priority
back or is boosted where it waits, out of order. `NoNesting` says that this does not
happen: who owns a mutex owns no other and is in no take of another. With one
mutex it always holds. Under it an owner is on no suspend list, so that a
change of its priority leaves every list in order, and a thread that gets a mutex
is at its own priority. The invariant is `RestInv` (the saved priority is
the one the owner rests at, and only owners are off that one; it is the thread's
own, `restPrio`, until it deletes a mutex it owns) and, with RT_IPC_FLAG_PRIO, `LiftInv`
(every list is in order, and no owner is below a waiter). Four actions disturb
it, each a lemma: a take of a free mutex, a take that waits and may boost, the last
release and the hand-over. Every other action is `Quiet`: it changes no priority
and no owner, and at most one waiter leaves. The hand-over is the interesting
one: the new owner is not boosted, and need not be, since it was the first of an
ordered list. With RT_IPC_FLAG_FIFO this argument, and the property, fail.

**Mailbox** (`MailboxProofs`), for any size, any finite set of
threads, priorities, programs and timeouts:

| Theorem | States |
|---|---|
| `MailInvariance` | `Spec => []MailInv` |
| `MailTypeCorrect`, `NobodyIsStranded` | the invariants of run `mailbox` |
| `MailboxRefines` | `Spec => ImplementsQueue`: the ring implements `QueueSpec`; nothing overtakes |

A wake-up hands nothing over, so `NoStrandedThread` counts: while a receiver
sleeps there are at most as many words as receivers that were woken and have not
looked yet, and the same for senders and room. A send adds a word and wakes one
more; a receiver that overtakes takes both a word and nobody's place; a woken one
that looks takes a word and leaves the count (lemma `WokenCount`). `MailInv` adds what
this needs: who is suspended is on the list of its loop and undecided (`Waits`),
`in_offset - out_offset` is `entry` modulo the size (`Ring`), and while the mailbox
is deleted nobody was woken (`Closing`). `KernelProofs` states once, for all IPC
objects, what sleeping, resuming one or all, failing one, the tick and a timeout
do to a settled system, and that everybody else stays where they are (`Same`).

**Message queue and event** (`MessagingProofs`), for any pool, any
flags, any finite set of threads, priorities, programs and timeouts:

| Theorem | States |
|---|---|
| `MessagingInvariance` | `Spec => []MessInv` |
| `MessagingTypeCorrect`, `EveryNodeAccounted`, `NoReceiverStranded`, `NobodySleepsSatisfied` | the invariants of run `messaging` |
| `FlagsClearedOnce` | its action property `ClearedOnce` |
| `MqRefines` | `Spec => MqImplementsQueue`: the chains implement `QueueSpec`; only a message of `rt_mq_urgent` overtakes |

`Pool` splits the nodes: two sequences without repetition that follow `next` to
the end, disjoint, and the nodes in the hands of calls, each in one hand, are the
whole pool; a node in a hand is written by nobody else, which is why the copies
need no lock. `Chain` follows pointers by a recursive function; `ChainIs` shows
that it returns the sequence that follows them, so all other lemmas speak of
sequences: taking the first, appending, prepending, emptying. `MqClosing` and
`EvClosing` say who may be inside an object that is being deleted, `Waits` who
sleeps on which list. For `rt_event_send` the walk over the list has an invariant
of its own (`Walked`): after i waiters, those it woke have flags that are disjoint
where they are cleared and gone from the set, and those it passed by are not
satisfied by the flags left, nor by fewer. Two loops, this one and the emptying
of the queue, are followed by minimal counterexample.

**Heap and memory pool** (`MemoryProofs`), for a heap or pool of any size, any finite set of threads, priorities, programs and
timeouts:

| Theorem | States |
|---|---|
| `HeapInvariance` | `Spec => []HeapInv` |
| `HeapIsAccounted`, `HeapStrandsNobody` | the parts of `BlocksAccounted` and `NobodyStranded` about the heap |
| `LfreeLostOnlyByRealloc` | `Spec => LfreeLostByRealloc` |
| `MpInvariance` | `Spec => []MpInv` |
| `EveryBlockAccounted` | `Spec => []BlocksAccounted`, the invariant of run `driver_ipc` |
| `PoolStrandsNobody` | the part of `NobodyStranded` about the pool |

`HeapInv` says of the headers (`Chain`) that `next` leads from each to the nearest
above it and `prev` back, that no two free blocks are neighbours (`Joined`), and
that `used_mem` is the sum of the used ones; of the threads, that each used block
is in one pair of hands (`Owned`), that one thread at a time is inside the
semaphore and the others wait for it without a timer (`OneInside`), and what a
call asks for at each place (`Requests`). The block a thread has found and not yet
carved when `rt_malloc` gives the semaphore up is free only because nobody else is
inside. Split, join and walk are lemmas about `Chain`: a header in the middle of
a block, or taken away, leaves the others the nearest of each other. The sum over
a set is a recursive function of the community modules; `SumMore`, `SumLess` and
`SumSame` say what one block more, one less and a changed one do to it, and are
proved by minimal counterexample on the number of blocks.

`MpInv` says that the free blocks are a set apart from those handed out, counted
by `block_free_count` (`PoolOK`), and, while a driver uses the pool, who sleeps on
it and at which label (`MpRuns`), that no more blocks are free than callers were
woken for, and that `suspend_thread_count` is at least the number of waiters
(`MpCounts`), and who may still be inside while it is deleted (`MpClosing`).

**Ring buffer and pipe** (`DriverProofs`), for a buffer of any
size, any bytes, any threads and programs:

| Theorem | States |
|---|---|
| `RingStaysLegal` | every ring operation keeps `RingOK`: indices inside the buffer, and mirrors that differ exactly when the writer has passed the end once more than the reader |
| `RingIsBoundedQueue` | on a ring that is `RingOK`, put, forced put and get, of blocks and of one byte, do what `IsQueueOfBytes` says: a bounded queue of bytes, but for a forced put that overflows and passes the end with equal mirrors (`LosesAll`), of which nothing is claimed |
| `PipeInvariance` | `Spec => []PipeInv` of DriverIpc |
| `PipeBufferIsQueue` | `Spec => []RingIsQueue`, the invariant of run `driver_ipc` |
| `PipeWaitInvariance` | `Spec => []PpInv` |
| `PipeStrandsNobody` | the part of `NobodyStranded` about the pipe |

The bytes in a ring are a sequence of length `Gap` from the read index, modulo
the size; a block that reaches the end is copied in two pieces, and each case
(does not reach it, reaches it exactly, passes it) is a lemma about the indices
and one about the bytes. `PipeInv` says that `ref_count` is the number of threads
that have the pipe open, that every call between its open and its close runs on
a buffer that exists, and that this buffer is `RingOK`: the first of these is
what keeps the buffer, freed by the last close, under the others.

A reader gives the lock of the pipe up before it waits, so that the pipe may be
filled, or left by its last writer, in between. `PpOK` follows a thread by its place
`At`, the label it is at or, inside a rescheduling, the one it goes on at. For
each end of the pipe (`PpNeeds`): while a thread waits there or is past its last
look at the buffer and about to wait, then either what it waits for is not there,
or its queue is flagged, or another thread is at a label from which it wakes that
queue. The flag is cleared only by the thread that waits, on its way to another look at
the buffer, and a wake-up sets it whether or not it finds anybody. A queue with somebody in it has its flag down,
and this is the one thread that blocks on that end (`PpSleepers`); the counts of
readers and writers are those of the threads that have the pipe open that way and
are not yet past the decrement (`PpCounts`).

**Data queue, completion, work queue** (`DriverProofs`), for a queue of any size and water
mark, any finite set of threads, priorities, programs and timeouts:

| Theorem | States |
|---|---|
| `DqInvariance` | `Spec => []DqInv` |
| `DataQueueRefines` | `Spec => DqImplementsQueue`: until `put_index` wraps, the ring with two free-running indices implements `QueueSpec` without urgent messages and without resets |
| `DqWaitInvariance` | `Spec => []DqWaitInv` |
| `DataQueueStrandsNobody`, `CompletionStrandsNobody` | the parts of `NobodyStranded` about the data queue and the completion |
| `WqInvariance`, `WorkQueueStrandsNobody` | `OneSubmitterBelow => (Spec => []WqInv)`, and the part of `NobodyStranded` about the work queue |
| `DriverStrandsNobody` | `OneSubmitterBelow => (Spec => []NobodyStranded)`, the invariant of run `driver_ipc` |

`DqInv` says that `get_index <= put_index <= get_index + size` (`DqOrder`), so that
the ring between them is a sequence, and that a producer that waits keeps its
item (`DqItems`), until `put_index` wraps (`DqLined`). Behind the wrap only the types
are claimed, of the data queue alone, and so for `DataQueueStrandsNobody` too.

Between a wake-up and the moment the woken thread looks, anything may happen. `Runs`
is what all these proofs share: the running thread is READY, or at a label from
which it goes into `rt_schedule` and nowhere else, and the timer interrupt goes on
only while there are timers; one lemma each says that a step of a thread, the
scheduler, a tick, a timeout and a handler that wakes a thread keep it. On top
of it `DqOK` says who sleeps on which list (`DqWaits`: undecided, and in the loop
of that list), that a reset has the scheduler locked and is alone (`DqLocked`),
and the two counts (`DqCounted`): as for the mailbox, a push adds an item and wakes
a consumer, a timeout takes a sleeper that was not woken, a woken consumer takes
an item or, overtaken, finds as many items as there are others that were woken. `CpOK` says that whoever sleeps is on the list of the completion, and
that the flag is down while somebody does.

The work thread tests its list once and sleeps in a second region, and a resume
of it has two halves as well. That no work is left behind is a matter of
priorities: `OneSubmitterBelow`, the rule of section 2, is a hypothesis of the
theorem and no assumption of the module, since run `work_cancelled_before_start`
drops it. Then the submitter runs only while the work thread is suspended or on
its way into `rt_schedule` (`WqBelow`, from the fact that `rt_schedule`, the tick and
an expired timer leave the highest READY thread running), never between the test
and the sleep; between the halves of a resume nobody else finds the work thread
(`WqHalf`); and who waits for the end of a work does so while it is in progress or
about to be acknowledged (`WqWaiters`).

`DriverStrandsNobody` puts the six helpers together: each has lists of its own
(`ListsAssumption`), a thread sleeps on those of the helper that the driver uses
(`OthersEmpty`), and the others are as they were made (`Unused`).

*Not proved.* Liveness under fairness (`TimedTakeWakes`, `HighestGetsMutex`,
`TimedCallReturns`, `SoftTimerServed`) and anything about ENABLED are out of the
prover's reach and stay with TLC. The order of the timers (`ListsOrdered`,
`ServedOnTime`) is model-checked only.

## 6. Not modelled

Left out of modules that are there: a handler that receives from a message queue;
`evt_notify` and `rt_data_queue_peak`; `rt_workqueue_destroy`; poll, ioctl and the
device entry of a pipe; wait queues with a timeout; the rows of a skip list above
the lowest; the retry of the mutex with -RT_EINTR, which needs signals.

Parts that are not modelled:

- *Signals* (`signal.c`): off in the default configuration; delivery changes the
  stack pointer of the receiver, so that much of it is assembly.
- *memheap and slab*: a build has one of them instead of `mem.c`.
- *Device layer and interrupt entry*: calls through function pointers and a
  nesting counter. Interrupts do not nest in the models: a handler is one step,
  and so is each expiry of a timer within the tick.
- Stack initialisation and checking, hooks, object names and per-class lists, the
  assembly of the context switch beyond the moment it happens.
- *Drivers, file systems, network, shell, libc, pthreads, CMSIS, lwp, vbus*: about
  95% of the lines of the repository. lwIP, FatFs, the kconfig tools and most
  of `libc` are vendored code that has projects of its own; drivers and boards
  are register accesses; the wrappers call the kernel calls modelled here. The
  models therefore cover most of `src/rt-thread/src` and of the IPC helpers and a
  small share of the repository.

The 32-bit tick is the remaining ticks of each timer in Kernel; its wrap is the
subject of TimerList.

## 7. Plan

| Order | Module | Content |
|---|---|---|
| 1 | TimerListProofs | `ListsOrdered` for every tick size |
| 2 | Signals, memheap, serial driver, pthread objects | signals with the -RT_EINTR retry; the FIFO and DMA queues of `serial.c`; condition variables and rwlocks over the kernel's semaphores |
