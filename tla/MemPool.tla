------------------------------- MODULE MemPool -------------------------------
(***************************************************************************)
(* The memory pool of src/mempool.c: a linked list of free blocks, threads *)
(* that wait for one, and a count of these threads that rt_mp_free tests   *)
(* in place of the list.  Blocks may be freed by another thread or by an   *)
(* interrupt handler.                                                      *)
(*                                                                         *)
(* A wait that times out leaves the list but not the count.  While the     *)
(* count is above zero and the list is empty, rt_mp_free takes the list    *)
(* head for a thread: the model frees nothing then.                        *)
(*                                                                         *)
(* Rules of use: when a pool is deleted nobody has been woken on it and    *)
(* not yet returned, nobody waits with a timeout, and from then on nobody  *)
(* uses the pool or a block of it.                                         *)
(***************************************************************************)
EXTENDS Ipc

CONSTANTS MpList,  \* mp->suspend_thread
          Block,
          MaxCount \* bound on suspend_thread_count

ASSUME MpAssumption ==
  MpList \in WaitList /\ Block # {} /\ IsFiniteSet(Block) /\ MaxCount \in Nat

VARIABLES mp,      \* fields of the pool
          out,     \* the blocks that were handed out and not freed
          mpalive  \* "alive", "dying" while it is deleted, "gone" after

mpvars == <<mp, out, mpalive>>

MpLabel == {"mp_sched", "mp_back", "mp_close", "mp_resume", "mp_object"}

MpTypeOK ==
  /\ mp \in [block_list : Seq(Block), block_free_count : Nat, suspend_thread_count : Int]
  /\ out \subseteq Block
  /\ mpalive \in {"alive", "dying", "gone"}

\* rt_mp_create, rt_mp_init: every block is linked to the next one.
NewPool == [block_list |-> SetToSeq(Block), block_free_count |-> Cardinality(Block),
            suspend_thread_count |-> 0]

MpInit ==
  /\ mp = NewPool
  /\ out = {}
  /\ mpalive = "alive"

-----------------------------------------------------------------------------
(* rt_mp_alloc.  The latest waiter is the first in the list.               *)

\* Mutation of TakeBlock: the free list keeps the block.
TakeLinked(p) == [p EXCEPT !.block_free_count = @ - 1]
TakeBlock(p) == [p EXCEPT !.block_free_count = @ - 1, !.block_list = Tail(@)]

MpBlock(s, t, time) ==
  LET u == rt_thread_suspend([s EXCEPT !.err[t] = "EOK"], t)
      v == [u EXCEPT !.list[MpList] = <<t>> \o @]
  IN  IF time = Forever THEN v ELSE rt_timer_start(v, t, time)

\* The loop from its test to an interrupt-enable, time being what is left.
\* Without time left the call returns RT_NULL.
AllocBody(t, time) ==
  IF mp.block_free_count > 0
  THEN /\ mp' = TakeBlock(mp)
       /\ out' = out \cup {Head(mp.block_list)}
       /\ Return(t)
  ELSE IF time = 0
  THEN Return(t) /\ UNCHANGED <<mp, out>>
  ELSE /\ mp.suspend_thread_count < MaxCount
       /\ k' = MpBlock(k, t, time)
       /\ mp' = [mp EXCEPT !.suspend_thread_count = @ + 1]
       /\ Goto(t, "mp_sched")
       /\ WaitsFor(t, time)
       /\ UNCHANGED out

MpAlloc(t, time) ==
  /\ Calls(t, IF time = 0 THEN "mp_try" ELSE IF time > 0 THEN "mp_alloc_timed" ELSE "mp_alloc")
  /\ mpalive = "alive"
  /\ AllocBody(t, time)
  /\ UNCHANGED <<isr, mpalive>>

MpSchedule(t) == IpcSchedule(t, "mp_sched", "mp_back") /\ UNCHANGED mpvars

\* Woken without an error the thread looks at the pool again.
MpBack(t) ==
  /\ Running(t, "mp_back")
  /\ IF k.err[t] = "EOK" THEN AllocBody(t, timeout[t]) ELSE Return(t) /\ UNCHANGED <<mp, out>>
  /\ UNCHANGED <<isr, mpalive>>

MpIsrAlloc ==
  /\ isr = "none" /\ mpalive = "alive"
  /\ mp.block_free_count > 0
  /\ mp' = TakeBlock(mp)
  /\ out' = out \cup {Head(mp.block_list)}
  /\ UNCHANGED <<k, isr, pc, timeout, mpalive>>

-----------------------------------------------------------------------------
(* rt_mp_free                                                              *)

Linked(b) == [mp EXCEPT !.block_free_count = @ + 1, !.block_list = <<b>> \o @]

WakesWaiter(p) == p.suspend_thread_count > 0

FreeBody(b) ==
  /\ mpalive = "alive" /\ b \in out
  /\ WakesWaiter(mp) => k.list[MpList] # <<>>
  /\ out' = out \ {b}
  /\ mp' = IF WakesWaiter(mp) THEN [Linked(b) EXCEPT !.suspend_thread_count = @ - 1]
           ELSE Linked(b)

WokenOne(s) ==
  LET t == Head(s.list[MpList]) IN rt_thread_resume([s EXCEPT !.err[t] = "EOK"], t)

MpFree(t, b) ==
  /\ Calls(t, "mp_free")
  /\ FreeBody(b)
  /\ k' = IF WakesWaiter(mp) THEN WokenOne(k) ELSE k
  /\ Goto(t, IF WakesWaiter(mp) THEN "sched" ELSE "run")
  /\ UNCHANGED <<isr, timeout, mpalive>>

MpIsrFree(b) ==
  /\ isr = "none"
  /\ FreeBody(b)
  /\ k' = IF WakesWaiter(mp) THEN rt_schedule(WokenOne(k)) ELSE k
  /\ UNCHANGED <<isr, pc, timeout, mpalive>>

-----------------------------------------------------------------------------
(* rt_mp_delete, rt_mp_detach and a new pool in the same place.            *)

WokenAllocators ==
  {t \in Thread : pc[t] \in {"mp_sched", "mp_back"} /\ t \notin ToSet(k.list[MpList])
                    /\ k.err[t] = "EOK"}

MpDelete(t) ==
  /\ Calls(t, "mp_delete") /\ mpalive = "alive"
  /\ WokenAllocators = {}
  /\ \A u \in ToSet(k.list[MpList]) : ~TimerActive(k, u)
  /\ mpalive' = "dying"
  /\ Goto(t, "mp_close")
  /\ UNCHANGED <<k, isr, timeout, mp, out>>

\* The waiter and its place in the count go in one region.
MpDeleteResume(t) ==
  /\ CloseList(t, MpList, "mp_close", "mp_resume", "mp_object")
  /\ mp' = IF pc[t] = "mp_resume" THEN [mp EXCEPT !.suspend_thread_count = @ - 1] ELSE mp
  /\ UNCHANGED <<isr, timeout, out, mpalive>>

MpDeleteObject(t) ==
  /\ Running(t, "mp_object")
  /\ mpalive' = "gone"
  /\ mp' = NewPool /\ out' = {}
  /\ Goto(t, "run")
  /\ UNCHANGED <<k, isr, timeout>>

MpCreate(t) ==
  /\ Calls(t, "mp_create") /\ mpalive = "gone"
  /\ mpalive' = "alive"
  /\ mp' = NewPool
  /\ k' = [k EXCEPT !.list[MpList] = <<>>]
  /\ UNCHANGED <<isr, pc, timeout, out>>

-----------------------------------------------------------------------------
MpStep(t) ==
  \/ \E time \in Timeout : MpAlloc(t, time)
  \/ MpSchedule(t) \/ MpBack(t)
  \/ \E b \in Block : MpFree(t, b)
  \/ MpDelete(t) \/ MpDeleteResume(t) \/ MpDeleteObject(t) \/ MpCreate(t)

MpInterrupt == MpIsrAlloc \/ \E b \in Block : MpIsrFree(b)

-----------------------------------------------------------------------------
(* Properties.                                                             *)

\* Every block is on the free list or in one pair of hands, and the counter
\* that allows an allocation is the length of the list, whichever threads are
\* woken and find that a handler or another thread was faster.
MpBlocksAccounted ==
  /\ IsInjective(mp.block_list)
  /\ ToSet(mp.block_list) \cap out = {}
  /\ ToSet(mp.block_list) \cup out = Block
  /\ mp.block_free_count = Len(mp.block_list)

\* No thread is left waiting for blocks that are free, but for those that woken
\* threads are about to take; and the count does not hide a waiter from
\* rt_mp_free.
MpNobodyStranded ==
  /\ k.list[MpList] # <<>> => mp.block_free_count <= Cardinality(WokenAllocators)
  /\ Len(k.list[MpList]) <= mp.suspend_thread_count
=============================================================================
