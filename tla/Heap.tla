--------------------------------- MODULE Heap ---------------------------------
(***************************************************************************)
(* The small memory allocator of src/mem.c: blocks that tile the heap, each*)
(* behind a header with the offsets of its neighbours, first fit from the  *)
(* lowest free block, free neighbours joined.  A semaphore guards all of   *)
(* it; rt_realloc gives it up between its looks at the heap.               *)
(*                                                                         *)
(* Offsets and sizes are in units of RT_ALIGN_SIZE, so that sizes come     *)
(* aligned.  A header exists where a block begins: what is left in memory  *)
(* of the header of a block that was joined is never read again.           *)
(*                                                                         *)
(* Rule of use: a block that is being freed or resized is used by no other *)
(* call.                                                                   *)
(***************************************************************************)
EXTENDS Ipc

CONSTANTS HeapSem,        \* heap_sem.parent.suspend_thread
          HeapSize,       \* mem_size_aligned
          MemSize,        \* SIZEOF_STRUCT_MEM
          MinSizeAligned, \* MIN_SIZE_ALIGNED
          MinSize         \* MIN_SIZE, rounded down

ASSUME HeapAssumption ==
  /\ HeapSem \in WaitList
  /\ MemSize \in Nat \ {0} /\ MinSizeAligned \in Nat \ {0}
  /\ MinSize \in Nat /\ MinSize <= MinSizeAligned
  /\ HeapSize \in Nat /\ HeapSize >= MinSizeAligned

VARIABLES heap,     \* headers, lfree and used_mem
          heap_sem, \* value of the semaphore
          blocks,   \* offsets of the blocks the application holds
          req       \* what each thread asks of the allocator

heapvars == <<heap, heap_sem, blocks, req>>

HeapLabel == {"heap_sched", "heap_in", "heap_carve", "heap_resched", "heap_again"}

Offset == 0..(HeapSize + MemSize)
HeapEnd == HeapSize + MemSize
Null == -1
Size == 1..HeapSize

\* op: what is done under the semaphore next; size: what is asked for; at: the
\* block it is about, or found; old: the block a growing rt_realloc copies.
Request == [op : {"none", "malloc", "realloc", "grow", "free"}, size : {0} \cup Size,
            at : Offset \cup {Null}, old : Offset \cup {Null}]
NoRequest == [op |-> "none", size |-> 0, at |-> Null, old |-> Null]

Header(h) == DOMAIN h.next

HeapTypeOK ==
  /\ heap.lfree \in Header(heap) /\ Header(heap) \subseteq Offset
  /\ heap.next \in [Header(heap) -> Offset] /\ heap.prev \in [Header(heap) -> Offset]
  /\ heap.used \in [Header(heap) -> BOOLEAN] /\ heap.used_mem \in Nat
  /\ heap_sem \in 0..1
  /\ blocks \subseteq Offset
  /\ req \in [Thread -> Request]

\* rt_system_heap_init
HeapInit ==
  /\ heap = [next |-> [p \in {0, HeapEnd} |-> HeapEnd],
             prev |-> [p \in {0, HeapEnd} |-> p],
             used |-> [p \in {0, HeapEnd} |-> p = HeapEnd],
             lfree |-> 0, used_mem |-> 0]
  /\ heap_sem = 1
  /\ blocks = {}
  /\ req = [t \in Thread |-> NoRequest]

-----------------------------------------------------------------------------
(* The heap alone.                                                         *)

Max2(x, y) == IF x > y THEN x ELSE y
DataSize(h, p) == h.next[p] - p - MemSize
Drop(f, p) == [x \in DOMAIN f \ {p} |-> f[x]]
Extend(f, p, v) == [x \in DOMAIN f \cup {p} |-> IF x = p THEN v ELSE f[x]]

\* Header q is taken out between p and what follows q; its block joins that of p.
Join(h, p, q) ==
  LET n == h.next[q]
  IN  [next |-> Drop([h.next EXCEPT ![p] = n], q),
       prev |-> Drop([h.prev EXCEPT ![n] = p], q),
       used |-> Drop(h.used, q),
       lfree |-> IF h.lfree = q THEN p ELSE h.lfree,
       used_mem |-> h.used_mem]

plug_holes(h, m) ==
  LET n == h.next[m]
      g == IF m # n /\ ~h.used[n] /\ n # HeapEnd THEN Join(h, m, n) ELSE h
      p == g.prev[m]
  IN  IF p # m /\ ~g.used[p] THEN Join(g, p, m) ELSE g

\* A free block at p2 is cut off the end of the one at p.
Split(h, p, p2) ==
  LET n == h.next[p]
  IN  [h EXCEPT !.next = Extend([@ EXCEPT ![p] = p2], p2, n),
                !.prev = Extend(IF n = HeapEnd THEN @ ELSE [@ EXCEPT ![n] = p2], p2, p),
                !.used = Extend(@, p2, FALSE)]

\* The block rt_malloc takes for size, or Null: the first that is large enough
\* on the way from lfree.  The bound of the loop passes over a last block of
\* exactly that size.
Found(h, size) ==
  LET from[p \in Header(h)] ==
        IF p >= HeapSize - size THEN Null
        ELSE IF ~h.used[p] /\ DataSize(h, p) >= size THEN p
        ELSE from[h.next[p]]
  IN  from[h.lfree]

\* The first block from p on that is free, or the end.
NextFree(h, p) ==
  LET from[q \in Header(h)] == IF h.used[q] /\ q # HeapEnd THEN from[h.next[q]] ELSE q
  IN  from[p]

\* Mutation of Carved: the search for the next free block is left out.
CarvedKeepLfree(h, p, size) ==
  LET g == IF DataSize(h, p) >= size + MemSize + MinSizeAligned
           THEN Split(h, p, p + MemSize + size) ELSE h
  IN  [g EXCEPT !.used[p] = TRUE, !.used_mem = @ + g.next[p] - p]

Carved(h, p, size) ==
  LET g == IF DataSize(h, p) >= size + MemSize + MinSizeAligned
           THEN Split(h, p, p + MemSize + size) ELSE h
      u == [g EXCEPT !.used[p] = TRUE, !.used_mem = @ + g.next[p] - p]
  IN  [u EXCEPT !.lfree = IF p = @ THEN NextFree(u, p) ELSE @]

Freed(h, p) ==
  plug_holes([h EXCEPT !.used[p] = FALSE,
                       !.lfree = IF p < @ THEN p ELSE @,
                       !.used_mem = @ - (h.next[p] - p)], p)

\* rt_realloc to a smaller size: what is cut off does not lower lfree.
Shrunk(h, p, size) ==
  plug_holes([Split(h, p, p + MemSize + size) EXCEPT
                !.used_mem = @ - (DataSize(h, p) - size)], p + MemSize + size)

-----------------------------------------------------------------------------
(* The semaphore.                                                          *)

Begin(t, r) == req' = [req EXCEPT ![t] = r]

TakeSem(t) ==
  IF heap_sem > 0
  THEN heap_sem' = heap_sem - 1 /\ Goto(t, "heap_in") /\ UNCHANGED k
  ELSE k' = BlockOn(k, HeapSem, t, "FIFO", Forever) /\ Goto(t, "heap_sched") /\ UNCHANGED heap_sem

HeapSchedule(t) == IpcSchedule(t, "heap_sched", "heap_in") /\ UNCHANGED heapvars

\* rt_sem_release at the end of a section, after which r is still to be done.
ReleaseSem(t, r) ==
  LET wakes == k.list[HeapSem] # <<>>
      more == r.op # "none"
  IN  /\ k' = ResumeFirst(k, HeapSem)
      /\ heap_sem' = IF wakes THEN heap_sem ELSE heap_sem + 1
      /\ Begin(t, r)
      /\ Goto(t, IF more THEN IF wakes THEN "heap_resched" ELSE "heap_again"
                 ELSE IF wakes THEN "sched" ELSE "run")

HeapReschedule(t) == IpcSchedule(t, "heap_resched", "heap_again") /\ UNCHANGED heapvars

HeapAgain(t) ==
  /\ Running(t, "heap_again")
  /\ TakeSem(t)
  /\ UNCHANGED <<isr, timeout, heap, blocks, req>>

-----------------------------------------------------------------------------
(* rt_malloc, rt_realloc and rt_free.  Sizes of 0 and sizes above HeapSize *)
(* are turned down at once, or come to another of the calls.               *)

HeapCall(t, r) ==
  /\ Calls(t, r.op)
  /\ Begin(t, r)
  /\ TakeSem(t)
  /\ UNCHANGED <<isr, timeout, heap>>

Malloc(t, size) ==
  /\ HeapCall(t, [NoRequest EXCEPT !.op = "malloc", !.size = Max2(size, MinSizeAligned)])
  /\ UNCHANGED blocks

\* The call has the block to itself.
Realloc(t, p, size) ==
  /\ p \in blocks /\ blocks' = blocks \ {p}
  /\ HeapCall(t, [NoRequest EXCEPT !.op = "realloc", !.size = size, !.at = p])

Free(t, p) ==
  /\ p \in blocks /\ blocks' = blocks \ {p}
  /\ HeapCall(t, [NoRequest EXCEPT !.op = "free", !.at = p])

\* The search of rt_malloc; without a fit it returns RT_NULL and a growing
\* rt_realloc leaves the old block as it is.
Search(t) ==
  LET found == Found(heap, req[t].size)
  IN  /\ Running(t, "heap_in") /\ req[t].op \in {"malloc", "grow"}
      /\ IF found # Null
         THEN /\ Begin(t, [req[t] EXCEPT !.at = found])
              /\ Goto(t, "heap_carve")
              /\ UNCHANGED <<k, heap_sem, blocks>>
         ELSE /\ ReleaseSem(t, NoRequest)
              /\ blocks' = blocks \cup ({req[t].old} \ {Null})
      /\ UNCHANGED <<isr, timeout, heap>>

Carve(t) ==
  /\ Running(t, "heap_carve")
  /\ heap' = Carved(heap, req[t].at, req[t].size)
  /\ blocks' = blocks \cup {req[t].at}
  /\ ReleaseSem(t, IF req[t].op = "grow"
                   THEN [NoRequest EXCEPT !.op = "free", !.at = req[t].old]
                   ELSE NoRequest)
  /\ UNCHANGED <<isr, timeout>>

\* rt_realloc under the semaphore: the same size, a smaller one with room for
\* a block behind it, or else a new block, to be had from rt_malloc.
Resize(t) ==
  LET p == req[t].at
      size == req[t].size
      old == DataSize(heap, p)
      shrinks == size + MemSize + MinSize < old
  IN  /\ Running(t, "heap_in") /\ req[t].op = "realloc"
      /\ heap' = IF shrinks THEN Shrunk(heap, p, size) ELSE heap
      /\ IF size = old \/ shrinks
         THEN ReleaseSem(t, NoRequest) /\ blocks' = blocks \cup {p}
         ELSE /\ ReleaseSem(t, [op |-> "grow", size |-> Max2(size, MinSizeAligned),
                                at |-> Null, old |-> p])
              /\ UNCHANGED blocks
      /\ UNCHANGED <<isr, timeout>>

FreeBlock(t) ==
  /\ Running(t, "heap_in") /\ req[t].op = "free"
  /\ heap' = Freed(heap, req[t].at)
  /\ ReleaseSem(t, NoRequest)
  /\ UNCHANGED <<isr, timeout, blocks>>

HeapStep(t) ==
  \/ \E size \in Size : Malloc(t, size)
  \/ \E p \in blocks : Free(t, p) \/ \E size \in Size : Realloc(t, p, size)
  \/ HeapSchedule(t) \/ HeapReschedule(t) \/ HeapAgain(t)
  \/ Search(t) \/ Carve(t) \/ Resize(t) \/ FreeBlock(t)
  \/ Pause(t) /\ UNCHANGED heapvars

-----------------------------------------------------------------------------
(* Properties.                                                             *)

InHands == blocks \cup {req[t].at : t \in {u \in Thread : req[u].op \in {"realloc", "free"}}}
                  \cup {req[t].old : t \in {u \in Thread : req[u].op = "grow"}}

\* The blocks tile the heap, each linked to the next and back, no two free ones
\* side by side; the used ones are those the application holds or has passed
\* to a call that is not over, each to one; and used_mem counts them, whichever
\* threads search, split, join and free at the same time.
HeapAccounted ==
  /\ \A p \in Header(heap) \ {HeapEnd} :
       /\ heap.next[p] \in Header(heap) /\ heap.next[p] > p
       /\ \A q \in Header(heap) : q <= p \/ q >= heap.next[p]
       /\ heap.next[p] # HeapEnd => heap.prev[heap.next[p]] = p
       /\ ~heap.used[p] /\ heap.next[p] # HeapEnd => heap.used[heap.next[p]]
  /\ {0, HeapEnd} \subseteq Header(heap) /\ heap.prev[0] = 0 /\ heap.used[HeapEnd]
  /\ {p \in Header(heap) \ {HeapEnd} : heap.used[p]} = InHands
  /\ heap.used_mem = MapThenSumSet(LAMBDA p : heap.next[p] - p, InHands)

\* lfree is the "pointer to the lowest free block" (mem.c:141).
LfreeLowest ==
  /\ heap.lfree = HeapEnd \/ ~heap.used[heap.lfree]
  /\ \A p \in Header(heap) : ~heap.used[p] => heap.lfree <= p

\* Only rt_realloc to a smaller size, which cuts a free block off without a
\* look at lfree, leaves free blocks below lfree, where rt_malloc does not look
\* for them; nothing else does, and a free of a lower block makes it good.
LfreeLostByRealloc ==
  [][LfreeLowest /\ ~LfreeLowest' =>
       \E t \in Thread : Running(t, "heap_in") /\ req[t].op = "realloc"]_heapvars

\* Who waits for the semaphore waits while another thread is inside.
HeapNobodyStranded ==
  k.list[HeapSem] # <<>> =>
    \E t \in Thread \ ToSet(k.list[HeapSem]) : pc[t] \in {"heap_sched", "heap_in", "heap_carve"}
=============================================================================
