---------------------------- MODULE MCDriverIpc -----------------------------
(* A pool and a queue of two, two works, one completion, a heap of four,   *)
(* a pipe of two; a, of the highest priority, is also the work thread, the *)
(* one that waits for completion and the reader of the pipe.               *)
EXTENDS DriverIpc

CONSTANTS a, b, c

MCInitPrio == (a :> 0) @@ (b :> 1) @@ (c :> 1) @@ (Idle :> 2)
\* The thread that submits works is above the work thread.
MCPrioAbove == (a :> 1) @@ (b :> 0) @@ (c :> 1) @@ (Idle :> 2)
MCProg ==
  (a :> {"mp_alloc_timed", "mp_free", "mp_delete", "mp_create", "pop_timed", "push_timed",
         "dq_reset", "cp_wait", "cp_init", "wq_entry", "malloc", "free", "pipe", "pause"})
  @@ (b :> {"mp_alloc", "mp_free", "pop", "push", "cp_done", "dowork", "cancel",
            "cancel_sync", "cancel_all", "malloc", "free", "realloc", "pipe"})
  @@ (c :> {"mp_alloc", "mp_try", "pop", "trypop", "push", "trypush", "cp_done",
            "malloc", "free", "pipe"})
  @@ (Idle :> {})
\* There it sleeps between its calls.
MCProgAbove == [MCProg EXCEPT ![b] = @ \cup {"pause"}]
MCAccess == (a :> "r") @@ (b :> "w") @@ (c :> "r") @@ (Idle :> "r")
MCPayload == {[i \in 1..(BufSize + 1) |-> 0]}
MCSymmetry == Permutations(Block) \cup Permutations(Work) \cup Permutations(Item)
=============================================================================
