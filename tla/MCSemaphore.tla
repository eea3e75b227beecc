---------------------------- MODULE MCSemaphore -----------------------------
(* One semaphore, two threads of different priority that wait for it, one  *)
(* of the higher priority that releases, resets and deletes it.            *)
EXTENDS Semaphore

CONSTANTS a, b, c

MCInitPrio == (a :> 0) @@ (b :> 1) @@ (c :> 1) @@ (Idle :> 2)
MCProg == (a :> {"take", "takewait", "create"})
       @@ (b :> {"take", "takewait", "release"})
       @@ (c :> {"trytake", "takewait", "release", "reset", "delete", "create"})
       @@ (Idle :> {})
=============================================================================
