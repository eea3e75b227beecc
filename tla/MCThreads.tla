----------------------------- MODULE MCThreads ------------------------------
(* Threads with a high thread, two threads that share a lower priority     *)
(* (one of them static) and the idle thread.                               *)
EXTENDS Threads

CONSTANTS h, m, n

MCInitPrio == (h :> 0) @@ (m :> 1) @@ (n :> 1) @@ (Idle :> 2)
MCProg == (h :> {"sleep", "exit", "resume", "isr", "priority"})
       @@ (m :> {"create", "startup", "delete", "suspend", "priority", "sleep"})
       @@ (n :> {"yield", "critical", "exit", "resume", "isr"})
       @@ (Idle :> {})
=============================================================================
