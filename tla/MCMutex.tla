------------------------------ MODULE MCMutex -------------------------------
(* One mutex, a high, a medium and a low thread; the medium one            *)
(* may start to compute for ever at any time.                              *)
EXTENDS Mutex

CONSTANTS high, mid, low, M

MCInitPrio == (high :> 0) @@ (mid :> 1) @@ (low :> 2) @@ (Idle :> 3)
MCProg == (high :> {"take", "takewait", "release", "sleep"})
       @@ (mid :> {"takewait", "release", "sleep", "compute"})
       @@ (low :> {"trytake", "release", "sleep", "delete"})
       @@ (Idle :> {})
=============================================================================
