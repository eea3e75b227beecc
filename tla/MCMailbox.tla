----------------------------- MODULE MCMailbox ------------------------------
(* A mailbox of two words.  The waiting of a, of the highest priority, has  *)
(* a timeout; b and c, of one priority, send and receive without limit; a   *)
(* handler may be faster than any of them.                                  *)
EXTENDS Mailbox

CONSTANTS a, b, c

MCInitPrio == (a :> 0) @@ (b :> 1) @@ (c :> 1) @@ (Idle :> 2)
MCProg == (a :> {"recv_timed", "send_timed", "reset", "delete", "create"})
       @@ (b :> {"send_wait", "recv_wait"})
       @@ (c :> {"send_wait", "recv_wait", "tryrecv", "send"})
       @@ (Idle :> {})
MCSends == (a :> {1}) @@ (b :> {1}) @@ (c :> {2}) @@ (Idle :> {})
=============================================================================
