---------------------------- MODULE MCMessaging -----------------------------
(* A queue of two messages and an event of two flags, two threads of one   *)
(* priority that do everything, and interrupt handlers that send.          *)
EXTENDS Messaging

CONSTANTS a, b

MCInitPrio == (a :> 0) @@ (b :> 0) @@ (Idle :> 1)
MCProg == (a :> {"mq_recv_timed", "mq_send", "ev_recv_timed", "mq_delete", "ev_delete"})
       @@ (b :> {"mq_recv", "mq_tryrecv", "mq_urgent", "mq_reset", "mq_create",
                 "ev_recv", "ev_send", "ev_reset", "ev_create"})
       @@ (Idle :> {})
MCSymmetry == Permutations(Msg) \cup Permutations(Bit)
=============================================================================
