------------------------------ MODULE QueueSpec ------------------------------
(***************************************************************************)
(* What a bounded queue of messages promises, whatever its memory layout   *)
(* and however its callers interleave: every message put in is handed out  *)
(* once, whole, in the order of the puts (an urgent one before the others),*)
(* and there are never more than Size of them.                             *)
(*                                                                         *)
(* A put is one step, or two of a Sender: it offers a message, as urgent   *)
(* or not, and later puts that very message where it then belongs.         *)
(***************************************************************************)
EXTENDS Integers, Sequences

CONSTANTS Message,
          Size,     \* capacity
          Reader,   \* who may be handed a message
          Sender,   \* who puts in two steps
          Resets,   \* whether a call may empty the queue
          Nothing

VARIABLES queue,    \* messages in the queue
          held,     \* held[r]: what r has been handed and still looks at
          sending   \* sending[s]: what s has offered and not put yet
vars == <<queue, held, sending>>

NotSending == [message |-> Nothing, urgent |-> FALSE]

Init ==
  /\ queue = <<>>
  /\ held = [r \in Reader |-> Nothing]
  /\ sending = [s \in Sender |-> NotSending]

\* A reader may be done with its message at any time; it never changes.
KeepOrDrop(r) == held'[r] \in {held[r], Nothing}
Others(S) == held' \in [Reader -> Message \cup {Nothing}] /\ \A r \in S : KeepOrDrop(r)

Offer(s, m, u) ==
  /\ sending[s] = NotSending
  /\ sending' = [sending EXCEPT ![s] = [message |-> m, urgent |-> u]]
  /\ Others(Reader) /\ UNCHANGED queue

\* Only an urgent message overtakes.
Put(s) ==
  /\ sending[s] # NotSending
  /\ Len(queue) < Size
  /\ queue' = IF sending[s].urgent THEN <<sending[s].message>> \o queue
              ELSE Append(queue, sending[s].message)
  /\ sending' = [sending EXCEPT ![s] = NotSending]
  /\ Others(Reader)

PutAtOnce(m) ==
  /\ Len(queue) < Size
  /\ queue' = Append(queue, m)
  /\ Others(Reader) /\ UNCHANGED sending

Get(r) ==
  /\ queue # <<>>
  /\ queue' = Tail(queue)
  /\ Others(Reader \ {r})
  /\ held'[r] = Head(queue)
  /\ UNCHANGED sending

Clear == Resets /\ queue' = <<>> /\ Others(Reader) /\ UNCHANGED sending

Done == Others(Reader) /\ UNCHANGED <<queue, sending>>

Next ==
  \/ \E s \in Sender : Put(s) \/ \E m \in Message, u \in BOOLEAN : Offer(s, m, u)
  \/ \E m \in Message : PutAtOnce(m)
  \/ \E r \in Reader : Get(r)
  \/ Clear \/ Done

Spec == Init /\ [][Next]_vars
=============================================================================
