---------------------------- MODULE SemaphoreSpec ----------------------------
(***************************************************************************)
(* What a counting semaphore promises, whatever the scheduler does: a call *)
(* of take that succeeds uses up one token, a call that fails uses none,   *)
(* and a release is never lost.  Semaphore is shown to implement it.       *)
(*                                                                         *)
(* outcome[t] is "idle" when t makes no blocking call, "waiting" while the *)
(* call is undecided, and then the code the call is going to return.       *)
(***************************************************************************)
EXTENDS Integers

CONSTANTS Thread,
          ValueSize   \* 2^width of the counter; a count wraps around

VARIABLES tokens, outcome,
          puts, resets   \* parity of the number of releases, and of resets

calls == <<puts, resets>>
vars == <<tokens, outcome, calls>>

TypeOK ==
  /\ tokens \in 0..(ValueSize - 1)
  /\ outcome \in [Thread -> {"idle", "waiting", "EOK", "ETIMEOUT", "ERROR"}]
  /\ puts \in {0, 1} /\ resets \in {0, 1}

Waiting == {t \in Thread : outcome[t] = "waiting"}

Init ==
  /\ tokens \in 0..(ValueSize - 1)
  /\ outcome = [t \in Thread |-> "idle"]
  /\ puts = 0 /\ resets = 0

Decide(t, code) == outcome' = [outcome EXCEPT ![t] = code]

TakeToken == tokens > 0 /\ tokens' = tokens - 1 /\ UNCHANGED <<outcome, calls>>

Wait(t) == outcome[t] = "idle" /\ tokens = 0 /\ Decide(t, "waiting") /\ UNCHANGED <<tokens, calls>>

\* A release gives its token to a waiter, if there is one.
Release == puts' = 1 - puts /\ UNCHANGED resets
Grant(t) == Release /\ t \in Waiting /\ Decide(t, "EOK") /\ UNCHANGED tokens
Put == Release /\ Waiting = {} /\ tokens' = (tokens + 1) % ValueSize /\ UNCHANGED outcome

Expire(t) == t \in Waiting /\ Decide(t, "ETIMEOUT") /\ UNCHANGED <<tokens, calls>>

Fail(t) == t \in Waiting /\ Decide(t, "ERROR") /\ UNCHANGED <<tokens, calls>>

\* A reset fails every waiter and sets the count.
Reset ==
  /\ tokens' \in 0..(ValueSize - 1)
  /\ outcome' = [t \in Thread |-> IF t \in Waiting THEN "ERROR" ELSE outcome[t]]
  /\ resets' = 1 - resets /\ UNCHANGED puts

Return(t) ==
  /\ outcome[t] \in {"EOK", "ETIMEOUT", "ERROR"}
  /\ Decide(t, "idle")
  /\ UNCHANGED <<tokens, calls>>

Next ==
  \/ TakeToken \/ Put \/ Reset
  \/ \E t \in Thread : Wait(t) \/ Grant(t) \/ Expire(t) \/ Fail(t) \/ Return(t)

Spec == Init /\ [][Next]_vars

\* No thread waits for a token that is there.
NoIdleToken == tokens > 0 => Waiting = {}
=============================================================================
