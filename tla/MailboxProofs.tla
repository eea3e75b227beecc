---------------------------- MODULE MailboxProofs ----------------------------
(***************************************************************************)
(* The mailbox of any size, with any threads, programs and timeouts: no    *)
(* thread is left waiting for what is there, and the words are handed out  *)
(* as QueueSpec promises.                                                  *)
(***************************************************************************)
EXTENDS Mailbox, KernelProofs

RecvPc == {"recv_sched", "recv_back"}
SendPc == {"send_sched", "send_back"}
ClosePc == {"close_recv", "resume_recv", "close_send", "resume_send", "free"}

\* A thread that goes on is ready, but for one on its way into rt_schedule.
Runner ==
  k.cur \in Thread /\ (pc[k.cur] \in {"send_sched", "recv_sched"} \/ k.stat[k.cur] = "READY")

\* Who is suspended is in the loop of its call, with a code that only those
\* who wake it change.
Waits ==
  /\ \A t \in Thread :
       /\ k.stat[t] = "SUSPEND" => t \in On(k, Receivers) \cup On(k, Senders)
       /\ t \in On(k, Receivers) => pc[t] \in RecvPc /\ k.err[t] = "EOK"
       /\ t \in On(k, Senders) => pc[t] \in SendPc /\ k.err[t] = "EOK"
       /\ pc[t] \in SendPc => value[t] \in Word
  /\ pc[Idle] \notin RecvPc \cup SendPc

\* The words lie between the two offsets.
Ring ==
  /\ mb.in_offset = (mb.out_offset + mb.entry) % Size
  /\ \A i \in 1..mb.entry : mb.msg_pool[(mb.out_offset + i - 1) % Size] \in Word

\* One thread at a time deletes, and finds nobody who was woken.
Closing ==
  /\ alive # "alive" => WokenReceivers = {} /\ WokenSenders = {}
  /\ alive = "gone" => On(k, Receivers) = {} /\ On(k, Senders) = {}
  /\ \A t \in Thread : pc[t] \in ClosePc =>
       /\ alive = "dying"
       /\ \A u \in Thread : pc[u] \in ClosePc => u = t
       /\ pc[t] \in {"close_send", "resume_send", "free"} => On(k, Receivers) = {}
       /\ pc[t] = "free" => On(k, Senders) = {}

MailInv ==
  /\ TypeOK /\ Settled(k)
  /\ Runner /\ (isr = "timer" => k.timers # <<>>)
  /\ Waits /\ Ring /\ NoStrandedThread /\ Closing

-----------------------------------------------------------------------------
(* The ring.                                                               *)

MailRing == [msg_pool : [0..(Size - 1) -> Word \cup {NoWord}], entry : 0..Size,
             in_offset : 0..(Size - 1), out_offset : 0..(Size - 1)]

LEMMA RingFields ==
  ASSUME mb \in MailRing
  PROVE  /\ mb.msg_pool \in [0..(Size - 1) -> Word \cup {NoWord}] /\ mb.entry \in 0..Size
         /\ mb.in_offset \in 0..(Size - 1) /\ mb.out_offset \in 0..(Size - 1)
         /\ Size \in Nat \ {0}
  BY MailboxAssumption DEF MailRing

\* The modulus as the offsets need it.
LEMMA Wrap ==
  ASSUME NEW x \in 0..(2 * Size - 1)
  PROVE  /\ x % Size = (IF x < Size THEN x ELSE x - Size)
         /\ x % Size \in 0..(Size - 1)
<1>1. Size \in Nat \ {0} BY MailboxAssumption
<1>2. CASE x < Size BY <1>1, <1>2
<1>3. CASE x >= Size BY <1>1, <1>3
<1> QED BY <1>1, <1>2, <1>3

\* The ring as a queue, index by index.
Slot(i) == (mb.out_offset + i - 1) % Size

LEMMA SlotIs ==
  ASSUME mb \in MailRing, NEW i \in 1..(Size + 1)
  PROVE  /\ Slot(i) \in 0..(Size - 1)
         /\ Slot(i) = (IF mb.out_offset + i - 1 < Size THEN mb.out_offset + i - 1
                       ELSE mb.out_offset + i - 1 - Size)
<1>1. Size \in Nat \ {0} /\ mb.out_offset \in 0..(Size - 1) BY RingFields
<1> DEFINE x == mb.out_offset + i - 1
<1>2. x \in 0..(2 * Size - 1) BY <1>1
<1>3. Slot(i) = x % Size BY DEF Slot
<1> HIDE DEF x
<1>4. x % Size = (IF x < Size THEN x ELSE x - Size) /\ x % Size \in 0..(Size - 1) BY <1>2, Wrap
<1> QED BY <1>1, <1>3, <1>4 DEF x

\* Two words are never in one slot.
LEMMA SlotsDiffer ==
  ASSUME NEW n \in Nat \ {0}, NEW o \in 0..(n - 1), NEW j \in 1..n, NEW i \in 1..n, i < j
  PROVE  (IF o + i - 1 < n THEN o + i - 1 ELSE o + i - 1 - n)
         # (IF o + j - 1 < n THEN o + j - 1 ELSE o + j - 1 - n)
  OBVIOUS

\* One step of either offset is one slot further.
LEMMA SlotAfter ==
  ASSUME NEW n \in Nat \ {0}, NEW o \in 0..(n - 1), NEW i \in 1..n, NEW p, NEW s,
         p = (IF o + 1 >= n THEN 0 ELSE o + 1),
         s = (IF o + i - 1 < n THEN o + i - 1 ELSE o + i - 1 - n)
  PROVE  /\ (IF p + i - 1 < n THEN p + i - 1 ELSE p + i - 1 - n)
              = (IF o + (i + 1) - 1 < n THEN o + (i + 1) - 1 ELSE o + (i + 1) - 1 - n)
         /\ (IF s + 1 >= n THEN 0 ELSE s + 1)
              = (IF o + (i + 1) - 1 < n THEN o + (i + 1) - 1 ELSE o + (i + 1) - 1 - n)
<1>1. CASE o + 1 >= n BY <1>1
<1>2. CASE o + 1 < n BY <1>2
<1> QED BY <1>1, <1>2

LEMMA ContentIs ==
  ASSUME mb \in MailRing, Ring
  PROVE  /\ Content \in Seq(Word) /\ Len(Content) = mb.entry
         /\ \A i \in 1..mb.entry : Content[i] = mb.msg_pool[Slot(i)]
         /\ mb.in_offset = Slot(mb.entry + 1)
<1>1. mb.entry \in Nat /\ mb.out_offset \in Nat BY RingFields
<1>2. \A i \in 1..mb.entry : mb.msg_pool[Slot(i)] \in Word BY DEF Ring, Slot
<1>3. Content = [i \in 1..mb.entry |-> mb.msg_pool[Slot(i)]] BY DEF Content, Slot
<1>4. mb.in_offset = Slot(mb.entry + 1)
  <2>1. mb.out_offset + (mb.entry + 1) - 1 = mb.out_offset + mb.entry BY <1>1
  <2> QED BY <2>1 DEF Ring, Slot
<1> QED BY <1>1, <1>2, <1>3, <1>4

\* rt_mb_send_wait writes the slot behind the words.
LEMMA StoreOK ==
  ASSUME mb \in MailRing, Ring, ~Full, NEW v \in Word, mb' = Store(v)
  PROVE  /\ mb' \in MailRing /\ Ring' /\ mb'.entry = mb.entry + 1 /\ mb.entry < Size
         /\ Len(Content) < Size /\ Content' = Append(Content, v)
<1> DEFINE out == mb.out_offset
           n == mb.entry
           in == mb.in_offset
<1>1. /\ mb.msg_pool \in [0..(Size - 1) -> Word \cup {NoWord}] /\ n \in Nat /\ n < Size
      /\ in \in 0..(Size - 1) /\ out \in 0..(Size - 1) /\ Size \in Nat \ {0}
  BY RingFields DEF Full
<1>2. NextOffset(in) \in 0..(Size - 1) /\ NextOffset(in) = (IF in + 1 >= Size THEN 0 ELSE in + 1)
  BY <1>1 DEF NextOffset
<1>3. /\ mb'.msg_pool = [mb.msg_pool EXCEPT ![in] = v] /\ mb'.in_offset = NextOffset(in)
      /\ mb'.entry = n + 1 /\ mb'.out_offset = out
  BY DEF Store, MailRing
<1>4. mb' \in MailRing
  <2>1. mb' = [mb EXCEPT !.msg_pool = [mb.msg_pool EXCEPT ![in] = v],
                         !.in_offset = NextOffset(in), !.entry = n + 1]
    BY DEF Store, MailRing
  <2>2. [mb.msg_pool EXCEPT ![in] = v] \in [0..(Size - 1) -> Word \cup {NoWord}] BY <1>1
  <2>3. n + 1 \in 0..Size BY <1>1
  <2> QED BY <1>2, <2>1, <2>2, <2>3 DEF MailRing
<1>5. /\ Content \in Seq(Word) /\ Len(Content) = n /\ in = Slot(n + 1)
      /\ \A i \in 1..n : Content[i] = mb.msg_pool[Slot(i)]
  BY ContentIs
<1>6. \A i \in 1..(n + 1) : Slot(i)' = Slot(i) /\ Slot(i) \in 0..(Size - 1)
  BY <1>1, <1>3, SlotIs DEF Slot
<1>7. \A i \in 1..n : Slot(i) # in
  <2> TAKE i \in 1..n
  <2>1. i \in 1..(Size + 1) /\ n + 1 \in 1..(Size + 1) /\ i < n + 1
        /\ i \in 1..Size /\ n + 1 \in 1..Size
    BY <1>1
  <2>2. Slot(i) = (IF out + i - 1 < Size THEN out + i - 1 ELSE out + i - 1 - Size) BY <2>1, SlotIs
  <2>3. in = (IF out + (n + 1) - 1 < Size THEN out + (n + 1) - 1 ELSE out + (n + 1) - 1 - Size)
    BY <2>1, <1>5, SlotIs
  <2> QED BY <1>1, <2>1, <2>2, <2>3, SlotsDiffer
<1>8. \A i \in 1..(n + 1) : mb'.msg_pool[Slot(i)'] = Append(Content, v)[i] /\ Append(Content, v)[i] \in Word
  <2> TAKE i \in 1..(n + 1)
  <2>1. CASE i = n + 1 BY <1>1, <1>3, <1>5, <1>6, <2>1
  <2>2. CASE i # n + 1
    <3>1. i \in 1..n BY <1>1, <2>2
    <3>2. mb'.msg_pool[Slot(i)'] = mb.msg_pool[Slot(i)] BY <1>1, <1>3, <1>6, <1>7, <3>1
    <3> QED BY <1>5, <3>1, <3>2
  <2> QED BY <2>1, <2>2
<1>9. mb'.in_offset = (mb'.out_offset + mb'.entry) % Size
  <2>1. /\ n + 1 \in 1..Size /\ n + 1 \in 1..(Size + 1) /\ n + 2 \in 1..(Size + 1)
        /\ (n + 1) + 1 = n + 2
    BY <1>1
  <2>2. in = (IF out + (n + 1) - 1 < Size THEN out + (n + 1) - 1 ELSE out + (n + 1) - 1 - Size)
    BY <2>1, <1>5, SlotIs
  <2>3. Slot(n + 2) = (IF out + (n + 2) - 1 < Size THEN out + (n + 2) - 1 ELSE out + (n + 2) - 1 - Size)
    BY <2>1, SlotIs
  <2>4. NextOffset(in) = Slot(n + 2)
    <3>1. (IF in + 1 >= Size THEN 0 ELSE in + 1)
            = (IF out + ((n + 1) + 1) - 1 < Size THEN out + ((n + 1) + 1) - 1
               ELSE out + ((n + 1) + 1) - 1 - Size)
      <4> HIDE DEF in, out, n
      <4> QED BY <1>1, <2>1, <2>2, SlotAfter
    <3> QED BY <1>2, <2>1, <2>3, <3>1
  <2>5. out + (n + 2) - 1 = out + (n + 1) BY <1>1
  <2> QED BY <1>3, <2>4, <2>5 DEF Slot
<1>10. Ring' BY <1>3, <1>8, <1>9 DEF Ring, Slot
<1>11. Content' = Append(Content, v)
  <2>1. Content' = [i \in 1..(n + 1) |-> mb'.msg_pool[Slot(i)']] BY <1>3 DEF Content, Slot
  <2>2. Append(Content, v) \in Seq(Word) /\ Len(Append(Content, v)) = n + 1 BY <1>5
  <2> DEFINE q == Append(Content, v)
  <2> HIDE DEF q
  <2>3. q = [i \in 1..(n + 1) |-> q[i]]
    <3>1. q \in Seq(Word) /\ Len(q) = n + 1 BY <2>2 DEF q
    <3> HIDE DEF n
    <3> QED BY <3>1
  <2>4. \A i \in 1..(n + 1) : mb'.msg_pool[Slot(i)'] = q[i] BY <1>8 DEF q
  <2> QED BY <2>1, <2>3, <2>4 DEF q
<1> QED BY <1>1, <1>3, <1>4, <1>5, <1>10, <1>11

\* rt_mb_recv takes the word of the first slot.
LEMMA FetchOK ==
  ASSUME mb \in MailRing, Ring, ~Empty, mb' = Fetched
  PROVE  /\ mb' \in MailRing /\ Ring' /\ mb'.entry = mb.entry - 1 /\ mb.entry > 0
         /\ Content # <<>> /\ Content' = Tail(Content)
         /\ mb.msg_pool[mb.out_offset] = Head(Content) /\ Head(Content) \in Word
<1> DEFINE out == mb.out_offset
           n == mb.entry
           in == mb.in_offset
<1>1. /\ mb.msg_pool \in [0..(Size - 1) -> Word \cup {NoWord}] /\ n \in Nat \ {0} /\ n <= Size
      /\ in \in 0..(Size - 1) /\ out \in 0..(Size - 1) /\ Size \in Nat \ {0}
  BY RingFields DEF Empty
<1>2. NextOffset(out) \in 0..(Size - 1) /\ NextOffset(out) = (IF out + 1 >= Size THEN 0 ELSE out + 1)
  BY <1>1 DEF NextOffset
<1>3. /\ mb'.msg_pool = [mb.msg_pool EXCEPT ![out] = NoWord] /\ mb'.in_offset = in
      /\ mb'.entry = n - 1 /\ mb'.out_offset = NextOffset(out)
  BY DEF Fetched, MailRing
<1>4. mb' \in MailRing
  <2>1. mb' = [mb EXCEPT !.msg_pool = [mb.msg_pool EXCEPT ![out] = NoWord],
                         !.out_offset = NextOffset(out), !.entry = n - 1]
    BY DEF Fetched, MailRing
  <2>2. [mb.msg_pool EXCEPT ![out] = NoWord] \in [0..(Size - 1) -> Word \cup {NoWord}] BY <1>1
  <2>3. n - 1 \in 0..Size BY <1>1
  <2> QED BY <1>2, <2>1, <2>2, <2>3 DEF MailRing
<1>5. /\ Content \in Seq(Word) /\ Len(Content) = n /\ in = Slot(n + 1)
      /\ \A i \in 1..n : Content[i] = mb.msg_pool[Slot(i)]
  BY ContentIs
<1>6. Slot(1) = out
  <2>1. 1 \in 1..(Size + 1) BY <1>1
  <2>2. Slot(1) = (IF out + 1 - 1 < Size THEN out + 1 - 1 ELSE out + 1 - 1 - Size) BY <2>1, SlotIs
  <2> QED BY <1>1, <2>2
<1>7. \A i \in 1..n : Slot(i)' = Slot(i + 1)
  <2> TAKE i \in 1..n
  <2>1. i \in 1..(Size + 1) /\ i + 1 \in 1..(Size + 1) BY <1>1
  <2>2. Slot(i)' = (IF mb'.out_offset + i - 1 < Size THEN mb'.out_offset + i - 1
                    ELSE mb'.out_offset + i - 1 - Size)
    <3> DEFINE x == mb'.out_offset + i - 1
    <3>1. x \in 0..(2 * Size - 1) BY <1>1, <1>2, <1>3
    <3>2. Slot(i)' = x % Size BY DEF Slot
    <3> HIDE DEF x
    <3>3. x % Size = (IF x < Size THEN x ELSE x - Size) BY <3>1, Wrap
    <3> QED BY <1>1, <1>2, <1>3, <3>2, <3>3 DEF x
  <2>3. Slot(i + 1) = (IF out + (i + 1) - 1 < Size THEN out + (i + 1) - 1
                       ELSE out + (i + 1) - 1 - Size)
    BY <2>1, SlotIs
  <2>4. i \in 1..Size BY <1>1
  <2> DEFINE p == mb'.out_offset
  <2>5. p = (IF out + 1 >= Size THEN 0 ELSE out + 1) BY <1>2, <1>3
  <2>6. (IF p + i - 1 < Size THEN p + i - 1 ELSE p + i - 1 - Size)
          = (IF out + (i + 1) - 1 < Size THEN out + (i + 1) - 1 ELSE out + (i + 1) - 1 - Size)
    <3> HIDE DEF p, out
    <3> QED BY <1>1, <2>4, <2>5, SlotAfter
  <2> QED BY <2>2, <2>3, <2>6
<1>8. \A i \in 1..(n - 1) : mb'.msg_pool[Slot(i)'] = Content[i + 1] /\ Content[i + 1] \in Word
  <2> TAKE i \in 1..(n - 1)
  <2>1. /\ i \in 1..n /\ i + 1 \in 1..n /\ i + 1 \in 1..(Size + 1)
        /\ 1 \in 1..Size /\ i + 1 \in 1..Size /\ 1 < i + 1 /\ 1 \in 1..(Size + 1)
    BY <1>1
  <2>2. Slot(i + 1) \in 0..(Size - 1) BY <2>1, SlotIs
  <2>3. Slot(i + 1) # out
    <3>1. Slot(i + 1) = (IF out + (i + 1) - 1 < Size THEN out + (i + 1) - 1
                         ELSE out + (i + 1) - 1 - Size)
      BY <2>1, SlotIs
    <3>2. Slot(1) = (IF out + 1 - 1 < Size THEN out + 1 - 1 ELSE out + 1 - 1 - Size) BY <2>1, SlotIs
    <3> QED BY <1>1, <1>6, <2>1, <3>1, <3>2, SlotsDiffer
  <2>4. Slot(i)' = Slot(i + 1) BY <1>7, <2>1
  <2>5. mb'.msg_pool[Slot(i)'] = mb.msg_pool[Slot(i + 1)] BY <1>1, <1>3, <2>2, <2>3, <2>4
  <2> QED BY <1>5, <2>1, <2>5
<1>9. mb'.in_offset = (mb'.out_offset + mb'.entry) % Size
  <2>1. PICK m \in 1..n : m = n BY <1>1
  <2>2. Slot(m)' = in BY <1>5, <1>7, <2>1
  <2>3. mb'.out_offset + m - 1 = mb'.out_offset + mb'.entry BY <1>1, <1>2, <1>3, <2>1
  <2>4. Slot(m)' = (mb'.out_offset + m - 1) % Size BY DEF Slot
  <2> QED BY <1>3, <2>2, <2>3, <2>4
<1>10. Ring' BY <1>3, <1>8, <1>9 DEF Ring, Slot
<1>11. Content' = Tail(Content) /\ Content # <<>>
  <2>1. Content' = [i \in 1..(n - 1) |-> mb'.msg_pool[Slot(i)']] BY <1>3 DEF Content, Slot
  <2>2. Tail(Content) = [i \in 1..(n - 1) |-> Content[i + 1]] /\ Content # <<>>
    <3> DEFINE q == Content
    <3>1. q \in Seq(Word) /\ Len(q) = n /\ n \in Nat \ {0} BY <1>1, <1>5
    <3> HIDE DEF n, q
    <3>2. q # <<>> BY <3>1
    <3>3. /\ Tail(q) \in Seq(Word) /\ Len(Tail(q)) = n - 1
          /\ \A i \in 1..(n - 1) : Tail(q)[i] = q[i + 1]
      BY <3>1, <3>2, HeadTailProperties
    <3> DEFINE r == Tail(q)
    <3> HIDE DEF r
    <3>4. r = [i \in 1..(n - 1) |-> r[i]]
      <4>1. r \in Seq(Word) /\ Len(r) = n - 1 BY <3>3 DEF r
      <4> QED BY <4>1
    <3>5. r = [i \in 1..(n - 1) |-> q[i + 1]] BY <3>3, <3>4 DEF r
    <3> QED BY <3>2, <3>5 DEF q, r
  <2> QED BY <1>8, <2>1, <2>2
<1>12. mb.msg_pool[out] = Head(Content) /\ Head(Content) \in Word
  <2>1. 1 \in 1..n BY <1>1
  <2>2. Head(Content) = Content[1] /\ Content[1] \in Word BY <1>5, <2>1
  <2> QED BY <1>5, <1>6, <2>1, <2>2
<1> QED BY <1>1, <1>3, <1>4, <1>10, <1>11, <1>12

\* The mailbox is emptied or made anew.
LEMMA NewOK ==
  ASSUME mb' = NewMailbox
  PROVE  mb' \in MailRing /\ Ring' /\ mb'.entry = 0 /\ Content' = <<>>
<1>1. Size \in Nat \ {0} BY MailboxAssumption
<1>2. mb' \in MailRing BY <1>1 DEF NewMailbox, MailRing
<1>3. mb'.entry = 0 /\ mb'.in_offset = 0 /\ mb'.out_offset = 0 BY DEF NewMailbox
<1>4. 0 % Size = 0 BY <1>1
<1>5. Ring' BY <1>3, <1>4 DEF Ring
<1>6. Content' = <<>> BY <1>3 DEF Content
<1> QED BY <1>2, <1>3, <1>5, <1>6

-----------------------------------------------------------------------------
(* The threads that wait and those that were woken.                        *)

LEMMA MailFacts ==
  ASSUME MailInv
  PROVE  /\ Settled(k) /\ Waits /\ Ring /\ k.err \in [Thread -> Error]
         /\ pc \in [Thread -> Label] /\ mb \in MailRing /\ mb.entry \in 0..Size /\ Size \in Nat \ {0}
         /\ value \in [Thread -> Word \cup {NoWord}] /\ timeout \in [Thread -> Timeout]
         /\ isr \in {"none", "timer"} /\ alive \in {"alive", "dying", "gone"}
         /\ got \in Word \cup {NoWord}
         /\ Receivers \in WaitList /\ Senders \in WaitList /\ Receivers # Senders
         /\ \A w \in {Receivers, Senders} :
              /\ k.list[w] = <<>> <=> On(k, w) = {}
              /\ On(k, w) \subseteq Thread
              /\ \A t \in On(k, w) : k.stat[t] = "SUSPEND" /\ OnlyOn(k, t, w)
         /\ WokenReceivers \in SUBSET Thread /\ WokenSenders \in SUBSET Thread
<1>1. Receivers \in WaitList /\ Senders \in WaitList /\ Receivers # Senders /\ Size \in Nat \ {0}
  BY MailboxAssumption
<1>2. Settled(k) BY DEF MailInv
<1>3. k.err \in [Thread -> Error] BY <1>2, SettledFields
<1>4. \A w \in {Receivers, Senders} :
        /\ k.list[w] = <<>> <=> On(k, w) = {}
        /\ On(k, w) \subseteq Thread
        /\ \A t \in On(k, w) : k.stat[t] = "SUSPEND" /\ OnlyOn(k, t, w)
  BY <1>1, <1>2, SettledFields
<1>5. mb \in MailRing BY DEF MailInv, TypeOK, MailRing
<1>6. mb.entry \in 0..Size BY <1>5, RingFields
<1>7. WokenReceivers \in SUBSET Thread /\ WokenSenders \in SUBSET Thread
  BY DEF WokenReceivers, WokenSenders, Woken
<1> QED BY <1>1, <1>2, <1>3, <1>4, <1>5, <1>6, <1>7 DEF MailInv, TypeOK, IpcTypeOK

LEMMA MoveTo ==
  ASSUME MailInv, NEW t \in Thread, NEW l \in Label, Goto(t, l)
  PROVE  pc' \in [Thread -> Label] /\ \A u \in Thread : pc'[u] = IF u = t THEN l ELSE pc[u]
  BY MailFacts DEF Goto

\* Who was woken, thread by thread.
LEMMA WokenAre ==
  /\ \A t : t \in WokenReceivers <=> t \in Thread /\ pc[t] \in RecvPc
                                    /\ t \notin On(k, Receivers) /\ k.err[t] = "EOK"
  /\ \A t : t \in WokenSenders <=> t \in Thread /\ pc[t] \in SendPc
                                  /\ t \notin On(k, Senders) /\ k.err[t] = "EOK"
  BY DEF WokenReceivers, WokenSenders, Woken, On, RecvPc, SendPc

LEMMA WokenAreNext ==
  /\ \A t : t \in WokenReceivers' <=> t \in Thread /\ pc'[t] \in RecvPc
                                    /\ t \notin On(k', Receivers) /\ k'.err[t] = "EOK"
  /\ \A t : t \in WokenSenders' <=> t \in Thread /\ pc'[t] \in SendPc
                                  /\ t \notin On(k', Senders) /\ k'.err[t] = "EOK"
  BY DEF WokenReceivers, WokenSenders, Woken, On, RecvPc, SendPc

\* Some of those who wait are failed; nobody enters or leaves a loop.
LEMMA AfterFailure ==
  ASSUME MailInv, NEW M \in SUBSET Thread, Settled(k'), Same(k, k', M),
         \A u \in M : /\ k.stat[u] = "SUSPEND" /\ k'.stat[u] = "READY"
                      /\ k'.err[u] # "EOK" /\ OnNone(k', u),
         \A u \in Thread : /\ pc'[u] \in RecvPc <=> pc[u] \in RecvPc
                           /\ pc'[u] \in SendPc <=> pc[u] \in SendPc,
         UNCHANGED value
  PROVE  /\ Waits' /\ WokenReceivers' = WokenReceivers /\ WokenSenders' = WokenSenders
         /\ On(k', Receivers) = On(k, Receivers) \ M /\ On(k', Senders) = On(k, Senders) \ M
<1>1. Receivers \in WaitList /\ Senders \in WaitList BY MailFacts
<1>2. \A w \in {Receivers, Senders} : On(k', w) \subseteq Thread /\ On(k, w) \subseteq Thread
  BY <1>1, SettledFields, MailFacts
<1>3. \A w \in {Receivers, Senders} : On(k', w) = On(k, w) \ M
  BY <1>1, <1>2 DEF Same, OnNone
<1>4. Waits' BY <1>1, <1>3, MailFacts, ThreadAssumption DEF Waits, Same
<1>5. \A u \in M : u \notin WokenReceivers /\ u \notin WokenSenders
  BY WokenAre, MailFacts DEF Waits, RecvPc, SendPc
<1>6. \A u \in M : u \notin WokenReceivers' /\ u \notin WokenSenders' BY WokenAreNext
<1>7. \A u \in Thread \ M : /\ u \in WokenReceivers' <=> u \in WokenReceivers
                            /\ u \in WokenSenders' <=> u \in WokenSenders
  BY <1>3, WokenAre, WokenAreNext DEF Same
<1>8. \A u : (u \in WokenReceivers' \/ u \in WokenSenders' => u \in Thread) BY WokenAreNext
<1>9. \A u : /\ u \in WokenReceivers' <=> u \in WokenReceivers
             /\ u \in WokenSenders' <=> u \in WokenSenders
  BY <1>5, <1>6, <1>7, <1>8, MailFacts
<1> QED BY <1>3, <1>4, <1>9

\* NoStrandedThread by sets of threads.
LEMMA Enough ==
  ASSUME MailInv
  PROVE  /\ On(k, Receivers) # {} => mb.entry <= Cardinality(WokenReceivers)
         /\ On(k, Senders) # {} => Size - mb.entry <= Cardinality(WokenSenders)
  BY MailFacts DEF MailInv, NoStrandedThread

LEMMA EnoughNext ==
  ASSUME Settled(k')
  PROVE  /\ WokenReceivers' \in SUBSET Thread /\ WokenSenders' \in SUBSET Thread
         /\ (/\ On(k', Receivers) # {} => mb'.entry <= Cardinality(WokenReceivers')
             /\ On(k', Senders) # {} => Size - mb'.entry <= Cardinality(WokenSenders'))
            => NoStrandedThread'
<1>1. Receivers \in WaitList /\ Senders \in WaitList BY MailboxAssumption
<1>2. \A w \in {Receivers, Senders} : k'.list[w] = <<>> <=> On(k', w) = {}
  BY <1>1, SettledFields
<1>3. WokenReceivers' \in SUBSET Thread /\ WokenSenders' \in SUBSET Thread BY WokenAreNext
<1> QED BY <1>2, <1>3 DEF NoStrandedThread

\* Nothing comes or goes, and who was woken stays so.
LEMMA StillEnough ==
  ASSUME MailInv, Settled(k'), mb' = mb,
         On(k', Receivers) \subseteq On(k, Receivers), On(k', Senders) \subseteq On(k, Senders),
         WokenReceivers' = WokenReceivers, WokenSenders' = WokenSenders
  PROVE  NoStrandedThread'
  BY Enough, EnoughNext

\* A caller goes to sleep on w, where nothing is there for it.
LEMMA AfterSleep ==
  ASSUME MailInv, NEW t \in Thread \ {Idle}, k.stat[t] = "READY",
         NEW w \in {Receivers, Senders}, Settled(k'), Same(k, k', {t}),
         k'.stat[t] = "SUSPEND", k'.err[t] = "EOK", OnlyOn(k', t, w),
         \A u \in Thread \ {t} : pc'[u] = pc[u] /\ value'[u] = value[u], mb' = mb,
         \/ w = Receivers /\ pc'[t] \in RecvPc /\ pc[t] \notin SendPc /\ Empty
         \/ w = Senders /\ pc'[t] \in SendPc /\ pc[t] \notin RecvPc /\ Full /\ value'[t] \in Word
  PROVE  Waits' /\ NoStrandedThread'
<1>1. /\ Receivers \in WaitList /\ Senders \in WaitList /\ w \in WaitList /\ Receivers # Senders
      /\ Size \in Nat /\ mb.entry \in 0..Size
  BY MailFacts
<1>2. OnNone(k, t) BY ReadyOnNone, MailFacts
<1>3. \A v \in {Receivers, Senders} : On(k', v) \subseteq Thread /\ On(k, v) \subseteq Thread
  BY <1>1, SettledFields, MailFacts
<1>4. \A v \in {Receivers, Senders} : On(k', v) = IF v = w THEN On(k, v) \cup {t} ELSE On(k, v)
  <2> TAKE v \in {Receivers, Senders}
  <2>1. v \in WaitList BY <1>1
  <2>2. t \notin On(k, v) /\ (t \in On(k', v) <=> v = w) BY <1>2, <2>1 DEF OnlyOn, OnNone
  <2>3. \A u \in Thread \ {t} : u \in On(k', v) <=> u \in On(k, v) BY <2>1 DEF Same
  <2>4. On(k', v) \subseteq Thread /\ On(k, v) \subseteq Thread BY <1>3
  <2> QED BY <2>2, <2>3, <2>4
<1>5. RecvPc \cap SendPc = {} BY DEF RecvPc, SendPc
<1>6. Waits' BY <1>1, <1>4, <1>5, MailFacts, ThreadAssumption DEF Waits, Same
<1>7. CASE w = Receivers
  <2>1. Empty /\ pc'[t] \notin SendPc /\ pc[t] \notin SendPc BY <1>1, <1>5, <1>7
  <2>2. \A u : u \in WokenSenders' <=> u \in WokenSenders
    BY <1>1, <1>4, <1>7, <2>1, WokenAre, WokenAreNext DEF Same
  <2>3. WokenSenders' = WokenSenders BY <2>2
  <2>4. On(k', Senders) = On(k, Senders) BY <1>1, <1>4, <1>7
  <2>5. mb'.entry <= Cardinality(WokenReceivers')
    <3>1. mb'.entry = 0 BY <2>1 DEF Empty
    <3> QED BY <3>1, EnoughNext, IpcAssumption, FS_Subset, FS_CardinalityType
  <2> QED BY <1>6, <2>3, <2>4, <2>5, Enough, EnoughNext
<1>8. CASE w = Senders
  <2>1. Full /\ pc'[t] \notin RecvPc /\ pc[t] \notin RecvPc BY <1>1, <1>5, <1>8
  <2>2. \A u : u \in WokenReceivers' <=> u \in WokenReceivers
    BY <1>1, <1>4, <1>8, <2>1, WokenAre, WokenAreNext DEF Same
  <2>3. WokenReceivers' = WokenReceivers BY <2>2
  <2>4. On(k', Receivers) = On(k, Receivers) BY <1>1, <1>4, <1>8
  <2>5. Size - mb'.entry <= Cardinality(WokenSenders')
    <3>1. Size - mb'.entry = 0 BY <1>1, <2>1 DEF Full
    <3> QED BY <3>1, EnoughNext, IpcAssumption, FS_Subset, FS_CardinalityType
  <2> QED BY <1>6, <2>3, <2>4, <2>5, Enough, EnoughNext
<1> QED BY <1>7, <1>8

\* A caller returns: it was not woken, or looked and found nothing.
LEMMA AfterReturn ==
  ASSUME MailInv, NEW t \in Thread, k.stat[t] = "READY", Return(t), mb' = mb,
         t \in WokenReceivers => Empty, t \in WokenSenders => Full,
         \A u \in Thread \ {t} : value'[u] = value[u]
  PROVE  /\ Settled(k') /\ k'.stat = k.stat /\ k'.cur = k.cur
         /\ Waits' /\ NoStrandedThread' /\ pc' = [pc EXCEPT ![t] = "run"]
         /\ On(k', Receivers) = On(k, Receivers) /\ On(k', Senders) = On(k, Senders)
         /\ WokenReceivers' \subseteq WokenReceivers /\ WokenSenders' \subseteq WokenSenders
<1>1. Settled(k) BY MailFacts
<1>2. /\ KernelOK(k') /\ Still(k, k') /\ Kept(k, k') /\ k'.list = k.list /\ k'.stat = k.stat
      /\ k'.err = [k.err EXCEPT ![t] = "EOK"]
  BY <1>1, SetError DEF Return, Settled, Resting, Error
<1>3. Same(k, k', {t}) BY <1>1, ErrorSame DEF Return, Settled, Resting, Error
<1>4. /\ pc' = [pc EXCEPT ![t] = "run"] /\ pc'[t] = "run"
      /\ \A u \in Thread \ {t} : pc'[u] = pc[u]
  BY MailFacts DEF Return, Goto
<1>5. Settled(k')
  <2>1. ~Off(k', t) BY <1>1, <1>2 DEF Still, Settled, Resting
  <2> QED BY <1>1, <1>2, <1>3, <2>1, OneReady DEF Kept, Settled, Resting
<1>6. \A w : On(k', w) = On(k, w) BY <1>2 DEF On
<1>7. Waits' BY <1>2, <1>3, <1>4, <1>6, MailFacts, ThreadAssumption DEF Waits, Same, RecvPc, SendPc
<1>8. /\ \A u \in Thread \ {t} : /\ u \in WokenReceivers' <=> u \in WokenReceivers
                                 /\ u \in WokenSenders' <=> u \in WokenSenders
      /\ t \notin WokenReceivers' /\ t \notin WokenSenders'
  BY <1>3, <1>4, <1>6, WokenAre, WokenAreNext DEF Same, RecvPc, SendPc
<1>9. /\ WokenReceivers' \subseteq WokenReceivers /\ WokenSenders' \subseteq WokenSenders
      /\ t \notin WokenReceivers => WokenReceivers' = WokenReceivers
      /\ t \notin WokenSenders => WokenSenders' = WokenSenders
  <2>1. /\ WokenReceivers' \in SUBSET Thread /\ WokenSenders' \in SUBSET Thread
        /\ WokenReceivers \in SUBSET Thread /\ WokenSenders \in SUBSET Thread
    BY <1>5, EnoughNext, MailFacts
  <2> QED BY <1>8, <2>1
<1>10. NoStrandedThread'
  <2>1. /\ mb.entry \in 0..Size /\ Size \in Nat /\ Cardinality(WokenReceivers') \in Nat
        /\ Cardinality(WokenSenders') \in Nat
    BY <1>5, EnoughNext, MailFacts, IpcAssumption, FS_Subset, FS_CardinalityType
  <2>2. On(k', Receivers) # {} => mb'.entry <= Cardinality(WokenReceivers')
    BY <1>6, <1>9, <2>1, Enough DEF Empty
  <2>3. On(k', Senders) # {} => Size - mb'.entry <= Cardinality(WokenSenders')
    BY <1>6, <1>9, <2>1, Enough DEF Full
  <2> QED BY <1>5, <2>2, <2>3, EnoughNext
<1> QED BY <1>2, <1>4, <1>5, <1>6, <1>7, <1>9, <1>10 DEF Kept

\* The two lists alike: the loop of their callers, who was woken from them,
\* and how much of what they wait for is there.
Loop(w) == IF w = Receivers THEN RecvPc ELSE SendPc
WokenOn(w) == IF w = Receivers THEN WokenReceivers ELSE WokenSenders
Has(w) == IF w = Receivers THEN mb.entry ELSE Size - mb.entry

LEMMA BothLists ==
  ASSUME MailInv, NEW w \in {Receivers, Senders}
  PROVE  /\ \A t : t \in WokenOn(w) <=> /\ t \in Thread /\ pc[t] \in Loop(w)
                                        /\ t \notin On(k, w) /\ k.err[t] = "EOK"
         /\ \A t : t \in WokenOn(w)' <=> /\ t \in Thread /\ pc'[t] \in Loop(w)
                                         /\ t \notin On(k', w) /\ k'.err[t] = "EOK"
         /\ \A t \in On(k, w) : pc[t] \in Loop(w) /\ k.err[t] = "EOK"
         /\ Has(w) \in Nat /\ (On(k, w) # {} => Has(w) <= Cardinality(WokenOn(w)))
<1>1. /\ Receivers # Senders /\ mb.entry \in 0..Size /\ Size \in Nat
      /\ On(k, Receivers) \subseteq Thread /\ On(k, Senders) \subseteq Thread
  BY MailFacts
<1>2. CASE w = Receivers
  <2>1. Loop(w) = RecvPc /\ WokenOn(w) = WokenReceivers /\ WokenOn(w)' = WokenReceivers' /\ Has(w) = mb.entry
    BY <1>2 DEF Loop, WokenOn, Has
  <2>2. \A t \in On(k, w) : pc[t] \in Loop(w) /\ k.err[t] = "EOK"
    BY <1>1, <1>2, <2>1, MailFacts DEF Waits
  <2> QED BY <1>1, <1>2, <2>1, <2>2, WokenAre, WokenAreNext, Enough
<1>3. CASE w = Senders
  <2>1. /\ Loop(w) = SendPc /\ WokenOn(w) = WokenSenders /\ WokenOn(w)' = WokenSenders'
        /\ Has(w) = Size - mb.entry
    BY <1>1, <1>3 DEF Loop, WokenOn, Has
  <2>2. \A t \in On(k, w) : pc[t] \in Loop(w) /\ k.err[t] = "EOK"
    BY <1>1, <1>3, <2>1, MailFacts DEF Waits
  <2> QED BY <1>1, <1>3, <2>1, <2>2, WokenAre, WokenAreNext, Enough
<1> QED BY <1>2, <1>3

\* One more of what those on w wait for, one less for the others: the first
\* of w is woken.  T is the caller, if a thread calls; it waits no more.
LEMMA AfterWake ==
  ASSUME MailInv, NEW w \in {Receivers, Senders}, NEW v \in {Receivers, Senders}, w # v,
         NEW M, M = Firsts(k, w), Settled(k'), Same(k, k', M),
         \A u \in M : k'.stat[u] = "READY" /\ k'.err[u] = k.err[u] /\ OnNone(k', u),
         NEW T \in SUBSET Thread, NEW a, T \subseteq {a},
         \A u \in T : /\ k.stat[u] = "READY" /\ pc[u] \notin Loop(w)
                      /\ pc'[u] \notin RecvPc \cup SendPc,
         \A u \in Thread \ T : pc'[u] = pc[u] /\ value'[u] = value[u],
         Has(w)' = Has(w) + 1, Has(v)' = Has(v) - 1
  PROVE  Waits' /\ NoStrandedThread'
<1>1. /\ Receivers \in WaitList /\ Senders \in WaitList /\ Receivers # Senders
      /\ w \in WaitList /\ v \in WaitList /\ Settled(k)
  BY MailFacts
<1>2. M \subseteq On(k, w) /\ (M = {} <=> On(k, w) = {}) /\ \E h : M \subseteq {h} BY <1>1, FirstOK
<1>3. On(k, w) \subseteq Thread /\ On(k, v) \subseteq Thread BY MailFacts
<1>4. On(k', w) \subseteq Thread /\ On(k', v) \subseteq Thread BY <1>1, SettledFields
<1>5. \A u \in M : /\ u \in Thread /\ k.stat[u] = "SUSPEND" /\ u \notin On(k, v)
                   /\ pc[u] \in Loop(w) /\ k.err[u] = "EOK"
  <2>1. \A u \in On(k, w) : k.stat[u] = "SUSPEND" /\ OnlyOn(k, u, w) BY MailFacts
  <2>2. \A u \in On(k, w) : pc[u] \in Loop(w) /\ k.err[u] = "EOK" BY BothLists
  <2> QED BY <1>1, <1>2, <1>3, <2>1, <2>2 DEF OnlyOn
<1>6. M \cap T = {} BY <1>5
<1>7. \A u \in M : u \notin On(k', w) /\ u \notin On(k', v) BY <1>1 DEF OnNone
<1>8. \A u \in Thread \ M : /\ u \in On(k', w) <=> u \in On(k, w)
                            /\ u \in On(k', v) <=> u \in On(k, v)
                            /\ k'.err[u] = k.err[u] /\ k'.stat[u] = k.stat[u]
  BY <1>1 DEF Same
<1>9. On(k', w) = On(k, w) \ M /\ On(k', v) = On(k, v) BY <1>2, <1>3, <1>4, <1>5, <1>7, <1>8
<1>10. {w, v} = {Receivers, Senders} BY <1>1
<1>11. Waits'
  <2>1. On(k', Receivers) \subseteq On(k, Receivers) /\ On(k', Senders) \subseteq On(k, Senders)
    BY <1>9, <1>10
  <2>2. \A u \in T : u \notin On(k, Receivers) /\ u \notin On(k, Senders) /\ u \notin M
    BY <1>1, <1>6, ReadyOnNone DEF OnNone
  <2>3. \A u \in Thread : k'.stat[u] = "SUSPEND" => u \in On(k', Receivers) \cup On(k', Senders)
    <3> TAKE u \in Thread
    <3>1. u \notin M => (k'.stat[u] = "SUSPEND" => u \in On(k, w) \cup On(k, v))
      BY <1>8, <1>10, MailFacts DEF Waits
    <3> QED BY <1>9, <1>10, <3>1
  <2>4. \A u \in Thread : /\ u \in On(k', Receivers) => pc'[u] \in RecvPc /\ k'.err[u] = "EOK"
                          /\ u \in On(k', Senders) => pc'[u] \in SendPc /\ k'.err[u] = "EOK"
                          /\ pc'[u] \in SendPc => value'[u] \in Word
    <3> TAKE u \in Thread
    <3>1. CASE u \in T BY <2>1, <2>2, <3>1
    <3>2. CASE u \notin T
      <4>1. pc'[u] = pc[u] /\ value'[u] = value[u] /\ k'.err[u] = k.err[u] BY <1>8, <3>2
      <4> QED BY <2>1, <4>1, MailFacts DEF Waits
    <3> QED BY <3>1, <3>2
  <2>5. pc'[Idle] \notin RecvPc \cup SendPc BY MailFacts, ThreadAssumption DEF Waits
  <2> QED BY <2>3, <2>4, <2>5 DEF Waits
<1> DEFINE W == WokenOn(w)
           V == WokenOn(v)
<1>12. \A u : /\ u \in W <=> u \in Thread /\ pc[u] \in Loop(w) /\ u \notin On(k, w) /\ k.err[u] = "EOK"
              /\ u \in V <=> u \in Thread /\ pc[u] \in Loop(v) /\ u \notin On(k, v) /\ k.err[u] = "EOK"
              /\ u \in W' <=> u \in Thread /\ pc'[u] \in Loop(w) /\ u \notin On(k', w) /\ k'.err[u] = "EOK"
              /\ u \in V' <=> u \in Thread /\ pc'[u] \in Loop(v) /\ u \notin On(k', v) /\ k'.err[u] = "EOK"
  BY BothLists
<1>13. Loop(w) \subseteq RecvPc \cup SendPc BY DEF Loop
<1>14. W' = W \cup M /\ M \cap W = {}
  <2>1. \A u \in M : u \in W' /\ u \notin W BY <1>2, <1>5, <1>6, <1>7, <1>12
  <2>2. \A u \in T : u \notin W' /\ u \notin W BY <1>12, <1>13
  <2>3. \A u \in Thread \ (M \cup T) : u \in W' <=> u \in W BY <1>8, <1>12
  <2> QED BY <2>1, <2>2, <2>3, <1>12
<1>15. V \ {a} \subseteq V'
  <2>1. \A u \in M : u \notin V
    <3>1. RecvPc \cap SendPc = {} BY DEF RecvPc, SendPc
    <3>2. Loop(v) \cap Loop(w) = {} BY <1>1, <3>1 DEF Loop
    <3> QED BY <1>5, <1>12, <3>2
  <2>2. \A u \in V : u \in Thread BY <1>12
  <2>3. \A u \in Thread \ (M \cup T) : u \in V' <=> u \in V BY <1>8, <1>12
  <2> SUFFICES ASSUME NEW u \in V, u # a PROVE u \in V' OBVIOUS
  <2>4. u \in Thread \ (M \cup T) BY <2>1, <2>2
  <2> QED BY <2>3, <2>4
<1>16. W \in SUBSET Thread /\ V \in SUBSET Thread /\ W' \in SUBSET Thread /\ V' \in SUBSET Thread
  BY <1>12
<1>17. /\ Has(w) \in Nat /\ (On(k, w) # {} => Has(w) <= Cardinality(W))
       /\ Has(v) \in Nat /\ (On(k, v) # {} => Has(v) <= Cardinality(V))
  BY BothLists
<1>18. On(k', w) # {} => Has(w)' <= Cardinality(W')
  <2>1. SUFFICES ASSUME On(k', w) # {} PROVE Has(w) + 1 <= Cardinality(W') OBVIOUS
  <2>2. PICK h : M = {h}
    <3>1. M # {} BY <1>2, <1>9, <2>1
    <3>2. PICK g : M \subseteq {g} BY <1>2
    <3> QED BY <3>1, <3>2
  <2>3. h \in Thread \ W /\ W' = W \cup {h} BY <1>5, <1>14, <2>2
  <2>4. Has(w) <= Cardinality(W) BY <1>9, <1>17, <2>1
  <2> HIDE DEF W
  <2> QED BY <1>16, <1>17, <2>3, <2>4, IpcAssumption, WokenCount
<1>19. On(k', v) # {} => Has(v)' <= Cardinality(V')
  <2>1. SUFFICES ASSUME On(k', v) # {} PROVE Has(v) - 1 <= Cardinality(V') OBVIOUS
  <2>2. Has(v) <= Cardinality(V) BY <1>9, <1>17, <2>1
  <2> HIDE DEF V
  <2> QED BY <1>15, <1>16, <1>17, <2>2, IpcAssumption, WokenCount
<1>20. NoStrandedThread'
  <2>1. \A x \in {Receivers, Senders} : On(k', x) # {} => Has(x)' <= Cardinality(WokenOn(x)')
    BY <1>10, <1>18, <1>19
  <2>2. /\ Has(Receivers)' = mb'.entry /\ Has(Senders)' = Size - mb'.entry
        /\ WokenOn(Receivers)' = WokenReceivers' /\ WokenOn(Senders)' = WokenSenders'
    BY <1>1 DEF Has, WokenOn
  <2>3. /\ On(k', Receivers) # {} => Has(Receivers)' <= Cardinality(WokenOn(Receivers)')
        /\ On(k', Senders) # {} => Has(Senders)' <= Cardinality(WokenOn(Senders)')
    BY <2>1
  <2> QED BY <2>2, <2>3, EnoughNext
<1> QED BY <1>11, <1>20

-----------------------------------------------------------------------------
(* Each step keeps the invariant and is one of the queue.                  *)

Refines == Abstract!Next \/ UNCHANGED Abstract!vars

LEMMA AbstractSteps ==
  ASSUME got' \in Word \cup {NoWord}
  PROVE  /\ \A v \in Word : Content' = Append(Content, v) /\ Len(Content) < Size /\ Quiet => Refines
         /\ Content # <<>> /\ Content' = Tail(Content) /\ got' = Head(Content) => Refines
         /\ Content' = <<>> /\ Quiet => Refines
         /\ Content' = Content /\ Quiet => Refines
<1> DEFINE held == [r \in {"caller"} |-> got]
           heldNext == [r \in {"caller"} |-> got']
<1>1. held' = heldNext OBVIOUS
<1>2. heldNext \in [{"caller"} -> Word \cup {NoWord}] OBVIOUS
<1>3. got' = NoWord => Abstract!Others({"caller"})
  BY <1>1, <1>2 DEF Abstract!Others, Abstract!KeepOrDrop
<1>4. Abstract!Others({"caller"} \ {"caller"}) /\ heldNext["caller"] = got'
  BY <1>2 DEF Abstract!Others, Abstract!KeepOrDrop
<1>5. ASSUME NEW v \in Word, Content' = Append(Content, v), Len(Content) < Size, Quiet
      PROVE  Refines
  <2>1. Abstract!PutAtOnce(v) BY <1>3, <1>5 DEF Abstract!PutAtOnce, Quiet
  <2> QED BY <2>1 DEF Refines, Abstract!Next
<1>6. ASSUME Content # <<>>, Content' = Tail(Content), got' = Head(Content) PROVE Refines
  <2>1. Abstract!Get("caller") BY <1>4, <1>6 DEF Abstract!Get
  <2> QED BY <2>1 DEF Refines, Abstract!Next
<1>7. ASSUME Content' = <<>>, Quiet PROVE Refines
  <2>1. Abstract!Clear BY <1>3, <1>7 DEF Abstract!Clear, Quiet
  <2> QED BY <2>1 DEF Refines, Abstract!Next
<1>8. ASSUME Content' = Content, Quiet PROVE Refines
  <2>1. Abstract!Done BY <1>3, <1>8 DEF Abstract!Done, Quiet
  <2> QED BY <2>1 DEF Refines, Abstract!Next
<1> QED BY <1>5, <1>6, <1>7, <1>8

\* The ring and the received word are left alone.
LEMMA RingKept ==
  ASSUME MailInv, mb' = mb, Quiet
  PROVE  Refines /\ mb' \in MailRing /\ Ring' /\ got' \in Word \cup {NoWord}
<1>1. got' \in Word \cup {NoWord} BY DEF Quiet
<1>2. Content' = Content BY DEF Content
<1> QED BY <1>1, <1>2, AbstractSteps, MailFacts DEF Ring

\* Deletion goes on as before, or is not under way.
LEMMA KeepClosing ==
  ASSUME MailInv, UNCHANGED alive,
         On(k', Receivers) \subseteq On(k, Receivers), On(k', Senders) \subseteq On(k, Senders),
         WokenReceivers' \subseteq WokenReceivers, WokenSenders' \subseteq WokenSenders,
         \A u \in Thread : pc'[u] \in ClosePc => pc'[u] = pc[u]
  PROVE  Closing'
<1>1. Closing BY DEF MailInv
<1>2. /\ On(k, Receivers) = {} => On(k', Receivers) = {}
      /\ On(k, Senders) = {} => On(k', Senders) = {}
      /\ WokenReceivers = {} => WokenReceivers' = {}
      /\ WokenSenders = {} => WokenSenders' = {}
  OBVIOUS
<1> QED BY <1>1, <1>2 DEF Closing

LEMMA OpenClosing ==
  ASSUME MailInv, alive = "alive", UNCHANGED alive,
         \A u \in Thread : pc'[u] \in ClosePc => pc[u] \in ClosePc
  PROVE  Closing'
<1>1. \A u \in Thread : pc[u] \notin ClosePc BY DEF MailInv, Closing
<1> QED BY <1>1 DEF Closing

\* The parts put together.
LEMMA Together ==
  ASSUME MailInv, Settled(k'), isr' \in {"none", "timer"}, isr' = "timer" => k'.timers # <<>>,
         timeout' \in [Thread -> Timeout], pc' \in [Thread -> Label],
         mb' \in MailRing, alive' \in {"alive", "dying", "gone"},
         value' \in [Thread -> Word \cup {NoWord}], got' \in Word \cup {NoWord},
         Runner', Waits', Ring', NoStrandedThread', Closing'
  PROVE  MailInv'
<1>1. k' \in KernelState BY DEF Settled, Resting, KernelOK
<1>2. TypeOK' BY <1>1 DEF TypeOK, IpcTypeOK, MailRing
<1> QED BY <1>2 DEF MailInv

LEMMA ScheduleTo ==
  ASSUME MailInv, NEW t \in Thread, NEW from \in Label, NEW to \in Label \ ClosePc,
         from \in RecvPc <=> to \in RecvPc, from \in SendPc <=> to \in SendPc,
         IpcSchedule(t, from, to), Quiet, UNCHANGED <<mb, alive, value>>
  PROVE  MailInv' /\ Refines
<1> USE DEF IpcSchedule, ScheduleStep, Running
<1>1. Settled(k') /\ Same(k, k', {}) /\ Serves(k') /\ k'.timers = k.timers
  BY MailFacts, ScheduleOK
<1>2. pc' \in [Thread -> Label] /\ \A u \in Thread : pc'[u] = IF u = t THEN to ELSE pc[u]
  BY MoveTo
<1>3. \A u \in Thread : /\ pc'[u] \in RecvPc <=> pc[u] \in RecvPc
                        /\ pc'[u] \in SendPc <=> pc[u] \in SendPc
  BY <1>2
<1>4. /\ Waits' /\ WokenReceivers' = WokenReceivers /\ WokenSenders' = WokenSenders
      /\ On(k', Receivers) \subseteq On(k, Receivers) /\ On(k', Senders) \subseteq On(k, Senders)
  BY <1>1, <1>3, AfterFailure
<1>5. NoStrandedThread' BY <1>1, <1>4, StillEnough
<1>6. Closing' BY <1>2, <1>4, KeepClosing
<1>7. Runner' BY <1>1 DEF Runner, Serves
<1> QED BY <1>1, <1>2, <1>4, <1>5, <1>6, <1>7, RingKept, Together, MailFacts DEF MailInv

LEMMA TickStep ==
  ASSUME MailInv, Tick
  PROVE  MailInv' /\ Refines
<1> USE DEF Tick, IpcTick, rt_tick_increase
<1>1. /\ Settled(k') /\ Same(k, k', {}) /\ (k'.cur = k.cur \/ Serves(k'))
  BY MailFacts, TickOK DEF MailInv, Runner
<1>2. /\ Waits' /\ WokenReceivers' = WokenReceivers /\ WokenSenders' = WokenSenders
      /\ On(k', Receivers) \subseteq On(k, Receivers) /\ On(k', Senders) \subseteq On(k, Senders)
  BY <1>1, AfterFailure
<1>3. NoStrandedThread' BY <1>1, <1>2, StillEnough
<1>4. Closing' BY <1>2, KeepClosing
<1>5. Runner' BY <1>1 DEF MailInv, Runner, Serves, Same
<1>6. isr' \in {"none", "timer"} /\ (isr' = "timer" => k'.timers # <<>>)
  BY DEF IsrAfter, TimerExpired
<1>7. timeout' \in [Thread -> Timeout]
  BY MailFacts, BoundAssumption DEF Elapsed, Timeout, Forever
<1> QED BY <1>1, <1>2, <1>3, <1>4, <1>5, <1>6, <1>7, RingKept, Together, MailFacts

LEMMA TimerCheckStep ==
  ASSUME MailInv, TimerCheck
  PROVE  MailInv' /\ Refines
<1> USE DEF TimerCheck, IpcTimerCheck, rt_timer_check
<1> DEFINE h == Head(k.timers)
<1>1. /\ h \in Thread /\ k.stat[h] = "SUSPEND"
      /\ Settled(k') /\ Same(k, k', {h}) /\ Serves(k')
      /\ k'.stat[h] = "READY" /\ k'.err[h] = "ETIMEOUT" /\ OnNone(k', h)
  BY MailFacts, FireOK DEF MailInv
<1> HIDE DEF h
<1>2. /\ Waits' /\ WokenReceivers' = WokenReceivers /\ WokenSenders' = WokenSenders
      /\ On(k', Receivers) \subseteq On(k, Receivers) /\ On(k', Senders) \subseteq On(k, Senders)
  <2> DEFINE M == {h}
  <2>1. M \in SUBSET Thread /\ Same(k, k', M) BY <1>1
  <2>2. \A u \in M : /\ k.stat[u] = "SUSPEND" /\ k'.stat[u] = "READY"
                     /\ k'.err[u] # "EOK" /\ OnNone(k', u)
    BY <1>1
  <2> HIDE DEF M
  <2> QED BY <1>1, <2>1, <2>2, AfterFailure
<1>3. NoStrandedThread' BY <1>1, <1>2, StillEnough
<1>4. Closing' BY <1>2, KeepClosing
<1>5. Runner' BY <1>1 DEF Runner, Serves
<1>6. isr' \in {"none", "timer"} /\ (isr' = "timer" => k'.timers # <<>>)
  BY DEF IsrAfter, TimerExpired
<1> QED BY <1>1, <1>2, <1>3, <1>4, <1>5, <1>6, RingKept, Together, MailFacts

LEMMA Blocked ==
  ASSUME MailInv, NEW t \in Thread, t # Idle, k.stat[t] = "READY",
         NEW w \in {Receivers, Senders}, NEW time \in Timeout, k' = BlockOn(k, w, t, Flag, time)
  PROVE  /\ Settled(k') /\ Same(k, k', {t}) /\ k'.cur = k.cur
         /\ k'.stat[t] = "SUSPEND" /\ k'.err[t] = "EOK" /\ OnlyOn(k', t, w)
<1>1. t \in Thread \ {Idle} /\ w \in WaitList /\ Settled(k) BY MailFacts
<1> QED BY <1>1, BlockOK

\* The loop of rt_mb_send_wait: sent, full without time left, or asleep.
LEMMA SendBodyStep ==
  ASSUME MailInv, NEW t \in Thread, k.cur = t, k.stat[t] = "READY", isr = "none",
         NEW v \in Word, NEW time \in Timeout, time # 0 => t # Idle, alive = "alive",
         pc[t] \in {"run", "send_back"}, SendBody(t, v, time), Quiet, UNCHANGED <<isr, alive>>
  PROVE  MailInv' /\ Refines
<1>1. 0 \in Timeout BY BoundAssumption DEF Timeout
<1>2. timeout' \in [Thread -> Timeout] BY <1>1, MailFacts DEF SendBody, WaitsFor, Return
<1>3. /\ value' \in [Thread -> Word \cup {NoWord}]
      /\ \A u \in Thread \ {t} : value'[u] = value[u]
  BY MailFacts DEF SendBody
<1>4. got' \in Word \cup {NoWord} BY DEF Quiet
<1>5. /\ pc[t] \notin RecvPc /\ {"run", "sched", "send_sched"} \subseteq Label
      /\ {"run", "sched", "send_sched"} \cap ClosePc = {}
      /\ {"run", "sched"} \cap (RecvPc \cup SendPc) = {} /\ "send_sched" \in SendPc
  BY DEF RecvPc, SendPc, ClosePc, Label
<1>6. PICK l \in {"run", "sched", "send_sched"} : Goto(t, l) BY DEF SendBody, Return
<1>7. pc' \in [Thread -> Label] /\ \A u \in Thread : pc'[u] = IF u = t THEN l ELSE pc[u]
  BY <1>5, <1>6, MoveTo
<1>8. Closing' BY <1>5, <1>7, OpenClosing
<1>9. CASE ~Full
  <2> DEFINE M == Firsts(k, Receivers)
             T == {t}
  <2>1. /\ mb' = Store(v) /\ k' = ResumeFirst(k, Receivers) /\ l \in {"run", "sched"}
    BY <1>5, <1>6, <1>7, <1>9, MoveTo DEF SendBody
  <2>2. /\ M \subseteq On(k, Receivers) /\ Settled(k') /\ Same(k, k', M)
        /\ k'.cur = k.cur /\ k'.err = k.err
        /\ \A u \in M : k'.stat[u] = "READY" /\ OnNone(k', u)
    BY <2>1, FirstOK, MailFacts
  <2>3. t \notin M BY <2>2, MailFacts
  <2>4. /\ mb' \in MailRing /\ Ring' /\ mb'.entry = mb.entry + 1 /\ mb.entry \in 0..Size /\ Size \in Nat
        /\ Len(Content) < Size /\ Content' = Append(Content, v)
    BY <1>9, <2>1, StoreOK, MailFacts
  <2>5. Refines BY <1>4, <2>4, AbstractSteps
  <2>6. Has(Receivers)' = Has(Receivers) + 1 /\ Has(Senders)' = Has(Senders) - 1
    BY <2>4, MailFacts DEF Has
  <2>7. Waits' /\ NoStrandedThread'
    <3>1. T \in SUBSET Thread /\ T \subseteq {t} OBVIOUS
    <3>2. \A u \in T : /\ k.stat[u] = "READY" /\ pc[u] \notin Loop(Receivers)
                       /\ pc'[u] \notin RecvPc \cup SendPc
      BY <1>5, <1>7, <2>1 DEF Loop
    <3>3. \A u \in Thread \ T : pc'[u] = pc[u] /\ value'[u] = value[u] BY <1>3, <1>7
    <3>4. \A u \in M : k'.stat[u] = "READY" /\ k'.err[u] = k.err[u] /\ OnNone(k', u) BY <2>2
    <3> HIDE DEF T
    <3> QED BY <2>2, <2>6, <3>1, <3>2, <3>3, <3>4, AfterWake, MailFacts
  <2>8. Runner' BY <2>2, <2>3 DEF Runner, Same
  <2> QED BY <1>2, <1>3, <1>4, <1>7, <1>8, <2>2, <2>4, <2>5, <2>7, <2>8, Together, MailFacts
<1>10. CASE Full /\ time = 0
  <2>1. Return(t) /\ mb' = mb BY <1>10 DEF SendBody
  <2>2. t \notin WokenReceivers BY <1>5, WokenAre
  <2>3. /\ Settled(k') /\ k'.stat = k.stat /\ k'.cur = k.cur /\ Waits' /\ NoStrandedThread'
    BY <1>3, <1>10, <2>1, <2>2, AfterReturn
  <2>4. Runner' BY <2>3 DEF Runner
  <2> QED BY <1>2, <1>3, <1>4, <1>7, <1>8, <2>1, <2>3, <2>4, RingKept, Together, MailFacts
<1>11. CASE Full /\ time # 0
  <2>1. /\ k' = BlockOn(k, Senders, t, Flag, time) /\ mb' = mb /\ l = "send_sched"
        /\ value'[t] = v
    BY <1>5, <1>6, <1>7, <1>11, MoveTo, MailFacts DEF SendBody
  <2>2. /\ Settled(k') /\ Same(k, k', {t}) /\ k'.cur = k.cur
        /\ k'.stat[t] = "SUSPEND" /\ k'.err[t] = "EOK" /\ OnlyOn(k', t, Senders)
    BY <1>11, <2>1, Blocked
  <2>3. \A u \in Thread \ {t} : pc'[u] = pc[u] BY <1>7
  <2>4. pc'[t] = "send_sched" BY <1>7, <2>1
  <2>5. Waits' /\ NoStrandedThread'
    BY <1>3, <1>5, <1>11, <2>1, <2>2, <2>3, <2>4, AfterSleep
  <2>6. Runner' BY <2>2, <2>4 DEF Runner
  <2> QED BY <1>2, <1>3, <1>4, <1>7, <1>8, <2>1, <2>2, <2>5, <2>6, RingKept, Together, MailFacts
<1> QED BY <1>9, <1>10, <1>11

\* The loop of rt_mb_recv: received, empty without time left, or asleep.
LEMMA RecvBodyStep ==
  ASSUME MailInv, NEW t \in Thread, k.cur = t, k.stat[t] = "READY", isr = "none",
         NEW time \in Timeout, time # 0 => t # Idle, alive = "alive",
         pc[t] \in {"run", "recv_back"}, RecvBody(t, time), UNCHANGED <<isr, alive, value>>
  PROVE  MailInv' /\ Refines
<1>1. 0 \in Timeout BY BoundAssumption DEF Timeout
<1>2. timeout' \in [Thread -> Timeout] BY <1>1, MailFacts DEF RecvBody, WaitsFor, Return
<1>3. value' \in [Thread -> Word \cup {NoWord}] /\ \A u \in Thread \ {t} : value'[u] = value[u]
  BY MailFacts
<1>5. /\ pc[t] \notin SendPc /\ {"run", "sched", "recv_sched"} \subseteq Label
      /\ {"run", "sched", "recv_sched"} \cap ClosePc = {}
      /\ {"run", "sched"} \cap (RecvPc \cup SendPc) = {} /\ "recv_sched" \in RecvPc
  BY DEF RecvPc, SendPc, ClosePc, Label
<1>6. PICK l \in {"run", "sched", "recv_sched"} : Goto(t, l) BY DEF RecvBody, Return
<1>7. pc' \in [Thread -> Label] /\ \A u \in Thread : pc'[u] = IF u = t THEN l ELSE pc[u]
  BY <1>5, <1>6, MoveTo
<1>8. Closing' BY <1>5, <1>7, OpenClosing
<1>9. CASE ~Empty
  <2> DEFINE M == Firsts(k, Senders)
             T == {t}
  <2>1. /\ mb' = Fetched /\ k' = ResumeFirst(k, Senders) /\ l \in {"run", "sched"}
        /\ got' = mb.msg_pool[mb.out_offset]
    BY <1>5, <1>6, <1>7, <1>9, MoveTo DEF RecvBody, WakeSender
  <2>2. /\ M \subseteq On(k, Senders) /\ Settled(k') /\ Same(k, k', M)
        /\ k'.cur = k.cur /\ k'.err = k.err
        /\ \A u \in M : k'.stat[u] = "READY" /\ OnNone(k', u)
    BY <2>1, FirstOK, MailFacts
  <2>3. t \notin M BY <2>2, MailFacts
  <2>4. /\ mb' \in MailRing /\ Ring' /\ mb'.entry = mb.entry - 1 /\ mb.entry \in 0..Size /\ Size \in Nat
        /\ Content # <<>> /\ Content' = Tail(Content) /\ got' = Head(Content) /\ got' \in Word
    BY <1>9, <2>1, FetchOK, MailFacts
  <2>5. Refines BY <2>4, AbstractSteps
  <2>6. Has(Receivers)' = Has(Receivers) - 1 /\ Has(Senders)' = Has(Senders) + 1
    BY <2>4, MailFacts DEF Has
  <2>7. Waits' /\ NoStrandedThread'
    <3>1. T \in SUBSET Thread /\ T \subseteq {t} OBVIOUS
    <3>2. \A u \in T : /\ k.stat[u] = "READY" /\ pc[u] \notin Loop(Senders)
                       /\ pc'[u] \notin RecvPc \cup SendPc
      BY <1>5, <1>7, <2>1, MailFacts DEF Loop
    <3>3. \A u \in Thread \ T : pc'[u] = pc[u] /\ value'[u] = value[u] BY <1>3, <1>7
    <3>4. \A u \in M : k'.stat[u] = "READY" /\ k'.err[u] = k.err[u] /\ OnNone(k', u) BY <2>2
    <3> HIDE DEF T
    <3> QED BY <2>2, <2>6, <3>1, <3>2, <3>3, <3>4, AfterWake, MailFacts
  <2>8. Runner' BY <2>2, <2>3 DEF Runner, Same
  <2> QED BY <1>2, <1>3, <1>7, <1>8, <2>2, <2>4, <2>5, <2>7, <2>8, Together, MailFacts
<1>10. CASE Empty /\ time = 0
  <2>1. Return(t) /\ mb' = mb /\ Quiet BY <1>10 DEF RecvBody
  <2>2. t \notin WokenSenders BY <1>5, WokenAre
  <2>3. /\ Settled(k') /\ k'.stat = k.stat /\ k'.cur = k.cur /\ Waits' /\ NoStrandedThread'
    BY <1>3, <1>10, <2>1, <2>2, AfterReturn
  <2>4. Runner' BY <2>3 DEF Runner
  <2> QED BY <1>2, <1>3, <1>7, <1>8, <2>1, <2>3, <2>4, RingKept, Together, MailFacts
<1>11. CASE Empty /\ time # 0
  <2>1. /\ k' = BlockOn(k, Receivers, t, Flag, time) /\ mb' = mb /\ l = "recv_sched" /\ Quiet
    BY <1>5, <1>6, <1>7, <1>11, MoveTo DEF RecvBody
  <2>2. /\ Settled(k') /\ Same(k, k', {t}) /\ k'.cur = k.cur
        /\ k'.stat[t] = "SUSPEND" /\ k'.err[t] = "EOK" /\ OnlyOn(k', t, Receivers)
    BY <1>11, <2>1, Blocked
  <2>3. \A u \in Thread \ {t} : pc'[u] = pc[u] BY <1>7
  <2>4. pc'[t] = "recv_sched" BY <1>7, <2>1
  <2>5. Waits' /\ NoStrandedThread'
    BY <1>3, <1>5, <1>11, <2>1, <2>2, <2>3, <2>4, AfterSleep
  <2>6. Runner' BY <2>2, <2>4 DEF Runner
  <2> QED BY <1>2, <1>3, <1>7, <1>8, <2>1, <2>2, <2>5, <2>6, RingKept, Together, MailFacts
<1> QED BY <1>9, <1>10, <1>11

\* A call that slept and failed.
LEMMA FailedBack ==
  ASSUME MailInv, NEW t \in Thread, k.cur = t, k.stat[t] = "READY", isr = "none",
         k.err[t] # "EOK", Return(t), Quiet, UNCHANGED <<isr, mb, alive>>,
         value' \in [Thread -> Word \cup {NoWord}], \A u \in Thread \ {t} : value'[u] = value[u]
  PROVE  MailInv' /\ Refines
<1>1. t \notin WokenReceivers /\ t \notin WokenSenders BY WokenAre
<1>2. /\ Settled(k') /\ k'.stat = k.stat /\ k'.cur = k.cur /\ Waits' /\ NoStrandedThread'
      /\ pc' = [pc EXCEPT ![t] = "run"]
      /\ On(k', Receivers) = On(k, Receivers) /\ On(k', Senders) = On(k, Senders)
      /\ WokenReceivers' \subseteq WokenReceivers /\ WokenSenders' \subseteq WokenSenders
  BY <1>1, AfterReturn
<1>3. pc' \in [Thread -> Label] /\ \A u \in Thread : pc'[u] = IF u = t THEN "run" ELSE pc[u]
  BY <1>2, MailFacts DEF Label
<1>4. Closing'
  <2>1. \A u \in Thread : pc'[u] \in ClosePc => pc'[u] = pc[u] BY <1>3 DEF ClosePc
  <2> QED BY <1>2, <2>1, KeepClosing
<1>5. Runner' BY <1>2 DEF Runner
<1>6. timeout' \in [Thread -> Timeout]
  BY MailFacts, BoundAssumption DEF Return, WaitsFor, Timeout
<1> QED BY <1>2, <1>3, <1>4, <1>5, <1>6, RingKept, Together, MailFacts

\* A thread that runs is ready, and a thread in the loop is not the idle one.
LEMMA OnProcessor ==
  ASSUME MailInv, NEW t \in Thread, NEW l, Running(t, l), l \notin {"send_sched", "recv_sched"}
  PROVE  /\ isr = "none" /\ k.cur = t /\ pc[t] = l /\ k.stat[t] = "READY"
         /\ l \in RecvPc \cup SendPc => t # Idle
  BY MailFacts DEF Running, MailInv, Runner, Waits

LEMMA SendWaitStep ==
  ASSUME MailInv, NEW t \in Thread, NEW v \in Sends[t], NEW time \in Timeout, SendWait(t, v, time)
  PROVE  MailInv' /\ Refines
<1> USE DEF SendWait
<1>1. isr = "none" /\ k.cur = t /\ pc[t] = "run" /\ k.stat[t] = "READY" BY OnProcessor DEF Calls
<1>2. v \in Word BY MailboxAssumption
<1>3. time # 0 => t # Idle BY MailboxAssumption DEF Calls
<1> QED BY <1>1, <1>2, <1>3, SendBodyStep

LEMMA RecvStep ==
  ASSUME MailInv, NEW t \in Thread, NEW time \in Timeout, Recv(t, time)
  PROVE  MailInv' /\ Refines
<1> USE DEF Recv
<1>1. isr = "none" /\ k.cur = t /\ pc[t] = "run" /\ k.stat[t] = "READY" BY OnProcessor DEF Calls
<1>2. time # 0 => t # Idle BY MailboxAssumption DEF Calls
<1> QED BY <1>1, <1>2, RecvBodyStep

LEMMA SendBackStep ==
  ASSUME MailInv, NEW t \in Thread, SendBack(t)
  PROVE  MailInv' /\ Refines
<1> USE DEF SendBack
<1>1. isr = "none" /\ k.cur = t /\ pc[t] = "send_back" /\ k.stat[t] = "READY" /\ t # Idle
  BY OnProcessor DEF SendPc
<1>2. CASE k.err[t] = "EOK"
  <2>1. value[t] \in Word /\ timeout[t] \in Timeout BY <1>1, MailFacts DEF Waits, SendPc
  <2>2. alive = "alive"
    <3>1. t \notin On(k, Senders) BY <1>1, MailFacts
    <3>2. t \in WokenSenders BY <1>1, <1>2, <3>1, WokenAre DEF SendPc
    <3> QED BY <3>2 DEF MailInv, Closing
  <2> QED BY <1>1, <1>2, <2>1, <2>2, SendBodyStep
<1>3. CASE k.err[t] # "EOK"
  <2>1. value' \in [Thread -> Word \cup {NoWord}] /\ \A u \in Thread \ {t} : value'[u] = value[u]
    BY <1>3, MailFacts
  <2> QED BY <1>1, <1>3, <2>1, FailedBack
<1> QED BY <1>2, <1>3

LEMMA RecvBackStep ==
  ASSUME MailInv, NEW t \in Thread, RecvBack(t)
  PROVE  MailInv' /\ Refines
<1> USE DEF RecvBack
<1>1. isr = "none" /\ k.cur = t /\ pc[t] = "recv_back" /\ k.stat[t] = "READY" /\ t # Idle
  BY OnProcessor DEF RecvPc
<1>2. CASE k.err[t] = "EOK"
  <2>1. timeout[t] \in Timeout BY MailFacts
  <2>2. alive = "alive"
    <3>1. t \notin On(k, Receivers) BY <1>1, MailFacts
    <3>2. t \in WokenReceivers BY <1>1, <1>2, <3>1, WokenAre DEF RecvPc
    <3> QED BY <3>2 DEF MailInv, Closing
  <2> QED BY <1>1, <1>2, <2>1, <2>2, RecvBodyStep
<1>3. CASE k.err[t] # "EOK" BY <1>1, <1>3, FailedBack, MailFacts
<1> QED BY <1>2, <1>3

\* A handler sends or receives, and goes on to rt_schedule if it has woken.
LEMMA IsrStep ==
  ASSUME MailInv, NEW w \in {Receivers, Senders}, NEW v \in {Receivers, Senders}, w # v,
         k' = IF k.list[w] # <<>> THEN rt_schedule(ResumeFirst(k, w)) ELSE k,
         Has(w)' = Has(w) + 1, Has(v)' = Has(v) - 1, isr = "none", alive = "alive",
         UNCHANGED <<isr, pc, timeout, alive, value>>, mb' \in MailRing, Ring',
         got' \in Word \cup {NoWord}
  PROVE  MailInv'
<1> DEFINE M == Firsts(k, w)
<1>1. /\ Settled(k') /\ Same(k, k', M) /\ (k' = k \/ Serves(k'))
      /\ \A u \in M : k'.stat[u] = "READY" /\ k'.err[u] = k.err[u] /\ OnNone(k', u)
  BY FirstThenSchedule, MailFacts
<1>2. Waits' /\ NoStrandedThread'
  <2> DEFINE T == {}
  <2>1. /\ T \in SUBSET Thread /\ T \subseteq {Idle}
        /\ \A u \in T : /\ k.stat[u] = "READY" /\ pc[u] \notin Loop(w)
                        /\ pc'[u] \notin RecvPc \cup SendPc
        /\ \A u \in Thread \ T : pc'[u] = pc[u] /\ value'[u] = value[u]
    OBVIOUS
  <2> HIDE DEF T
  <2> QED BY <1>1, <2>1, AfterWake, ZenonT(60)
<1>3. Closing' BY OpenClosing
<1>4. Runner' BY <1>1 DEF MailInv, Runner, Serves
<1> QED BY <1>1, <1>2, <1>3, <1>4, Together, MailFacts

LEMMA IsrSendStep ==
  ASSUME MailInv, NEW v \in Word, IsrSend(v)
  PROVE  MailInv' /\ Refines
<1> USE DEF IsrSend
<1>1. /\ mb' \in MailRing /\ Ring' /\ mb'.entry = mb.entry + 1 /\ mb.entry \in 0..Size /\ Size \in Nat
      /\ Len(Content) < Size /\ Content' = Append(Content, v)
  BY StoreOK, MailFacts
<1>2. Has(Receivers)' = Has(Receivers) + 1 /\ Has(Senders)' = Has(Senders) - 1
  BY <1>1, MailFacts DEF Has
<1>3. got' \in Word \cup {NoWord} BY DEF Quiet
<1>4. Refines BY <1>1, <1>3, AbstractSteps
<1> QED BY <1>1, <1>2, <1>3, <1>4, IsrStep, MailFacts

LEMMA IsrRecvStep ==
  ASSUME MailInv, IsrRecv
  PROVE  MailInv' /\ Refines
<1> USE DEF IsrRecv
<1>1. /\ mb' \in MailRing /\ Ring' /\ mb'.entry = mb.entry - 1 /\ mb.entry \in 0..Size /\ Size \in Nat
      /\ Content # <<>> /\ Content' = Tail(Content) /\ got' = Head(Content) /\ got' \in Word
  BY FetchOK, MailFacts
<1>2. Has(Senders)' = Has(Senders) + 1 /\ Has(Receivers)' = Has(Receivers) - 1
  BY <1>1, MailFacts DEF Has
<1>3. Refines BY <1>1, AbstractSteps
<1>4. k' = IF k.list[Senders] # <<>> THEN rt_schedule(ResumeFirst(k, Senders)) ELSE k
  BY DEF WakeSender
<1> QED BY <1>1, <1>2, <1>3, <1>4, IsrStep, MailFacts

LEMMA ResetStep ==
  ASSUME MailInv, NEW t \in Thread, Reset(t)
  PROVE  MailInv' /\ Refines
<1> USE DEF Reset
<1> DEFINE R == On(k, Receivers)
           S == On(k, Senders)
           M == R \cup S
           a == rt_ipc_list_resume_all(k, Receivers)
<1>1. isr = "none" /\ k.cur = t /\ pc[t] = "run" /\ k.stat[t] = "READY" BY OnProcessor DEF Calls
<1>2. /\ Receivers \in WaitList /\ Senders \in WaitList /\ Receivers # Senders /\ Settled(k)
      /\ R \subseteq Thread /\ S \subseteq Thread
      /\ \A u \in M : k.stat[u] = "SUSPEND"
      /\ \A u \in R : u \notin S
  BY MailFacts DEF OnlyOn
<1>3. Cleared(k, a, Receivers) BY <1>2, ResumeAllOK
<1>4. k' = rt_ipc_list_resume_all(a, Senders) OBVIOUS
<1> HIDE DEF a
<1>5. Settled(a) BY <1>3 DEF Cleared
<1>6. Cleared(a, k', Senders) BY <1>2, <1>4, <1>5, ResumeAllOK
<1>7. On(a, Senders) = S
  <2>1. On(a, Senders) \subseteq Thread BY <1>2, <1>5, SettledFields
  <2>2. \A u \in R : u \notin On(a, Senders) BY <1>2, <1>3 DEF Cleared, OnNone
  <2>3. \A u \in Thread \ R : u \in On(a, Senders) <=> u \in S BY <1>2, <1>3 DEF Cleared, Same
  <2> QED BY <1>2, <2>1, <2>2, <2>3
<1>8. Settled(k') /\ Same(a, k', S) /\ Same(k, a, R) /\ k'.cur = k.cur /\ Same(k, k', M)
  BY <1>3, <1>6, <1>7 DEF Cleared, Same
<1>9. \A u \in M : k'.stat[u] = "READY" /\ k'.err[u] # "EOK" /\ OnNone(k', u)
  <2>1. \A u \in S : k'.stat[u] = "READY" /\ k'.err[u] # "EOK" /\ OnNone(k', u)
    BY <1>6, <1>7 DEF Cleared
  <2>2. \A u \in R : k'.stat[u] = "READY" /\ k'.err[u] # "EOK" /\ OnNone(k', u)
    <3> TAKE u \in R
    <3>1. a.stat[u] = "READY" /\ a.err[u] = "ERROR" /\ OnNone(a, u) BY <1>3 DEF Cleared
    <3>2. u \in Thread \ S BY <1>2
    <3> QED BY <1>8, <3>1, <3>2 DEF Same, OnNone
  <2> QED BY <2>1, <2>2
<1>10. pc' \in [Thread -> Label] /\ \A u \in Thread : pc'[u] = IF u = t THEN "sched" ELSE pc[u]
  BY MoveTo DEF Label
<1>11. \A u \in Thread : /\ pc'[u] \in RecvPc <=> pc[u] \in RecvPc
                         /\ pc'[u] \in SendPc <=> pc[u] \in SendPc
                         /\ pc'[u] \in ClosePc => pc[u] \in ClosePc
  BY <1>1, <1>10 DEF RecvPc, SendPc, ClosePc
<1>12. /\ Waits' /\ On(k', Receivers) = R \ M /\ On(k', Senders) = S \ M
  <2> HIDE DEF M
  <2>1. M \in SUBSET Thread BY <1>2 DEF M
  <2> QED BY <1>2, <1>8, <1>9, <1>11, <2>1, AfterFailure
<1>13. NoStrandedThread' BY <1>8, <1>12, EnoughNext
<1>14. mb' \in MailRing /\ Ring' /\ Content' = <<>> /\ got' \in Word \cup {NoWord}
  BY NewOK DEF Quiet
<1>15. Refines BY <1>14, AbstractSteps
<1>16. Closing' BY <1>11, OpenClosing
<1>17. Runner'
  <2>1. t \notin M BY <1>1, <1>2
  <2> QED BY <1>1, <1>8, <2>1 DEF Runner, Same
<1> QED BY <1>1, <1>8, <1>10, <1>12, <1>13, <1>14, <1>15, <1>16, <1>17, Together, MailFacts

\* A step of rt_mb_delete, which may fail one thread that waits.
LEMMA CloseStep ==
  ASSUME MailInv, NEW t \in Thread, NEW l \in ClosePc, Goto(t, l), pc[t] \in ClosePc,
         k.stat[t] = "READY", k.cur = t, k'.cur = t, isr = "none",
         NEW M \in SUBSET Thread, Settled(k'), Same(k, k', M),
         \A u \in M : /\ k.stat[u] = "SUSPEND" /\ k'.stat[u] = "READY"
                      /\ k'.err[u] # "EOK" /\ OnNone(k', u),
         l \in {"close_send", "resume_send", "free"} => On(k, Receivers) = {},
         l = "free" => On(k, Senders) = {},
         Quiet, UNCHANGED <<isr, timeout, mb, alive, value>>
  PROVE  MailInv' /\ Refines
<1>1. pc' \in [Thread -> Label] /\ \A u \in Thread : pc'[u] = IF u = t THEN l ELSE pc[u]
  BY MoveTo DEF Label, ClosePc
<1>2. \A u \in Thread : /\ pc'[u] \in RecvPc <=> pc[u] \in RecvPc
                        /\ pc'[u] \in SendPc <=> pc[u] \in SendPc
                        /\ pc'[u] \in ClosePc <=> pc[u] \in ClosePc
  BY <1>1 DEF RecvPc, SendPc, ClosePc
<1>3. /\ Waits' /\ WokenReceivers' = WokenReceivers /\ WokenSenders' = WokenSenders
      /\ On(k', Receivers) \subseteq On(k, Receivers) /\ On(k', Senders) \subseteq On(k, Senders)
  BY <1>2, AfterFailure
<1>4. NoStrandedThread' BY <1>3, StillEnough
<1>5. Closing'
  <2>1. Closing BY DEF MailInv
  <2>2. alive = "dying" /\ \A u \in Thread : pc[u] \in ClosePc => u = t BY <2>1 DEF Closing
  <2>3. \A u \in Thread : pc'[u] \in ClosePc => u = t /\ pc'[u] = l BY <1>1, <1>2, <2>2
  <2>4. On(k, Receivers) = {} => On(k', Receivers) = {} BY <1>3
  <2>5. On(k, Senders) = {} => On(k', Senders) = {} BY <1>3
  <2>6. WokenReceivers' = {} /\ WokenSenders' = {} BY <1>3, <2>1, <2>2 DEF Closing
  <2> QED BY <2>2, <2>3, <2>4, <2>5, <2>6 DEF Closing
<1>6. Runner' BY DEF Runner, Same
<1> QED BY <1>1, <1>3, <1>4, <1>5, <1>6, RingKept, Together, MailFacts

LEMMA DeleteResumeStep ==
  ASSUME MailInv, NEW t \in Thread, DeleteResume(t)
  PROVE  MailInv' /\ Refines
<1>1. /\ Quiet /\ UNCHANGED <<isr, timeout, mb, alive, value>>
      /\ \/ CloseList(t, Receivers, "close_recv", "resume_recv", "close_send")
         \/ CloseList(t, Senders, "close_send", "resume_send", "free")
  BY DEF DeleteResume
<1>2. ASSUME NEW from \in ClosePc, NEW l \in ClosePc, Running(t, from), Goto(t, l), UNCHANGED k,
             l \in {"close_send", "resume_send", "free"} => On(k, Receivers) = {},
             l = "free" => On(k, Senders) = {}
      PROVE  MailInv' /\ Refines
  <2>1. isr = "none" /\ k.cur = t /\ pc[t] = from /\ k.stat[t] = "READY"
    BY <1>2, OnProcessor DEF ClosePc
  <2> DEFINE M == {}
  <2>2. Settled(k') /\ Same(k, k', M) BY <1>2, MailFacts DEF Same
  <2>3. M \in SUBSET Thread /\ \A u \in M : /\ k.stat[u] = "SUSPEND" /\ k'.stat[u] = "READY"
                                            /\ k'.err[u] # "EOK" /\ OnNone(k', u)
    OBVIOUS
  <2> HIDE DEF M
  <2> QED BY <1>1, <1>2, <2>1, <2>2, <2>3, CloseStep
<1>3. ASSUME NEW from \in ClosePc, NEW l \in ClosePc, NEW w \in {Receivers, Senders},
             Running(t, from), Goto(t, l), k.list[w] # <<>>, k' = ResumeWithError(k, w),
             l \in {"close_send", "resume_send", "free"} => On(k, Receivers) = {},
             l # "free"
      PROVE  MailInv' /\ Refines
  <2>1. isr = "none" /\ k.cur = t /\ pc[t] = from /\ k.stat[t] = "READY"
    BY <1>3, OnProcessor DEF ClosePc
  <2> DEFINE h == Head(k.list[w])
             M == {h}
  <2>2. /\ h \in Thread /\ k.stat[h] = "SUSPEND" /\ Settled(k') /\ Same(k, k', {h}) /\ k'.cur = k.cur
        /\ k'.stat[h] = "READY" /\ k'.err[h] = "ERROR" /\ OnNone(k', h)
    <3>1. w \in WaitList /\ Settled(k) BY MailFacts
    <3> QED BY <1>3, <3>1, ErrorOK
  <2> HIDE DEF h
  <2>3. /\ M \in SUBSET Thread /\ Same(k, k', M)
        /\ \A u \in M : /\ k.stat[u] = "SUSPEND" /\ k'.stat[u] = "READY"
                        /\ k'.err[u] # "EOK" /\ OnNone(k', u)
    BY <2>2
  <2> HIDE DEF M
  <2> QED BY <1>1, <1>3, <2>1, <2>2, <2>3, CloseStep
<1>4. pc[t] = "close_send" \/ pc[t] = "resume_send" => On(k, Receivers) = {}
  BY DEF MailInv, Closing, ClosePc
<1>5. {"close_recv", "resume_recv", "close_send", "resume_send", "free"} \subseteq ClosePc
  BY DEF ClosePc
<1>6. \A w \in {Receivers, Senders} : k.list[w] = <<>> <=> On(k, w) = {} BY MailFacts
<1>7. CASE CloseList(t, Receivers, "close_recv", "resume_recv", "close_send")
  <2>1. CASE /\ Running(t, "close_recv")
             /\ Goto(t, IF k.list[Receivers] # <<>> THEN "resume_recv" ELSE "close_send")
             /\ UNCHANGED k
    <3>1. CASE k.list[Receivers] # <<>> BY <1>2, <1>5, <2>1, <3>1
    <3>2. CASE k.list[Receivers] = <<>> BY <1>2, <1>5, <1>6, <2>1, <3>2
    <3> QED BY <3>1, <3>2
  <2>2. CASE /\ Running(t, "resume_recv") /\ k.list[Receivers] # <<>>
             /\ k' = ResumeWithError(k, Receivers) /\ Goto(t, "close_recv")
    BY <1>3, <1>5, <2>2
  <2> QED BY <1>7, <2>1, <2>2 DEF CloseList
<1>8. CASE CloseList(t, Senders, "close_send", "resume_send", "free")
  <2>1. CASE /\ Running(t, "close_send")
             /\ Goto(t, IF k.list[Senders] # <<>> THEN "resume_send" ELSE "free")
             /\ UNCHANGED k
    <3>1. On(k, Receivers) = {} BY <1>4, <2>1 DEF Running
    <3>2. CASE k.list[Senders] # <<>> BY <1>2, <1>5, <2>1, <3>1, <3>2
    <3>3. CASE k.list[Senders] = <<>> BY <1>2, <1>5, <1>6, <2>1, <3>1, <3>3
    <3> QED BY <3>2, <3>3
  <2>2. CASE /\ Running(t, "resume_send") /\ k.list[Senders] # <<>>
             /\ k' = ResumeWithError(k, Senders) /\ Goto(t, "close_send")
    <3>1. On(k, Receivers) = {} BY <1>4, <2>2 DEF Running
    <3> QED BY <1>3, <1>5, <2>2, <3>1
  <2> QED BY <1>8, <2>1, <2>2 DEF CloseList
<1> QED BY <1>1, <1>7, <1>8

LEMMA DeleteStep ==
  ASSUME MailInv, NEW t \in Thread, Delete(t)
  PROVE  MailInv' /\ Refines
<1> USE DEF Delete
<1>1. isr = "none" /\ k.cur = t /\ pc[t] = "run" /\ k.stat[t] = "READY" BY OnProcessor DEF Calls
<1>2. pc' \in [Thread -> Label] /\ \A u \in Thread : pc'[u] = IF u = t THEN "close_recv" ELSE pc[u]
  BY MoveTo DEF Label
<1>3. \A u \in Thread : /\ pc'[u] \in RecvPc <=> pc[u] \in RecvPc
                        /\ pc'[u] \in SendPc <=> pc[u] \in SendPc
  BY <1>1, <1>2 DEF RecvPc, SendPc
<1>4. Settled(k') /\ Same(k, k', {}) BY MailFacts DEF Same
<1>5. /\ Waits' /\ WokenReceivers' = WokenReceivers /\ WokenSenders' = WokenSenders
      /\ On(k', Receivers) \subseteq On(k, Receivers) /\ On(k', Senders) \subseteq On(k, Senders)
  BY <1>3, <1>4, AfterFailure
<1>6. NoStrandedThread' BY <1>4, <1>5, StillEnough
<1>7. Closing'
  <2>1. \A u \in Thread : pc[u] \notin ClosePc BY DEF MailInv, Closing
  <2>2. \A u \in Thread : pc'[u] \in ClosePc => u = t /\ pc'[u] = "close_recv" BY <1>2, <2>1
  <2>3. WokenReceivers' = {} /\ WokenSenders' = {} BY <1>5
  <2> QED BY <2>2, <2>3 DEF Closing
<1>8. Runner' BY <1>1 DEF Runner
<1> QED BY <1>1, <1>2, <1>4, <1>5, <1>6, <1>7, <1>8, RingKept, Together, MailFacts

LEMMA DeleteObjectStep ==
  ASSUME MailInv, NEW t \in Thread, DeleteObject(t)
  PROVE  MailInv' /\ Refines
<1> USE DEF DeleteObject
<1>1. isr = "none" /\ k.cur = t /\ pc[t] = "free" /\ k.stat[t] = "READY" BY OnProcessor
<1>2. pc' \in [Thread -> Label] /\ \A u \in Thread : pc'[u] = IF u = t THEN "run" ELSE pc[u]
  BY MoveTo DEF Label
<1>3. \A u \in Thread : /\ pc'[u] \in RecvPc <=> pc[u] \in RecvPc
                        /\ pc'[u] \in SendPc <=> pc[u] \in SendPc
  BY <1>1, <1>2 DEF RecvPc, SendPc
<1>4. Settled(k') /\ Same(k, k', {}) BY MailFacts DEF Same
<1>5. /\ Waits' /\ WokenReceivers' = WokenReceivers /\ WokenSenders' = WokenSenders
      /\ On(k', Receivers) \subseteq On(k, Receivers) /\ On(k', Senders) \subseteq On(k, Senders)
  BY <1>3, <1>4, AfterFailure
<1>6. Closing BY DEF MailInv
<1>7. /\ On(k, Receivers) = {} /\ On(k, Senders) = {} /\ alive = "dying"
      /\ \A u \in Thread : pc[u] \in ClosePc => u = t
      /\ WokenReceivers = {} /\ WokenSenders = {}
  BY <1>1, <1>6 DEF Closing, ClosePc
<1>8. On(k', Receivers) = {} /\ On(k', Senders) = {} BY <1>5, <1>7
<1>9. NoStrandedThread' BY <1>4, <1>8, EnoughNext
<1>10. Closing'
  <2>1. \A u \in Thread : pc'[u] \notin ClosePc BY <1>2, <1>7 DEF ClosePc
  <2> QED BY <1>5, <1>7, <1>8, <2>1 DEF Closing
<1>11. mb' \in MailRing /\ Ring' /\ Content' = <<>> /\ got' \in Word \cup {NoWord}
  BY NewOK DEF Quiet
<1>12. Refines BY <1>11, AbstractSteps
<1>13. Runner' BY <1>1 DEF Runner
<1> QED BY <1>1, <1>2, <1>4, <1>5, <1>9, <1>10, <1>11, <1>12, <1>13, Together, MailFacts

LEMMA CreateStep ==
  ASSUME MailInv, NEW t \in Thread, Create(t)
  PROVE  MailInv' /\ Refines
<1> USE DEF Create
<1>1. isr = "none" /\ k.cur = t /\ pc[t] = "run" /\ k.stat[t] = "READY" BY OnProcessor DEF Calls
<1>2. Closing /\ k \in KernelState BY DEF MailInv, TypeOK, IpcTypeOK
<1>3. /\ On(k, Receivers) = {} /\ On(k, Senders) = {}
      /\ k.list[Receivers] = <<>> /\ k.list[Senders] = <<>>
  BY <1>2, MailFacts DEF Closing
<1>4. k' = k
  <2>1. Receivers \in ListHead /\ Senders \in ListHead /\ k.list \in [ListHead -> Seq(Thread)]
    BY <1>2, KernelFields, MailFacts DEF ListHead
  <2>2. [[k.list EXCEPT ![Receivers] = <<>>] EXCEPT ![Senders] = <<>>] = k.list BY <1>3, <2>1
  <2>3. k' = [k EXCEPT !.list = [[k.list EXCEPT ![Receivers] = <<>>] EXCEPT ![Senders] = <<>>]]
    BY <1>2 DEF KernelState
  <2>4. [k EXCEPT !.list = k.list] = k BY <1>2 DEF KernelState
  <2> HIDE DEF Create
  <2> QED BY <2>2, <2>3, <2>4
<1>5. Settled(k') /\ Same(k, k', {}) BY <1>4, MailFacts DEF Same
<1>6. Waits' /\ On(k', Receivers) = {} /\ On(k', Senders) = {}
  BY <1>3, <1>4, MailFacts DEF Waits
<1>7. NoStrandedThread' BY <1>5, <1>6, EnoughNext
<1>8. Closing'
  <2>1. \A u \in Thread : pc'[u] \notin ClosePc BY <1>2 DEF Closing
  <2> QED BY <2>1 DEF Closing
<1>9. mb' \in MailRing /\ Ring' /\ Content' = <<>> /\ got' \in Word \cup {NoWord}
  BY NewOK DEF Quiet
<1>10. Refines BY <1>9, AbstractSteps
<1>11. Runner' BY <1>1, <1>4 DEF Runner
<1> QED BY <1>1, <1>5, <1>6, <1>7, <1>8, <1>9, <1>10, <1>11, Together, MailFacts

LEMMA FirstState == Init => MailInv /\ Abstract!Init
<1> SUFFICES ASSUME Init PROVE MailInv /\ Abstract!Init OBVIOUS
<1> USE DEF Init, IpcInit
<1>1. /\ KernelOK(k) /\ k.nest = 0 /\ k.cur \in Thread /\ k.err \in [Thread -> {"EOK"}]
      /\ \A t \in Thread : k.stat[t] = "READY" /\ ~Off(k, t)
  BY BootedOK, IpcAssumption
<1>2. Settled(k) BY <1>1 DEF Settled, Resting
<1>3. /\ On(k, Receivers) \subseteq Thread /\ On(k, Senders) \subseteq Thread
      /\ k.list[Receivers] = <<>> <=> On(k, Receivers) = {}
      /\ k.list[Senders] = <<>> <=> On(k, Senders) = {}
      /\ \A t \in Thread : t \notin On(k, Receivers) /\ t \notin On(k, Senders)
  BY <1>1, <1>2, SettledFields, ReadyOnNone, MailboxAssumption DEF OnNone
<1>4. On(k, Receivers) = {} /\ On(k, Senders) = {} BY <1>3
<1>5. Runner BY <1>1 DEF Runner
<1>6. Waits BY <1>1, <1>4, ThreadAssumption DEF Waits, RecvPc, SendPc
<1>7. Size \in Nat \ {0} /\ 0 % Size = 0 BY MailboxAssumption
<1>8. mb \in MailRing /\ Ring /\ Content = <<>>
  <2>1. mb \in MailRing BY <1>7 DEF NewMailbox, MailRing
  <2>2. mb.entry = 0 /\ mb.in_offset = 0 /\ mb.out_offset = 0 BY DEF NewMailbox
  <2> QED BY <1>7, <2>1, <2>2 DEF Ring, Content
<1>9. NoStrandedThread BY <1>3, <1>4 DEF NoStrandedThread
<1>10. Closing BY DEF Closing, ClosePc
<1>11. timeout \in [Thread -> Timeout] BY BoundAssumption DEF Timeout
<1>12. k \in KernelState BY <1>1 DEF KernelOK
<1>13. TypeOK BY <1>8, <1>11, <1>12 DEF TypeOK, IpcTypeOK, MailRing, Label
<1>14. Abstract!Init BY <1>8 DEF Abstract!Init, Abstract!NotSending
<1> QED BY <1>2, <1>5, <1>6, <1>8, <1>9, <1>10, <1>13, <1>14 DEF MailInv

LEMMA EachStep == MailInv /\ [Next]_vars => MailInv' /\ Refines
<1> SUFFICES ASSUME MailInv, [Next]_vars PROVE MailInv' /\ Refines OBVIOUS
<1>1. ASSUME NEW t \in Thread, Step(t) PROVE MailInv' /\ Refines
  <2>1. CASE \E v \in Sends[t], time \in Timeout : SendWait(t, v, time) BY <2>1, SendWaitStep
  <2>2. CASE SendSchedule(t)
    BY <2>2, ScheduleTo DEF SendSchedule, Label, RecvPc, SendPc, ClosePc
  <2>3. CASE SendBack(t) BY <2>3, SendBackStep
  <2>4. CASE \E time \in Timeout : Recv(t, time) BY <2>4, RecvStep
  <2>5. CASE RecvSchedule(t)
    BY <2>5, ScheduleTo DEF RecvSchedule, Label, RecvPc, SendPc, ClosePc
  <2>6. CASE RecvBack(t) BY <2>6, RecvBackStep
  <2>7. CASE Schedule(t) BY <2>7, ScheduleTo DEF Schedule, Label, RecvPc, SendPc, ClosePc
  <2>8. CASE Reset(t) BY <2>8, ResetStep
  <2>9. CASE Delete(t) BY <2>9, DeleteStep
  <2>10. CASE DeleteResume(t) BY <2>10, DeleteResumeStep
  <2>11. CASE DeleteObject(t) BY <2>11, DeleteObjectStep
  <2>12. CASE Create(t) BY <2>12, CreateStep
  <2> QED BY <1>1, <2>1, <2>2, <2>3, <2>4, <2>5, <2>6, <2>7, <2>8, <2>9, <2>10, <2>11, <2>12 DEF Step
<1>2. ASSUME Interrupt PROVE MailInv' /\ Refines
  BY <1>2, TickStep, TimerCheckStep, IsrSendStep, IsrRecvStep DEF Interrupt
<1>3. ASSUME UNCHANGED vars PROVE MailInv' /\ Refines
  <2> USE <1>3 DEF vars
  <2>1. Content' = Content BY DEF Content
  <2>2. Refines BY <2>1 DEF Refines, Abstract!vars
  <2>3. WokenReceivers' = WokenReceivers /\ WokenSenders' = WokenSenders
    BY DEF WokenReceivers, WokenSenders, Woken
  <2>4. TypeOK' BY DEF MailInv, TypeOK, IpcTypeOK
  <2>5. Runner' /\ Waits' /\ Ring' BY DEF MailInv, Runner, Waits, Ring
  <2>6. NoStrandedThread' /\ Closing' BY <2>3 DEF MailInv, NoStrandedThread, Closing
  <2> QED BY <2>2, <2>4, <2>5, <2>6 DEF MailInv
<1> QED BY <1>1, <1>2, <1>3 DEF Next

-----------------------------------------------------------------------------
(* Theorems, for any instance.                                             *)

\* The invariant that carries the others: who is suspended waits in a loop and
\* on its list, the words lie between the offsets, and as many threads as
\* there is mail, or room, have been woken for it.
THEOREM MailInvariance == Spec => []MailInv
<1>1. Init => MailInv BY FirstState
<1>2. MailInv /\ [Next]_vars => MailInv' BY EachStep
<1> QED BY <1>1, <1>2, PTL DEF Spec

\* Whatever threads and handlers do, the offsets of rt_mb_send_wait and
\* rt_mb_recv stay in the pool and entry between 0 and size.
THEOREM MailTypeCorrect == Spec => []TypeOK
<1>1. MailInv => TypeOK BY DEF MailInv
<1> QED BY <1>1, MailInvariance, PTL

\* No receiver sleeps in rt_mb_recv while there is more mail than the woken
\* receivers can take, and no sender in rt_mb_send_wait while there is more
\* room than the woken senders can fill.
THEOREM NobodyIsStranded == Spec => []NoStrandedThread
<1>1. MailInv => NoStrandedThread BY DEF MailInv
<1> QED BY <1>1, MailInvariance, PTL

\* rt_mb_send_wait, rt_mb_recv and the handlers that use them implement a
\* bounded queue: each word is handed out once, in the order of the sends.
THEOREM MailboxRefines == Spec => ImplementsQueue
<1>1. Init => Abstract!Init BY FirstState
<1>2. MailInv /\ [Next]_vars => [Abstract!Next]_Abstract!vars BY EachStep DEF Refines
<1> QED BY <1>1, <1>2, MailInvariance, PTL DEF Spec, ImplementsQueue, Abstract!Spec
=============================================================================
