---------------------------- MODULE KernelProofs -----------------------------
(***************************************************************************)
(* What the kernel operators of Kernel preserve, whoever applies them: the *)
(* ready table and the timers, the suspend lists of the IPC objects, the   *)
(* fields the calls leave alone; and the kernel that has just started.     *)
(***************************************************************************)
EXTENDS Kernel, SequenceTheorems, FiniteSetTheorems, WellFoundedInduction, TLAPS

NoDup(q) == \A i, j \in DOMAIN q : q[i] = q[j] => i = j

-----------------------------------------------------------------------------
(* Lists.                                                                  *)

\* A list is empty exactly when nothing is linked to it.
LEMMA EmptyList ==
  ASSUME NEW S, NEW q \in Seq(S)
  PROVE  /\ q = <<>> <=> ToSet(q) = {}
         /\ ToSet(q) \subseteq S
         /\ q # <<>> => Head(q) \in ToSet(q)
<1>1. q # <<>> => Len(q) \in Nat /\ Len(q) > 0 /\ 1 \in DOMAIN q /\ Head(q) = q[1]
  OBVIOUS
<1>2. q = <<>> => DOMAIN q = {}
  OBVIOUS
<1>3. \A i \in DOMAIN q : q[i] \in S
  OBVIOUS
<1> QED BY <1>1, <1>2, <1>3 DEF ToSet

\* rt_list_insert_before at the head of a list, which is its end.
LEMMA AppendList ==
  ASSUME NEW S, NEW q \in Seq(S), NEW t \in S
  PROVE  /\ Append(q, t) \in Seq(S)
         /\ ToSet(Append(q, t)) = ToSet(q) \cup {t}
         /\ Append(q, t) # <<>>
         /\ NoDup(q) /\ t \notin ToSet(q) => NoDup(Append(q, t))
<1> DEFINE r == Append(q, t)
<1>1. /\ r \in Seq(S) /\ Len(r) = Len(q) + 1
      /\ DOMAIN r = 1..(Len(q) + 1) /\ DOMAIN q = 1..Len(q) /\ Len(q) \in Nat
      /\ \A i \in 1..Len(q) : r[i] = q[i]
      /\ r[Len(q) + 1] = t
  OBVIOUS
<1>2. ToSet(r) \subseteq ToSet(q) \cup {t}
  <2> SUFFICES ASSUME NEW i \in DOMAIN r PROVE r[i] \in ToSet(q) \cup {t}
    BY DEF ToSet
  <2>1. CASE i = Len(q) + 1 BY <2>1, <1>1
  <2>2. CASE i # Len(q) + 1
    <3>1. i \in DOMAIN q BY <2>2, <1>1
    <3> QED BY <3>1, <1>1 DEF ToSet
  <2> QED BY <2>1, <2>2
<1>3. ToSet(q) \cup {t} \subseteq ToSet(r)
  BY <1>1 DEF ToSet
<1>4. ASSUME NoDup(q), t \notin ToSet(q), NEW i \in DOMAIN r, NEW j \in DOMAIN r, r[i] = r[j]
      PROVE  i = j
  <2>1. \A n \in DOMAIN q : q[n] # t BY <1>4 DEF ToSet
  <2> QED BY <1>1, <1>4, <2>1 DEF NoDup
<1> QED BY <1>1, <1>2, <1>3, <1>4 DEF NoDup

\* rt_list_remove: the nodes behind the one that leaves move up.
LEMMA RemovePositions ==
  ASSUME NEW S, NEW q \in Seq(S), NEW t \in ToSet(q)
  PROVE  LET n == Index(q, t)
             r == Without(q, t)
         IN  /\ n \in 1..Len(q) /\ q[n] = t /\ DOMAIN q = 1..Len(q) /\ Len(q) \in Nat
             /\ r \in Seq(S) /\ Len(r) = Len(q) - 1 /\ DOMAIN r = 1..(Len(q) - 1)
             /\ \A i \in DOMAIN r : r[i] = IF i < n THEN q[i] ELSE q[i + 1]
<1> DEFINE r == Without(q, t)
<1> DEFINE n == Index(q, t)
<1>1. n \in 1..Len(q) /\ q[n] = t /\ DOMAIN q = 1..Len(q) /\ Len(q) \in Nat
  <2>1. \E i \in DOMAIN q : q[i] = t BY DEF ToSet
  <2>2. n \in DOMAIN q /\ q[n] = t BY <2>1 DEF Index
  <2> QED BY <2>2
<1> HIDE DEF n
<1>2. r = SubSeq(q, 1, n - 1) \o SubSeq(q, n + 1, Len(q))
  BY DEF Without, RemoveAt, n
<1>3. /\ SubSeq(q, 1, n - 1) \in Seq(S)
      /\ Len(SubSeq(q, 1, n - 1)) = n - 1
      /\ \A i \in 1..(n - 1) : SubSeq(q, 1, n - 1)[i] = q[i]
  BY <1>1
<1>4. /\ SubSeq(q, n + 1, Len(q)) \in Seq(S)
      /\ Len(SubSeq(q, n + 1, Len(q))) = Len(q) - n
      /\ \A i \in 1..(Len(q) - n) : SubSeq(q, n + 1, Len(q))[i] = q[n + i]
  <2>1. \A i \in (n + 1)..Len(q) : q[i] \in S BY <1>1
  <2>2. n + 1 \in Int /\ Len(q) \in Int BY <1>1
  <2>3. /\ SubSeq(q, n + 1, Len(q)) \in Seq(S)
        /\ Len(SubSeq(q, n + 1, Len(q)))
             = IF n + 1 <= Len(q) THEN Len(q) - (n + 1) + 1 ELSE 0
        /\ \A i \in 1..(Len(q) - (n + 1) + 1) :
             SubSeq(q, n + 1, Len(q))[i] = q[(n + 1) + i - 1]
    BY <2>1, <2>2, SubSeqProperties
  <2> DEFINE b == SubSeq(q, n + 1, Len(q))
             len == Len(q)
  <2> HIDE DEF b
  <2>4. b \in Seq(S) /\ Len(b) = len - n
    <3>1. Len(b) = IF n + 1 <= len THEN len - (n + 1) + 1 ELSE 0 BY <2>3 DEF b
    <3>2. len \in Nat /\ n \in Nat /\ n <= len BY <1>1
    <3> HIDE DEF len
    <3>3. Len(b) = len - n BY <3>1, <3>2
    <3>4. b \in Seq(S) BY <2>3 DEF b
    <3> QED BY <3>3, <3>4
  <2>5. ASSUME NEW i \in 1..(len - n) PROVE b[i] = q[n + i]
    <3>1. i \in 1..(len - (n + 1) + 1) /\ (n + 1) + i - 1 = n + i BY <1>1
    <3> QED BY <3>1, <2>3 DEF b
  <2> QED BY <2>4, <2>5 DEF b
<1>5. /\ r \in Seq(S) /\ Len(r) = Len(q) - 1 /\ DOMAIN r = 1..(Len(q) - 1)
      /\ \A i \in DOMAIN r : r[i] = IF i < n THEN q[i] ELSE q[i + 1]
  <2> DEFINE a == SubSeq(q, 1, n - 1)
             b == SubSeq(q, n + 1, Len(q))
  <2>1. a \in Seq(S) /\ b \in Seq(S) /\ r = a \o b
    BY <1>2, <1>3, <1>4
  <2>2. Len(r) = Len(a) + Len(b) /\ r \in Seq(S)
    BY <2>1, ConcatProperties
  <2>3. \A i \in 1..(Len(a) + Len(b)) : r[i] = IF i <= Len(a) THEN a[i] ELSE b[i - Len(a)]
    BY <2>1, ConcatProperties
  <2> HIDE DEF a, b, r
  <2>4. Len(a) = n - 1 /\ Len(b) = Len(q) - n BY <1>3, <1>4 DEF a, b
  <2>5. Len(r) = Len(q) - 1 /\ DOMAIN r = 1..(Len(q) - 1) BY <2>2, <2>4, <1>1
  <2>6. \A i \in 1..(n - 1) : a[i] = q[i] BY <1>3 DEF a
  <2>7. \A i \in 1..(Len(q) - n) : b[i] = q[n + i] BY <1>4 DEF b
  <2>8. ASSUME NEW i \in DOMAIN r PROVE r[i] = IF i < n THEN q[i] ELSE q[i + 1]
    <3>1. i \in 1..(Len(a) + Len(b)) BY <2>5, <2>4, <1>1
    <3>2. CASE i < n BY <3>1, <3>2, <2>3, <2>4, <2>6, <1>1
    <3>3. CASE i >= n
      <4>1. r[i] = b[i - (n - 1)] BY <3>1, <3>3, <2>3, <2>4, <1>1
      <4>2. i - (n - 1) \in 1..(Len(q) - n) BY <3>1, <3>3, <2>4, <1>1
      <4>3. b[i - (n - 1)] = q[n + (i - (n - 1))] BY <4>2, <2>7
      <4>4. n + (i - (n - 1)) = i + 1 BY <3>1, <1>1
      <4> QED BY <4>1, <4>3, <4>4, <3>3, <3>1, <1>1
    <3> QED BY <3>2, <3>3, <3>1, <1>1
  <2> QED BY <2>2, <2>5, <2>8
<1> QED BY <1>1, <1>5 DEF n

LEMMA RemoveList ==
  ASSUME NEW S, NEW q \in Seq(S), NEW t, NoDup(q)
  PROVE  /\ Without(q, t) \in Seq(S)
         /\ ToSet(Without(q, t)) = ToSet(q) \ {t}
         /\ NoDup(Without(q, t))
<1> DEFINE r == Without(q, t)
<1>1. CASE t \notin ToSet(q)
  <2>1. r = q BY <1>1 DEF Without
  <2> QED BY <2>1, <1>1
<1>2. CASE t \in ToSet(q)
  <2> DEFINE n == Index(q, t)
  <2> HIDE DEF n
  <2>1. n \in 1..Len(q) /\ q[n] = t /\ DOMAIN q = 1..Len(q) /\ Len(q) \in Nat
    BY <1>2, RemovePositions DEF n
  <2>2. /\ r \in Seq(S) /\ Len(r) = Len(q) - 1 /\ DOMAIN r = 1..(Len(q) - 1)
        /\ \A i \in DOMAIN r : r[i] = IF i < n THEN q[i] ELSE q[i + 1]
    BY <1>2, RemovePositions DEF n
  <2> HIDE DEF r
  <2>3. ToSet(r) \subseteq ToSet(q) \ {t}
    <3> SUFFICES ASSUME NEW i \in DOMAIN r PROVE r[i] \in ToSet(q) \ {t}
      BY DEF ToSet
    <3>1. CASE i < n
      <4>1. i \in DOMAIN q /\ i # n /\ r[i] = q[i] BY <3>1, <2>2, <2>1
      <4> QED BY <4>1, <2>1 DEF ToSet, NoDup
    <3>2. CASE ~(i < n)
      <4>1. i + 1 \in DOMAIN q /\ i + 1 # n /\ r[i] = q[i + 1] BY <3>2, <2>2, <2>1
      <4> QED BY <4>1, <2>1 DEF ToSet, NoDup
    <3> QED BY <3>1, <3>2
  <2>4. ToSet(q) \ {t} \subseteq ToSet(r)
    <3> SUFFICES ASSUME NEW i \in DOMAIN q, q[i] # t PROVE q[i] \in ToSet(r)
      BY DEF ToSet
    <3>1. i # n /\ i \in 1..Len(q) BY <2>1
    <3>2. CASE i < n
      <4>1. i \in DOMAIN r /\ r[i] = q[i] BY <3>1, <3>2, <2>2, <2>1
      <4> QED BY <4>1 DEF ToSet
    <3>3. CASE i > n
      <4>1. i - 1 \in DOMAIN r /\ r[i - 1] = q[(i - 1) + 1] /\ (i - 1) + 1 = i
        BY <3>1, <3>3, <2>2, <2>1
      <4> QED BY <4>1 DEF ToSet
    <3> QED BY <3>1, <3>2, <3>3, <2>1
  <2>5. NoDup(r)
    BY <2>2, <2>1 DEF NoDup
  <2> QED BY <2>2, <2>3, <2>4, <2>5 DEF r
<1> QED BY <1>1, <1>2

\* rt_list_insert_after at the head of a list.
LEMMA PrependList ==
  ASSUME NEW S, NEW q \in Seq(S), NEW t \in S
  PROVE  /\ <<t>> \o q \in Seq(S)
         /\ ToSet(<<t>> \o q) = ToSet(q) \cup {t}
         /\ NoDup(q) /\ t \notin ToSet(q) => NoDup(<<t>> \o q)
<1> DEFINE r == <<t>> \o q
<1>1. /\ r \in Seq(S) /\ Len(r) = Len(q) + 1
      /\ DOMAIN r = 1..(Len(q) + 1) /\ DOMAIN q = 1..Len(q) /\ Len(q) \in Nat
      /\ r[1] = t
      /\ \A i \in 1..Len(q) : r[i + 1] = q[i]
  <2>1. <<t>> \in Seq(S) /\ Len(<<t>>) = 1 /\ <<t>>[1] = t OBVIOUS
  <2>2. /\ r \in Seq(S) /\ Len(r) = 1 + Len(q)
        /\ \A i \in 1..(1 + Len(q)) : r[i] = IF i <= 1 THEN <<t>>[i] ELSE q[i - 1]
    BY <2>1, ConcatProperties
  <2> HIDE DEF r
  <2>3. Len(q) \in Nat /\ DOMAIN q = 1..Len(q) OBVIOUS
  <2>4. \A i \in 1..Len(q) : r[i + 1] = q[i]
    <3> TAKE i \in 1..Len(q)
    <3>1. i + 1 \in 1..(1 + Len(q)) /\ ~(i + 1 <= 1) /\ (i + 1) - 1 = i BY <2>3
    <3> QED BY <3>1, <2>2
  <2>5. r[1] = t
    <3>1. 1 \in 1..(1 + Len(q)) BY <2>3
    <3> QED BY <3>1, <2>1, <2>2
  <2>6. Len(r) = Len(q) + 1 /\ DOMAIN r = 1..(Len(q) + 1) BY <2>2, <2>3
  <2> QED BY <2>2, <2>3, <2>4, <2>5, <2>6
<1> HIDE DEF r
<1>2. ToSet(r) \subseteq ToSet(q) \cup {t}
  <2> SUFFICES ASSUME NEW i \in DOMAIN r PROVE r[i] \in ToSet(q) \cup {t}
    BY DEF ToSet
  <2>1. CASE i = 1 BY <2>1, <1>1
  <2>2. CASE i # 1
    <3>1. i - 1 \in DOMAIN q /\ r[i] = q[i - 1] BY <2>2, <1>1
    <3> QED BY <3>1 DEF ToSet
  <2> QED BY <2>1, <2>2
<1>3. ToSet(q) \cup {t} \subseteq ToSet(r)
  <2>1. t \in ToSet(r) BY <1>1 DEF ToSet
  <2>2. ASSUME NEW i \in DOMAIN q PROVE q[i] \in ToSet(r)
    <3>1. i + 1 \in DOMAIN r /\ r[i + 1] = q[i] BY <1>1
    <3> QED BY <3>1 DEF ToSet
  <2> QED BY <2>1, <2>2 DEF ToSet
<1>4. ASSUME NoDup(q), t \notin ToSet(q), NEW i \in DOMAIN r, NEW j \in DOMAIN r, r[i] = r[j]
      PROVE  i = j
  <2>1. \A n \in DOMAIN q : q[n] # t BY <1>4 DEF ToSet
  <2>2. \A n \in DOMAIN r : n # 1 => n - 1 \in DOMAIN q /\ r[n] = q[n - 1] BY <1>1
  <2> QED BY <1>1, <1>4, <2>1, <2>2 DEF NoDup
<1> QED BY <1>1, <1>2, <1>3, <1>4 DEF NoDup, r

\* The first element is taken off.
LEMMA TailList ==
  ASSUME NEW S, NEW q \in Seq(S), q # <<>>, NoDup(q)
  PROVE  /\ Tail(q) \in Seq(S)
         /\ ToSet(Tail(q)) = ToSet(q) \ {Head(q)}
         /\ NoDup(Tail(q))
<1> DEFINE r == Tail(q)
<1>1. /\ r \in Seq(S) /\ Len(r) = Len(q) - 1 /\ Len(q) \in Nat \ {0}
      /\ DOMAIN r = 1..(Len(q) - 1) /\ DOMAIN q = 1..Len(q)
      /\ \A i \in 1..(Len(q) - 1) : r[i] = q[i + 1]
      /\ Head(q) = q[1]
  OBVIOUS
<1> HIDE DEF r
<1>2. ToSet(r) \subseteq ToSet(q) \ {Head(q)}
  <2> SUFFICES ASSUME NEW i \in DOMAIN r PROVE r[i] \in ToSet(q) \ {q[1]}
    BY <1>1 DEF ToSet
  <2>1. i + 1 \in DOMAIN q /\ i + 1 # 1 /\ 1 \in DOMAIN q /\ r[i] = q[i + 1] BY <1>1
  <2> QED BY <2>1 DEF ToSet, NoDup
<1>3. ToSet(q) \ {Head(q)} \subseteq ToSet(r)
  <2> SUFFICES ASSUME NEW i \in DOMAIN q, q[i] # q[1] PROVE q[i] \in ToSet(r)
    BY <1>1 DEF ToSet
  <2>1. i - 1 \in DOMAIN r /\ r[i - 1] = q[(i - 1) + 1] /\ (i - 1) + 1 = i BY <1>1
  <2> QED BY <2>1 DEF ToSet
<1>4. ASSUME NEW i \in DOMAIN r, NEW j \in DOMAIN r, r[i] = r[j]
      PROVE  i = j
  <2>1. /\ i + 1 \in DOMAIN q /\ r[i] = q[i + 1] /\ i \in Int
        /\ j + 1 \in DOMAIN q /\ r[j] = q[j + 1] /\ j \in Int
    BY <1>1
  <2>2. i + 1 = j + 1 BY <2>1, <1>4 DEF NoDup
  <2> QED BY <2>1, <2>2
<1> QED BY <1>1, <1>2, <1>3, <1>4 DEF r, NoDup

\* Insertion in the middle: rt_timer_start, rt_ipc_list_suspend.
LEMMA InsertPositions ==
  ASSUME NEW S, NEW q \in Seq(S), NEW t \in S, NEW n \in 1..(Len(q) + 1)
  PROVE  LET r == InsertAt(q, n, t)
         IN  /\ r \in Seq(S) /\ DOMAIN r = 1..(Len(q) + 1)
             /\ \A i \in 1..(n - 1) : r[i] = q[i]
             /\ r[n] = t
             /\ \A i \in n..Len(q) : r[i + 1] = q[i]
<1> DEFINE len == Len(q)
           a == SubSeq(q, 1, n - 1)
           b == SubSeq(q, n, len)
           r == InsertAt(q, n, t)
<1>1. len \in Nat /\ n \in 1..(len + 1) /\ DOMAIN q = 1..len OBVIOUS
<1>2. a \in Seq(S) /\ Len(a) = n - 1 /\ \A i \in 1..(n - 1) : a[i] = q[i]
  OBVIOUS
<1>3. b \in Seq(S) /\ Len(b) = len - n + 1 /\ \A i \in 1..(len - n + 1) : b[i] = q[n + i - 1]
  <2>1. \A i \in n..len : q[i] \in S BY <1>1
  <2>2. /\ b \in Seq(S)
        /\ Len(b) = IF n <= len THEN len - n + 1 ELSE 0
        /\ \A i \in 1..(len - n + 1) : b[i] = q[n + i - 1]
    BY <2>1, <1>1, SubSeqProperties
  <2> HIDE DEF b, len
  <2> QED BY <2>2, <1>1
<1>4. r = (a \o <<t>>) \o b BY DEF InsertAt
<1> HIDE DEF a, b, r, len
<1>5. /\ r \in Seq(S) /\ DOMAIN r = 1..(len + 1)
      /\ \A i \in 1..(n - 1) : r[i] = q[i]
      /\ r[n] = t
      /\ \A i \in n..len : r[i + 1] = q[i]
  <2> DEFINE c == a \o <<t>>
  <2>1. <<t>> \in Seq(S) /\ Len(<<t>>) = 1 /\ <<t>>[1] = t OBVIOUS
  <2>2. /\ c \in Seq(S) /\ Len(c) = Len(a) + 1
        /\ \A i \in 1..(Len(a) + 1) : c[i] = IF i <= Len(a) THEN a[i] ELSE <<t>>[i - Len(a)]
    BY <1>2, <2>1, ConcatProperties
  <2> HIDE DEF c
  <2>3. /\ r \in Seq(S) /\ Len(r) = Len(c) + Len(b)
        /\ \A i \in 1..(Len(c) + Len(b)) : r[i] = IF i <= Len(c) THEN c[i] ELSE b[i - Len(c)]
    BY <1>3, <1>4, <2>2, ConcatProperties DEF c
  <2>4. Len(c) = n /\ Len(r) = len + 1 BY <1>1, <1>2, <1>3, <2>2, <2>3
  <2>5. \A i \in 1..(n - 1) : r[i] = q[i]
    <3> TAKE i \in 1..(n - 1)
    <3>1. i \in 1..(Len(c) + Len(b)) /\ i <= Len(c) /\ i \in 1..(Len(a) + 1) /\ i <= Len(a)
      BY <1>1, <1>2, <1>3, <2>4
    <3> QED BY <3>1, <2>3, <2>2, <1>2
  <2>6. r[n] = t
    <3>1. n \in 1..(Len(c) + Len(b)) /\ n <= Len(c) /\ n \in 1..(Len(a) + 1) /\ ~(n <= Len(a)) /\ n - Len(a) = 1
      BY <1>1, <1>2, <1>3, <2>4
    <3> QED BY <3>1, <2>3, <2>2, <2>1
  <2>7. \A i \in n..len : r[i + 1] = q[i]
    <3> TAKE i \in n..len
    <3>1. i + 1 \in 1..(Len(c) + Len(b)) /\ ~(i + 1 <= Len(c)) /\ (i + 1) - Len(c) = i + 1 - n
      BY <1>1, <1>3, <2>4
    <3>2. i + 1 - n \in 1..(len - n + 1) /\ n + (i + 1 - n) - 1 = i BY <1>1
    <3>3. r[i + 1] = b[i + 1 - n] BY <3>1, <2>3
    <3>4. b[i + 1 - n] = q[n + (i + 1 - n) - 1] BY <3>2, <1>3
    <3> QED BY <3>2, <3>3, <3>4
  <2>8. DOMAIN r = 1..(len + 1) BY <2>3, <2>4
  <2> QED BY <2>3, <2>5, <2>6, <2>7, <2>8
<1> QED BY <1>5 DEF r, len

LEMMA InsertList ==
  ASSUME NEW S, NEW q \in Seq(S), NEW t \in S, NEW n \in 1..(Len(q) + 1)
  PROVE  /\ InsertAt(q, n, t) \in Seq(S)
         /\ ToSet(InsertAt(q, n, t)) = ToSet(q) \cup {t}
         /\ NoDup(q) /\ t \notin ToSet(q) => NoDup(InsertAt(q, n, t))
<1> DEFINE len == Len(q)
           r == InsertAt(q, n, t)
<1>1. len \in Nat /\ n \in 1..(len + 1) /\ DOMAIN q = 1..len OBVIOUS
<1>2. /\ r \in Seq(S) /\ DOMAIN r = 1..(len + 1)
      /\ \A i \in 1..(n - 1) : r[i] = q[i]
      /\ r[n] = t
      /\ \A i \in n..len : r[i + 1] = q[i]
  BY InsertPositions
<1> HIDE DEF r, len
<1>3. \A i \in DOMAIN r : i # n =>
        \E j \in DOMAIN q : r[i] = q[j] /\ i = IF j < n THEN j ELSE j + 1
  <2> SUFFICES ASSUME NEW i \in DOMAIN r, i # n
               PROVE  \E j \in DOMAIN q : r[i] = q[j] /\ i = IF j < n THEN j ELSE j + 1
    OBVIOUS
  <2>1. CASE i < n
    <3>1. i \in DOMAIN q /\ r[i] = q[i] BY <2>1, <1>1, <1>2
    <3> QED BY <3>1, <2>1
  <2>2. CASE i > n
    <3>1. i - 1 \in DOMAIN q /\ r[(i - 1) + 1] = q[i - 1] /\ (i - 1) + 1 = i /\ ~(i - 1 < n)
      BY <2>2, <1>1, <1>2
    <3> QED BY <3>1
  <2>3. i \in Int /\ n \in Int BY <1>1, <1>2
  <2> QED BY <2>1, <2>2, <2>3
<1>4. ToSet(r) \subseteq ToSet(q) \cup {t}
  BY <1>2, <1>3 DEF ToSet
<1>5. ToSet(q) \cup {t} \subseteq ToSet(r)
  <2>1. t \in ToSet(r)
    <3>1. n \in DOMAIN r BY <1>1, <1>2
    <3> QED BY <3>1, <1>2 DEF ToSet
  <2>2. ASSUME NEW i \in DOMAIN q PROVE q[i] \in ToSet(r)
    <3>1. CASE i < n
      <4>1. i \in DOMAIN r /\ r[i] = q[i] BY <3>1, <1>1, <1>2
      <4> QED BY <4>1 DEF ToSet
    <3>2. CASE ~(i < n)
      <4>1. i + 1 \in DOMAIN r /\ r[i + 1] = q[i] BY <3>2, <1>1, <1>2
      <4> QED BY <4>1 DEF ToSet
    <3> QED BY <3>1, <3>2
  <2> QED BY <2>1, <2>2 DEF ToSet
<1>6. ASSUME NoDup(q), t \notin ToSet(q), NEW i \in DOMAIN r, NEW j \in DOMAIN r, r[i] = r[j]
      PROVE  i = j
  <2>1. \A m \in DOMAIN q : q[m] # t BY <1>6 DEF ToSet
  <2>2. CASE i = n \/ j = n BY <2>1, <2>2, <1>2, <1>3, <1>6
  <2>3. CASE i # n /\ j # n BY <2>3, <1>3, <1>6 DEF NoDup
  <2> QED BY <2>2, <2>3
<1> QED BY <1>2, <1>4, <1>5, <1>6 DEF NoDup, r

-----------------------------------------------------------------------------
(* The invariant of the kernel's lists, and what of it a thread can see.   *)

On(s, l) == ToSet(s.list[l])
Off(s, t) == \A l \in ListHead : t \notin On(s, l)
Timed(s) == ToSet(s.timers)

\* No node is on two lists, or twice on one.
Apart(s) ==
  /\ \A l \in ListHead : NoDup(s.list[l])
  /\ \A l, m \in ListHead : On(s, l) \cap On(s, m) # {} => l = m
  /\ NoDup(s.timers)

\* A thread is on a list, or has a timer, only in the state that goes with it.
Placed(s) ==
  \A t \in Thread :
    /\ \A p \in Prio : t \in On(s, p) => s.stat[t] = "READY" /\ s.prio[t] = p
    /\ \A w \in WaitList : t \in On(s, w) => s.stat[t] = "SUSPEND"
    /\ t \in On(s, Defunct) => s.stat[t] = "CLOSE"
    /\ t \in Timed(s) => s.stat[t] = "SUSPEND"

Bitmap(s) == s.group = {p \in Prio : s.list[p] # <<>>}

KernelOK(s) ==
  /\ s \in KernelState
  /\ Apart(s)
  /\ Placed(s)
  /\ Bitmap(s)
  /\ Idle \in On(s, IdlePrio)

\* Apart from t, every thread is where it was, in the state it was in.
Frame(s, r, t) ==
  \A u \in Thread \ {t} :
    /\ r.stat[u] = s.stat[u]
    /\ Off(r, u) <=> Off(s, u)
    /\ u \in Timed(r) <=> u \in Timed(s)

\* What happened to the processor: nothing, or a ready thread was chosen.
Kept(s, r) == r.cur = s.cur /\ r.nest = s.nest
Chosen(s, r) ==
  /\ r.nest = s.nest
  /\ \/ r.cur = s.cur /\ s.nest > 0
     \/ s.nest = 0 /\ r.cur \in Thread /\ r.stat[r.cur] = "READY" /\ ~Off(r, r.cur)

\* Every field of a state has its type.
LEMMA KernelFields ==
  ASSUME NEW s \in KernelState
  PROVE  /\ s.stat \in [Thread -> Stat] /\ s.prio \in [Thread -> Prio]
         /\ s.init \in [Thread -> Prio] /\ s.err \in [Thread -> Error]
         /\ s.slice \in [Thread -> 1..InitTick]
         /\ s.list \in [ListHead -> Seq(Thread)] /\ s.group \in SUBSET Prio
         /\ s.cur \in Thread \cup {NoThread} /\ s.nest \in Nat
         /\ s.timers \in Seq(Thread) /\ s.left \in [Thread -> Nat]
  BY DEF KernelState

\* rt_list_remove unlinks one node and touches nothing else.
LEMMA UnlinkNode ==
  ASSUME NEW s \in KernelState, Apart(s), NEW t \in Thread
  PROVE  LET r == rt_list_remove(s, t)
         IN  /\ r \in KernelState
             /\ r = [s EXCEPT !.list = r.list]
             /\ Apart(r)
             /\ \A l \in ListHead : On(r, l) = On(s, l) \ {t}
             /\ \A l \in ListHead : r.list[l] = <<>> <=> On(r, l) = {}
<1> DEFINE r == rt_list_remove(s, t)
           f == [l \in ListHead |-> Without(s.list[l], t)]
<1>1. s.list \in [ListHead -> Seq(Thread)] BY KernelFields
<1>2. ASSUME NEW l \in ListHead
      PROVE  f[l] \in Seq(Thread) /\ ToSet(f[l]) = On(s, l) \ {t} /\ NoDup(f[l])
  <2>1. s.list[l] \in Seq(Thread) /\ NoDup(s.list[l]) BY <1>1 DEF Apart
  <2>2. f[l] = Without(s.list[l], t) OBVIOUS
  <2> HIDE DEF f
  <2> QED BY <2>1, <2>2, RemoveList DEF On
<1>3. f \in [ListHead -> Seq(Thread)] BY <1>2
<1>4. r = [s EXCEPT !.list = f] BY DEF rt_list_remove
<1> HIDE DEF r, f
<1>5. r.list = f /\ r.timers = s.timers BY <1>4 DEF KernelState
<1>6. r \in KernelState BY <1>3, <1>4 DEF KernelState
<1>7. \A l \in ListHead : On(r, l) = On(s, l) \ {t} BY <1>2, <1>5 DEF On
<1>8. Apart(r)
  <2>1. \A l \in ListHead : NoDup(r.list[l]) BY <1>2, <1>5
  <2>2. \A l, m \in ListHead : On(r, l) \cap On(r, m) # {} => l = m BY <1>7 DEF Apart
  <2> QED BY <2>1, <2>2, <1>5 DEF Apart
<1>9. \A l \in ListHead : r.list[l] = <<>> <=> On(r, l) = {}
  <2> TAKE l \in ListHead
  <2>1. r.list[l] \in Seq(Thread) BY <1>3, <1>5
  <2> QED BY <2>1, EmptyList DEF On
<1> QED BY <1>4, <1>5, <1>6, <1>7, <1>8, <1>9 DEF r

\* What a state has in common with one that differs in fields no list depends on.
LEMMA Cosmetic ==
  ASSUME NEW s, KernelOK(s), NEW r \in KernelState,
         r.list = s.list, r.stat = s.stat, r.group = s.group, r.timers = s.timers,
         \A t \in Thread : s.stat[t] = "READY" => r.prio[t] = s.prio[t]
  PROVE  KernelOK(r) /\ \A t : Frame(s, r, t) /\ (Off(r, t) <=> Off(s, t)) /\ Timed(r) = Timed(s)
<1>1. \A l \in ListHead : On(r, l) = On(s, l) BY DEF On
<1>2. Timed(r) = Timed(s) BY DEF Timed
<1>3. Apart(r) BY <1>1 DEF Apart, KernelOK
<1>4. Placed(r) BY <1>1, <1>2 DEF Placed, KernelOK, ListHead
<1>5. Bitmap(r) BY DEF Bitmap, KernelOK
<1>6. IdlePrio \in ListHead BY BoundAssumption DEF IdlePrio, ListHead, Prio
<1>7. KernelOK(r) BY <1>1, <1>3, <1>4, <1>5, <1>6 DEF KernelOK
<1> QED BY <1>1, <1>2, <1>7 DEF Frame, Off

\* An off-list thread may take any state and priority its timer allows.
LEMMA Restate ==
  ASSUME NEW s, KernelOK(s), NEW t \in Thread, Off(s, t), NEW r \in KernelState,
         r.list = s.list, r.group = s.group, r.timers = s.timers,
         \A u \in Thread \ {t} : r.stat[u] = s.stat[u] /\ r.prio[u] = s.prio[u],
         t \in Timed(s) => r.stat[t] = "SUSPEND"
  PROVE  KernelOK(r) /\ Frame(s, r, t) /\ Off(r, t) /\ Timed(r) = Timed(s)
<1>1. \A l \in ListHead : On(r, l) = On(s, l) BY DEF On
<1>2. Timed(r) = Timed(s) BY DEF Timed
<1>3. Apart(r) BY <1>1 DEF Apart, KernelOK
<1>4. Placed(r)
  <2> SUFFICES ASSUME NEW u \in Thread
               PROVE  /\ \A p \in Prio : u \in On(r, p) => r.stat[u] = "READY" /\ r.prio[u] = p
                      /\ \A w \in WaitList : u \in On(r, w) => r.stat[u] = "SUSPEND"
                      /\ u \in On(r, Defunct) => r.stat[u] = "CLOSE"
                      /\ u \in Timed(r) => r.stat[u] = "SUSPEND"
    BY DEF Placed
  <2>1. CASE u = t BY <1>1, <1>2, <2>1 DEF Off, ListHead
  <2>2. CASE u # t BY <1>1, <1>2, <2>2 DEF Placed, KernelOK, ListHead
  <2> QED BY <2>1, <2>2
<1>5. Bitmap(r) BY DEF Bitmap, KernelOK
<1>6. IdlePrio \in ListHead BY BoundAssumption DEF IdlePrio, ListHead, Prio
<1>7. KernelOK(r) BY <1>1, <1>3, <1>4, <1>5, <1>6 DEF KernelOK
<1> QED BY <1>1, <1>2, <1>7 DEF Frame, Off

\* rt_schedule_insert_thread, of a thread that is on no list and has no timer.
LEMMA InsertThread ==
  ASSUME NEW s, KernelOK(s), NEW t \in Thread, Off(s, t), t \notin Timed(s)
  PROVE  LET r == rt_schedule_insert_thread(s, t)
         IN  /\ KernelOK(r) /\ Frame(s, r, t) /\ Kept(s, r)
             /\ r.stat[t] = "READY" /\ ~Off(r, t) /\ t \notin Timed(r)
<1> DEFINE r == rt_schedule_insert_thread(s, t)
           p == s.prio[t]
<1> USE DEF KernelOK
<1>1. /\ s.stat \in [Thread -> Stat] /\ s.list \in [ListHead -> Seq(Thread)]
      /\ s.prio \in [Thread -> Prio] /\ s.group \in SUBSET Prio
      /\ p \in Prio /\ p \in ListHead
  BY KernelFields DEF ListHead
<1> DEFINE q == Append(s.list[p], t)
<1>2. q \in Seq(Thread) /\ ToSet(q) = On(s, p) \cup {t} /\ q # <<>> /\ NoDup(q)
  <2>1. s.list[p] \in Seq(Thread) /\ NoDup(s.list[p]) /\ t \notin ToSet(s.list[p])
    BY <1>1 DEF Apart, Off, On
  <2> QED BY <2>1, AppendList DEF On
<1> HIDE DEF q
<1>3. r = [s EXCEPT !.stat = [s.stat EXCEPT ![t] = "READY"],
                    !.list = [s.list EXCEPT ![p] = q],
                    !.group = s.group \cup {p}]
  BY DEF rt_schedule_insert_thread, q, KernelState
<1>4. /\ r.stat = [s.stat EXCEPT ![t] = "READY"] /\ r.list = [s.list EXCEPT ![p] = q]
      /\ r.group = s.group \cup {p}
      /\ r.timers = s.timers /\ r.cur = s.cur /\ r.nest = s.nest /\ r.prio = s.prio
  BY <1>3 DEF KernelState
<1>5. r \in KernelState
  <2>1. [s.stat EXCEPT ![t] = "READY"] \in [Thread -> Stat] BY <1>1 DEF Stat
  <2>2. [s.list EXCEPT ![p] = q] \in [ListHead -> Seq(Thread)] BY <1>1, <1>2
  <2>3. s.group \cup {p} \in SUBSET Prio BY <1>1
  <2> HIDE DEF r
  <2> QED BY <1>3, <2>1, <2>2, <2>3 DEF KernelState
<1> HIDE DEF r
<1>6. \A l \in ListHead : On(r, l) = IF l = p THEN On(s, l) \cup {t} ELSE On(s, l)
  BY <1>1, <1>2, <1>4 DEF On
<1>7. Timed(r) = Timed(s) BY <1>4 DEF Timed
<1>8. Apart(r)
  <2>1. \A l \in ListHead : NoDup(r.list[l]) BY <1>1, <1>2, <1>4 DEF Apart
  <2>2. \A l, m \in ListHead : On(r, l) \cap On(r, m) # {} => l = m BY <1>6 DEF Apart, Off
  <2> QED BY <2>1, <2>2, <1>4 DEF Apart
<1>9. Placed(r)
  <2> SUFFICES ASSUME NEW u \in Thread
               PROVE  /\ \A x \in Prio : u \in On(r, x) => r.stat[u] = "READY" /\ r.prio[u] = x
                      /\ \A w \in WaitList : u \in On(r, w) => r.stat[u] = "SUSPEND"
                      /\ u \in On(r, Defunct) => r.stat[u] = "CLOSE"
                      /\ u \in Timed(r) => r.stat[u] = "SUSPEND"
    BY DEF Placed
  <2>1. CASE u = t
    <3>1. \A l \in ListHead : u \in On(r, l) => l = p BY <1>6, <2>1 DEF Off
    <3>2. r.stat[u] = "READY" /\ r.prio[u] = p BY <1>1, <1>4, <2>1
    <3> QED BY <3>1, <3>2, <1>1, <1>7, <2>1, ListAssumption DEF ListHead
  <2>2. CASE u # t
    <3>1. \A l \in ListHead : u \in On(r, l) => u \in On(s, l) BY <1>6, <2>2
    <3>2. r.stat[u] = s.stat[u] /\ r.prio[u] = s.prio[u] BY <1>1, <1>4, <2>2
    <3> QED BY <3>1, <3>2, <1>7 DEF Placed, ListHead
  <2> QED BY <2>1, <2>2
<1>10. Bitmap(r)
  <2>1. \A x \in Prio : r.list[x] # <<>> <=> (x = p \/ s.list[x] # <<>>)
    BY <1>1, <1>2, <1>4 DEF ListHead
  <2> QED BY <2>1, <1>1, <1>4 DEF Bitmap
<1>11. Idle \in On(r, IdlePrio)
  <2>1. IdlePrio \in ListHead BY BoundAssumption DEF IdlePrio, ListHead, Prio
  <2> QED BY <2>1, <1>6
<1>12. Frame(s, r, t)
  <2> SUFFICES ASSUME NEW u \in Thread \ {t}
               PROVE  r.stat[u] = s.stat[u] /\ (Off(r, u) <=> Off(s, u))
    BY <1>7 DEF Frame
  <2>1. \A l \in ListHead : u \in On(r, l) <=> u \in On(s, l) BY <1>6
  <2> QED BY <2>1, <1>1, <1>4 DEF Off
<1>13. r.stat[t] = "READY" /\ ~Off(r, t) BY <1>1, <1>4, <1>6 DEF Off
<1> QED BY <1>4, <1>5, <1>7, <1>8, <1>9, <1>10, <1>11, <1>12, <1>13 DEF Kept, r

\* rt_schedule_remove_thread, of a thread other than the idle thread that is
\* given the state q in the same region.
LEMMA RemoveThread ==
  ASSUME NEW s, KernelOK(s), NEW t \in Thread \ {Idle}, NEW q \in Stat,
         t \in Timed(s) => q = "SUSPEND"
  PROVE  LET r == rt_schedule_remove_thread([s EXCEPT !.stat[t] = q], t)
         IN  /\ KernelOK(r) /\ Frame(s, r, t) /\ Kept(s, r)
             /\ r.stat[t] = q /\ Off(r, t) /\ Timed(r) = Timed(s) /\ r.prio = s.prio
<1> DEFINE a == [s EXCEPT !.stat[t] = q]
           b == rt_list_remove(a, t)
           r == rt_schedule_remove_thread([s EXCEPT !.stat[t] = q], t)
           p == s.prio[t]
<1> USE DEF KernelOK
<1>1. /\ s.stat \in [Thread -> Stat] /\ s.list \in [ListHead -> Seq(Thread)]
      /\ s.prio \in [Thread -> Prio] /\ s.group \in SUBSET Prio
      /\ p \in Prio /\ p \in ListHead
  BY KernelFields DEF ListHead
<1>2. /\ a.stat = [s.stat EXCEPT ![t] = q] /\ a.list = s.list /\ a.group = s.group
      /\ a.timers = s.timers /\ a.cur = s.cur /\ a.nest = s.nest /\ a.prio = s.prio
  BY DEF KernelState
<1>3. a \in KernelState
  <2>1. [s.stat EXCEPT ![t] = q] \in [Thread -> Stat] BY <1>1
  <2>2. a = [s EXCEPT !.stat = [s.stat EXCEPT ![t] = q]] BY DEF KernelState
  <2> HIDE DEF a
  <2> QED BY <2>1, <2>2 DEF KernelState
<1>4. Apart(a) BY <1>2 DEF Apart, On
<1> HIDE DEF a
<1>5. /\ b \in KernelState /\ b = [a EXCEPT !.list = b.list] /\ Apart(b)
      /\ \A l \in ListHead : On(b, l) = On(s, l) \ {t}
      /\ \A l \in ListHead : b.list[l] = <<>> <=> On(b, l) = {}
  <2>1. \A l : On(a, l) = On(s, l) BY <1>2 DEF On
  <2> HIDE DEF b
  <2> QED BY <1>3, <1>4, <2>1, UnlinkNode DEF b
<1> HIDE DEF b
<1>6. b.stat = a.stat /\ b.prio = s.prio /\ b.group = s.group /\ b.timers = s.timers
      /\ b.cur = s.cur /\ b.nest = s.nest
  BY <1>2, <1>3, <1>5 DEF KernelState
<1>7. r = [b EXCEPT !.group = IF b.list[p] = <<>> THEN s.group \ {p} ELSE s.group]
  BY <1>2, <1>6 DEF rt_schedule_remove_thread, a, b
<1>8. /\ r \in KernelState /\ r.list = b.list /\ r.stat = a.stat /\ r.prio = s.prio
      /\ r.timers = s.timers /\ r.cur = s.cur /\ r.nest = s.nest
      /\ r.group = IF b.list[p] = <<>> THEN s.group \ {p} ELSE s.group
  <2>1. (IF b.list[p] = <<>> THEN s.group \ {p} ELSE s.group) \in SUBSET Prio BY <1>1
  <2> HIDE DEF r
  <2> QED BY <1>5, <1>6, <1>7, <2>1 DEF KernelState
<1> HIDE DEF r
<1>9. \A l \in ListHead : On(r, l) = On(s, l) \ {t} BY <1>5, <1>8 DEF On
<1>10. Apart(r) BY <1>5, <1>6, <1>8 DEF Apart, On
<1>11. Timed(r) = Timed(s) BY <1>8 DEF Timed
<1>12. r.stat[t] = q /\ Off(r, t) BY <1>1, <1>2, <1>8, <1>9 DEF Off
<1>13. Placed(r)
  <2> SUFFICES ASSUME NEW u \in Thread
               PROVE  /\ \A x \in Prio : u \in On(r, x) => r.stat[u] = "READY" /\ r.prio[u] = x
                      /\ \A w \in WaitList : u \in On(r, w) => r.stat[u] = "SUSPEND"
                      /\ u \in On(r, Defunct) => r.stat[u] = "CLOSE"
                      /\ u \in Timed(r) => r.stat[u] = "SUSPEND"
    BY DEF Placed
  <2>1. CASE u = t BY <1>11, <1>12, <2>1 DEF Off, ListHead
  <2>2. CASE u # t
    <3>1. \A l \in ListHead : u \in On(r, l) => u \in On(s, l) BY <1>9
    <3>2. r.stat[u] = s.stat[u] /\ r.prio[u] = s.prio[u] BY <1>1, <1>2, <1>8, <2>2
    <3> QED BY <3>1, <3>2, <1>11 DEF Placed, ListHead
  <2> QED BY <2>1, <2>2
<1>14. Bitmap(r)
  <2>1. ASSUME NEW x \in Prio PROVE x \in r.group <=> r.list[x] # <<>>
    <3>1. x \in ListHead /\ s.list[x] \in Seq(Thread) BY <1>1 DEF ListHead
    <3>2. x \in s.group <=> On(s, x) # {} BY <3>1, EmptyList DEF Bitmap, On
    <3>3. r.list[x] # <<>> <=> On(s, x) \ {t} # {} BY <3>1, <1>5, <1>8
    <3>4. x # p => t \notin On(s, x) BY DEF Placed
    <3>5. CASE x = p BY <3>5, <3>2, <3>3, <1>8
    <3>6. CASE x # p BY <3>6, <3>2, <3>3, <3>4, <1>8
    <3> QED BY <3>5, <3>6
  <2>2. r.group \in SUBSET Prio BY <1>8, KernelFields
  <2> QED BY <2>1, <2>2 DEF Bitmap
<1>15. Idle \in On(r, IdlePrio)
  <2>1. IdlePrio \in ListHead BY BoundAssumption DEF IdlePrio, ListHead, Prio
  <2> QED BY <2>1, <1>9
<1>16. Frame(s, r, t)
  <2> SUFFICES ASSUME NEW u \in Thread \ {t}
               PROVE  r.stat[u] = s.stat[u] /\ (Off(r, u) <=> Off(s, u))
    BY <1>11 DEF Frame
  <2>1. \A l \in ListHead : u \in On(r, l) <=> u \in On(s, l) BY <1>9
  <2> QED BY <2>1, <1>1, <1>2, <1>8 DEF Off
<1>17. /\ KernelOK(r) /\ Frame(s, r, t) /\ Kept(s, r)
       /\ r.stat[t] = q /\ Off(r, t) /\ Timed(r) = Timed(s) /\ r.prio = s.prio
  BY <1>8, <1>10, <1>11, <1>12, <1>13, <1>14, <1>15, <1>16 DEF Kept
<1> HIDE DEF KernelOK
<1> QED BY <1>17 DEF r

\* rt_list_remove, of a thread that is not in the ready table.
LEMMA UnlinkWaiting ==
  ASSUME NEW s, KernelOK(s), NEW t \in Thread, s.stat[t] # "READY"
  PROVE  LET r == rt_list_remove(s, t)
         IN  /\ KernelOK(r) /\ Frame(s, r, t) /\ Kept(s, r)
             /\ r.stat[t] = s.stat[t] /\ Off(r, t) /\ Timed(r) = Timed(s)
<1> DEFINE r == rt_list_remove(s, t)
<1> USE DEF KernelOK
<1>1. /\ r \in KernelState /\ r = [s EXCEPT !.list = r.list] /\ Apart(r)
      /\ \A l \in ListHead : On(r, l) = On(s, l) \ {t}
      /\ \A l \in ListHead : r.list[l] = <<>> <=> On(r, l) = {}
  BY UnlinkNode
<1> HIDE DEF r
<1>2. r.stat = s.stat /\ r.prio = s.prio /\ r.group = s.group /\ r.timers = s.timers
      /\ r.cur = s.cur /\ r.nest = s.nest
  BY <1>1 DEF KernelState
<1>3. Timed(r) = Timed(s) BY <1>2 DEF Timed
<1>4. Off(r, t) BY <1>1 DEF Off
<1>5. Placed(r) BY <1>1, <1>2, <1>3 DEF Placed, ListHead
<1>6. Bitmap(r)
  <2>1. ASSUME NEW x \in Prio PROVE r.list[x] # <<>> <=> s.list[x] # <<>>
    <3>1. x \in ListHead /\ s.list[x] \in Seq(Thread) BY KernelFields DEF ListHead
    <3>2. t \notin On(s, x) BY DEF Placed
    <3>3. s.list[x] = <<>> <=> On(s, x) = {} BY <3>1, EmptyList DEF On
    <3> QED BY <3>1, <3>2, <3>3, <1>1
  <2> QED BY <2>1, <1>2 DEF Bitmap
<1>7. Idle \in On(r, IdlePrio)
  <2>1. IdlePrio \in ListHead /\ IdlePrio \in Prio
    BY BoundAssumption DEF IdlePrio, ListHead, Prio
  <2>2. s.stat[Idle] = "READY" BY <2>1, ThreadAssumption DEF Placed
  <2> QED BY <2>1, <2>2, <1>1
<1>8. Frame(s, r, t) BY <1>1, <1>2, <1>3 DEF Frame, Off
<1> QED BY <1>1, <1>2, <1>3, <1>4, <1>5, <1>6, <1>7, <1>8 DEF Kept, r

\* A state that differs in its timers only.
LEMMA Retime ==
  ASSUME NEW s, KernelOK(s), NEW t \in Thread, NEW r \in KernelState,
         r.list = s.list, r.group = s.group, r.stat = s.stat, r.prio = s.prio,
         NoDup(r.timers), Timed(r) \ {t} = Timed(s) \ {t},
         t \in Timed(r) => s.stat[t] = "SUSPEND"
  PROVE  KernelOK(r) /\ Frame(s, r, t) /\ (Off(r, t) <=> Off(s, t))
<1> USE DEF KernelOK
<1>1. \A l \in ListHead : On(r, l) = On(s, l) BY DEF On
<1>2. Apart(r) BY <1>1 DEF Apart
<1>3. Placed(r) BY <1>1 DEF Placed, ListHead
<1>4. Bitmap(r) BY DEF Bitmap
<1>5. IdlePrio \in ListHead BY BoundAssumption DEF IdlePrio, ListHead, Prio
<1> QED BY <1>1, <1>2, <1>3, <1>4, <1>5 DEF Frame, Off

\* rt_timer_stop.
LEMMA TimerStop ==
  ASSUME NEW s, KernelOK(s), NEW t \in Thread
  PROVE  LET r == rt_timer_stop(s, t)
         IN  /\ KernelOK(r) /\ Frame(s, r, t) /\ Kept(s, r)
             /\ r.stat = s.stat /\ (Off(r, t) <=> Off(s, t)) /\ t \notin Timed(r)
<1> DEFINE r == rt_timer_stop(s, t)
           q == Without(s.timers, t)
<1> USE DEF KernelOK
<1>1. q \in Seq(Thread) /\ ToSet(q) = Timed(s) \ {t} /\ NoDup(q)
  BY KernelFields, RemoveList DEF Apart, Timed
<1> HIDE DEF q
<1>2. r = [s EXCEPT !.timers = q, !.left = [s.left EXCEPT ![t] = 0]]
  BY DEF rt_timer_stop, q, KernelState
<1>3. [s.left EXCEPT ![t] = 0] \in [Thread -> Nat] BY KernelFields
<1>4. /\ r.list = s.list /\ r.group = s.group /\ r.stat = s.stat /\ r.prio = s.prio
      /\ r.cur = s.cur /\ r.nest = s.nest /\ r.timers = q
  BY <1>2 DEF KernelState
<1>5. r \in KernelState
  <2> HIDE DEF r
  <2> QED BY <1>1, <1>2, <1>3 DEF KernelState
<1> HIDE DEF r
<1>6. Timed(r) = Timed(s) \ {t} BY <1>1, <1>4 DEF Timed
<1>7. KernelOK(r) /\ Frame(s, r, t) /\ (Off(r, t) <=> Off(s, t))
  BY <1>1, <1>4, <1>5, <1>6, Retime
<1> QED BY <1>4, <1>6, <1>7 DEF Kept, r

\* rt_timer_start, of the timer of a suspended thread.
LEMMA TimerStart ==
  ASSUME NEW s, KernelOK(s), NEW t \in Thread, s.stat[t] = "SUSPEND", NEW n \in Nat
  PROVE  LET r == rt_timer_start(s, t, n)
         IN  /\ KernelOK(r) /\ Frame(s, r, t) /\ Kept(s, r)
             /\ r.stat = s.stat /\ (Off(r, t) <=> Off(s, t)) /\ t \in Timed(r)
<1> DEFINE r == rt_timer_start(s, t, n)
           q == Without(s.timers, t)
           J == {j \in DOMAIN q : s.left[q[j]] <= n}
           i == Cardinality(J) + 1
           v == InsertAt(q, i, t)
<1> USE DEF KernelOK
<1>1. q \in Seq(Thread) /\ ToSet(q) = Timed(s) \ {t} /\ NoDup(q)
  BY KernelFields, RemoveList DEF Apart, Timed
<1> HIDE DEF q
<1>2. i \in 1..(Len(q) + 1)
  <2>1. DOMAIN q = 1..Len(q) /\ Len(q) \in Nat BY <1>1
  <2>2. IsFiniteSet(1..Len(q)) /\ Cardinality(1..Len(q)) = Len(q)
    <3>1. ASSUME NEW m \in Nat PROVE IsFiniteSet(1..m) /\ Cardinality(1..m) = m
      <4>1. /\ IsFiniteSet(1..m)
            /\ Cardinality(1..m) = IF 1 > m THEN 0 ELSE m - 1 + 1
        BY FS_Interval
      <4> QED BY <4>1
    <3> QED BY <2>1, <3>1
  <2>3. J \subseteq 1..Len(q) BY <2>1
  <2> HIDE DEF J
  <2>4. IsFiniteSet(J) /\ Cardinality(J) <= Len(q)
    BY <2>2, <2>3, FS_Subset
  <2>5. Cardinality(J) \in Nat BY <2>4, FS_CardinalityType
  <2> QED BY <2>1, <2>4, <2>5
<1> HIDE DEF i
<1>3. v \in Seq(Thread) /\ ToSet(v) = Timed(s) \cup {t} /\ NoDup(v)
  BY <1>1, <1>2, InsertList
<1> HIDE DEF v
<1>4. r = [s EXCEPT !.timers = v, !.left = [s.left EXCEPT ![t] = n]]
  BY DEF rt_timer_start, q, i, v, KernelState
<1>5. [s.left EXCEPT ![t] = n] \in [Thread -> Nat] BY KernelFields
<1>6. /\ r.list = s.list /\ r.group = s.group /\ r.stat = s.stat /\ r.prio = s.prio
      /\ r.cur = s.cur /\ r.nest = s.nest /\ r.timers = v
  BY <1>4 DEF KernelState
<1> HIDE DEF r
<1>7. r \in KernelState BY <1>3, <1>4, <1>5 DEF KernelState
<1>8. Timed(r) = Timed(s) \cup {t} BY <1>3, <1>6 DEF Timed
<1>9. KernelOK(r) /\ Frame(s, r, t) /\ (Off(r, t) <=> Off(s, t))
  BY <1>3, <1>6, <1>7, <1>8, Retime
<1> QED BY <1>6, <1>8, <1>9 DEF Kept, r

-----------------------------------------------------------------------------
(* The calls of the kernel: each is a chain of the operators above,        *)
(* applied with interrupts disabled.                                       *)

\* Every thread is where it was.
Still(s, r) ==
  \A u \in Thread :
    /\ r.stat[u] = s.stat[u]
    /\ Off(r, u) <=> Off(s, u)
    /\ u \in Timed(r) <=> u \in Timed(s)

\* The idle thread is ready and queued.
LEMMA IdleReady ==
  ASSUME NEW s, KernelOK(s)
  PROVE  s.stat[Idle] = "READY" /\ ~Off(s, Idle) /\ Idle \notin Timed(s)
<1>1. IdlePrio \in Prio /\ IdlePrio \in ListHead
  BY BoundAssumption DEF IdlePrio, ListHead, Prio
<1> QED BY <1>1, ThreadAssumption DEF KernelOK, Placed, Off

\* Every set of priorities has a highest one.
LEMMA Minimum ==
  ASSUME NEW T \in SUBSET Nat, T # {}
  PROVE  \E x \in T : \A y \in T : x <= y
<1> DEFINE U == {0..x : x \in T}
           R == StrictSubsetOrdering(Nat)
<1>1. U \subseteq FiniteSubsetsOf(Nat) /\ U # {}
  <2> SUFFICES ASSUME NEW x \in T PROVE IsFiniteSet(0..x) /\ 0..x \in SUBSET Nat
    BY DEF FiniteSubsetsOf
  <2> QED BY FS_Interval
<1>2. IsWellFoundedOn(R, FiniteSubsetsOf(Nat)) BY FS_StrictSubsetOrderingWellFounded
<1> HIDE DEF U, R
<1>3. PICK u \in U : \A v \in U : ~(<<v, u>> \in R)
  BY <1>1, <1>2, WFMin
<1> USE DEF U, R
<1>4. PICK x \in T : u = 0..x BY <1>3
<1>5. ASSUME NEW y \in T, y < x PROVE FALSE
  <2>1. /\ 0..y \in U /\ 0..y \subseteq u /\ x \in u /\ x \notin 0..y
        /\ u \in SUBSET Nat /\ 0..y \in SUBSET Nat
    BY <1>4, <1>5
  <2>2. <<0..y, u>> \in R BY <2>1 DEF StrictSubsetOrdering
  <2> QED BY <2>1, <2>2, <1>3
<1> QED BY <1>5

\* The first thread of the highest queue exists, is READY and is queued.
LEMMA HighestReady ==
  ASSUME NEW s, KernelOK(s)
  PROVE  LET t == Head(s.list[Highest(s)])
         IN  t \in Thread /\ s.stat[t] = "READY" /\ ~Off(s, t)
<1> DEFINE p == Highest(s)
           t == Head(s.list[p])
<1> USE DEF KernelOK
<1>1. s.group \in SUBSET Prio /\ \A q \in Prio : s.list[q] \in Seq(Thread)
  BY KernelFields DEF ListHead
<1>2. s.group # {}
  <2>1. IdlePrio \in Prio BY BoundAssumption DEF IdlePrio, Prio
  <2>2. s.list[IdlePrio] # <<>> BY <2>1, <1>1, EmptyList DEF On
  <2> QED BY <2>1, <2>2 DEF Bitmap
<1>3. \E q \in s.group : \A x \in s.group : q <= x
  BY <1>1, <1>2, Minimum DEF Prio
<1>4. p \in s.group BY <1>3 DEF Highest
<1> HIDE DEF p
<1>5. p \in Prio /\ s.list[p] # <<>> BY <1>4, <1>1 DEF Bitmap
<1>6. t \in On(s, p) /\ t \in Thread BY <1>5, <1>1, EmptyList DEF On
<1>7. s.stat[t] = "READY" /\ ~Off(s, t) BY <1>5, <1>6 DEF Placed, Off, ListHead
<1> QED BY <1>6, <1>7 DEF p

\* A state that differs in the processor only.
LEMMA SwitchTo ==
  ASSUME NEW s, KernelOK(s), NEW t \in Thread
  PROVE  LET r == [s EXCEPT !.cur = t]
         IN  KernelOK(r) /\ Still(s, r) /\ r.cur = t /\ r.nest = s.nest /\ r.timers = s.timers
<1> DEFINE r == [s EXCEPT !.cur = t]
<1>1. r \in KernelState BY DEF KernelOK, KernelState
<1>2. /\ r.list = s.list /\ r.stat = s.stat /\ r.group = s.group /\ r.timers = s.timers
      /\ r.prio = s.prio /\ r.cur = t /\ r.nest = s.nest
  BY DEF KernelOK, KernelState
<1> HIDE DEF r
<1>3. KernelOK(r) /\ \A u : Frame(s, r, u) /\ (Off(r, u) <=> Off(s, u)) /\ Timed(r) = Timed(s)
  BY <1>1, <1>2, Cosmetic
<1> QED BY <1>2, <1>3 DEF Still, r

\* rt_schedule moves the processor and no thread.
LEMMA Dispatch ==
  ASSUME NEW s, KernelOK(s)
  PROVE  LET r == rt_schedule(s)
         IN  KernelOK(r) /\ Still(s, r) /\ Chosen(s, r) /\ r.timers = s.timers
<1> DEFINE r == rt_schedule(s)
           t == Head(s.list[Highest(s)])
<1>1. t \in Thread /\ s.stat[t] = "READY" /\ ~Off(s, t) BY HighestReady
<1> HIDE DEF t
<1>2. s.nest \in Nat BY KernelFields DEF KernelOK
<1>3. CASE s.nest = 0
  <2>1. r = [s EXCEPT !.cur = t] BY <1>3 DEF rt_schedule, t
  <2> HIDE DEF r
  <2>2. KernelOK(r) /\ Still(s, r) /\ r.cur = t /\ r.nest = s.nest /\ r.timers = s.timers
    BY <1>1, <2>1, SwitchTo
  <2>3. Chosen(s, r) BY <1>1, <1>3, <2>2 DEF Chosen, Still
  <2> QED BY <2>2, <2>3 DEF r
<1>4. CASE s.nest # 0
  <2>1. r = s BY <1>4 DEF rt_schedule
  <2>2. Still(s, s) BY DEF Still
  <2>3. Chosen(s, s) BY <1>2, <1>4 DEF Chosen
  <2> QED BY <2>1, <2>2, <2>3
<1> QED BY <1>3, <1>4

\* Two regions that work on the same thread.
LEMMA FrameTrans ==
  ASSUME NEW s, NEW q, NEW r, NEW t, Frame(s, q, t), Frame(q, r, t)
  PROVE  Frame(s, r, t)
BY DEF Frame

\* rt_schedule_remove_thread alone, of a thread whose timer does not run.
LEMMA RemovePlain ==
  ASSUME NEW s, KernelOK(s), NEW t \in Thread \ {Idle}, t \notin Timed(s)
  PROVE  LET r == rt_schedule_remove_thread(s, t)
         IN  /\ KernelOK(r) /\ Frame(s, r, t) /\ Kept(s, r)
             /\ r.stat[t] = s.stat[t] /\ Off(r, t) /\ Timed(r) = Timed(s) /\ r.prio = s.prio
<1> DEFINE q == s.stat[t]
<1>1. q \in Stat BY KernelFields DEF KernelOK
<1>2. [s EXCEPT !.stat[t] = q] = s BY DEF KernelOK, KernelState
<1> HIDE DEF q
<1>3. LET r == rt_schedule_remove_thread([s EXCEPT !.stat[t] = q], t)
      IN  /\ KernelOK(r) /\ Frame(s, r, t) /\ Kept(s, r)
          /\ r.stat[t] = q /\ Off(r, t) /\ Timed(r) = Timed(s) /\ r.prio = s.prio
  BY <1>1, RemoveThread
<1> QED BY <1>2, <1>3 DEF q

\* The region of rt_thread_suspend.
LEMMA SuspendThread ==
  ASSUME NEW s, KernelOK(s), NEW t \in Thread \ {Idle}
  PROVE  LET r == rt_timer_stop(rt_schedule_remove_thread([s EXCEPT !.stat[t] = "SUSPEND"], t), t)
         IN  /\ KernelOK(r) /\ Frame(s, r, t) /\ Kept(s, r)
             /\ r.stat[t] = "SUSPEND" /\ Off(r, t) /\ t \notin Timed(r)
<1> DEFINE q == rt_schedule_remove_thread([s EXCEPT !.stat[t] = "SUSPEND"], t)
           r == rt_timer_stop(q, t)
<1>1. "SUSPEND" \in Stat BY DEF Stat
<1>2. KernelOK(q) /\ Frame(s, q, t) /\ Kept(s, q) /\ q.stat[t] = "SUSPEND" /\ Off(q, t)
  BY <1>1, RemoveThread
<1> HIDE DEF q
<1>3. /\ KernelOK(r) /\ Frame(q, r, t) /\ Kept(q, r)
      /\ r.stat = q.stat /\ (Off(r, t) <=> Off(q, t)) /\ t \notin Timed(r)
  BY <1>2, TimerStop
<1> HIDE DEF r
<1>4. Frame(s, r, t) /\ Kept(s, r) BY <1>2, <1>3, FrameTrans DEF Kept
<1>5. r.stat[t] = "SUSPEND" BY <1>2, <1>3
<1> QED BY <1>2, <1>3, <1>4, <1>5 DEF r, q

\* rt_thread_sleep, of the running thread.
LEMMA SleepThread ==
  ASSUME NEW s, KernelOK(s), NEW t \in Thread \ {Idle}, s.stat[t] = "READY", NEW n \in Nat
  PROVE  LET r == rt_thread_sleep(s, t, n)
         IN  /\ KernelOK(r) /\ Frame(s, r, t) /\ Kept(s, r)
             /\ r.stat[t] = "SUSPEND" /\ Off(r, t)
<1> DEFINE q == rt_timer_stop(rt_schedule_remove_thread([s EXCEPT !.stat[t] = "SUSPEND"], t), t)
           r == rt_timer_start(q, t, n)
<1>1. rt_thread_sleep(s, t, n) = r BY DEF rt_thread_sleep, rt_thread_suspend
<1>2. /\ KernelOK(q) /\ Frame(s, q, t) /\ Kept(s, q) /\ q.stat[t] = "SUSPEND" /\ Off(q, t)
  BY SuspendThread
<1> HIDE DEF q
<1>3. /\ KernelOK(r) /\ Frame(q, r, t) /\ Kept(q, r)
      /\ r.stat = q.stat /\ (Off(r, t) <=> Off(q, t))
  BY <1>2, TimerStart
<1> HIDE DEF r
<1>4. Frame(s, r, t) /\ Kept(s, r) BY <1>2, <1>3, FrameTrans DEF Kept
<1>5. r.stat[t] = "SUSPEND" BY <1>2, <1>3
<1> QED BY <1>1, <1>2, <1>3, <1>4, <1>5

\* The first half of rt_thread_resume.
LEMMA UnlinkSuspended ==
  ASSUME NEW s, KernelOK(s), NEW t \in Thread, s.stat[t] # "READY"
  PROVE  LET r == ResumeUnlink(s, t)
         IN  /\ KernelOK(r) /\ Frame(s, r, t) /\ Kept(s, r)
             /\ r.stat[t] = s.stat[t] /\ Off(r, t) /\ t \notin Timed(r)
<1> DEFINE q == rt_list_remove(s, t)
           r == rt_timer_stop(q, t)
<1>1. KernelOK(q) /\ Frame(s, q, t) /\ Kept(s, q) /\ q.stat[t] = s.stat[t] /\ Off(q, t)
  BY UnlinkWaiting
<1> HIDE DEF q
<1>2. /\ KernelOK(r) /\ Frame(q, r, t) /\ Kept(q, r)
      /\ r.stat = q.stat /\ (Off(r, t) <=> Off(q, t)) /\ t \notin Timed(r)
  BY <1>1, TimerStop
<1> HIDE DEF r
<1>3. Frame(s, r, t) /\ Kept(s, r) BY <1>1, <1>2, FrameTrans DEF Kept
<1>4. r.stat[t] = s.stat[t] BY <1>1, <1>2
<1> QED BY <1>1, <1>2, <1>3, <1>4 DEF ResumeUnlink, r, q

\* The whole of rt_thread_resume, of a suspended thread.
LEMMA ResumeThread ==
  ASSUME NEW s, KernelOK(s), NEW t \in Thread, s.stat[t] = "SUSPEND"
  PROVE  LET r == rt_thread_resume(s, t)
         IN  /\ KernelOK(r) /\ Frame(s, r, t) /\ Kept(s, r)
             /\ r.stat[t] = "READY" /\ ~Off(r, t) /\ t \notin Timed(r)
<1> DEFINE q == ResumeUnlink(s, t)
           r == rt_schedule_insert_thread(q, t)
<1>1. rt_thread_resume(s, t) = r BY DEF rt_thread_resume
<1>2. KernelOK(q) /\ Frame(s, q, t) /\ Kept(s, q) /\ Off(q, t) /\ t \notin Timed(q)
  BY UnlinkSuspended
<1> HIDE DEF q
<1>3. /\ KernelOK(r) /\ Frame(q, r, t) /\ Kept(q, r)
      /\ r.stat[t] = "READY" /\ ~Off(r, t) /\ t \notin Timed(r)
  BY <1>2, InsertThread
<1> HIDE DEF r
<1>4. Frame(s, r, t) /\ Kept(s, r) BY <1>2, <1>3, FrameTrans DEF Kept
<1> QED BY <1>1, <1>3, <1>4

\* RT_THREAD_CTRL_CHANGE_PRIORITY, of a thread that is queued if it is READY.
LEMMA MovePriority ==
  ASSUME NEW s, KernelOK(s), NEW t \in Thread \ {Idle}, NEW p \in Prio,
         s.stat[t] = "READY" => ~Off(s, t)
  PROVE  LET r == ChangePriority(s, t, p)
         IN  KernelOK(r) /\ Still(s, r) /\ Kept(s, r)
<1> DEFINE r == ChangePriority(s, t, p)
           u == rt_schedule_remove_thread(s, t)
           v == [u EXCEPT !.prio[t] = p]
           w == [s EXCEPT !.prio[t] = p]
<1>1. CASE s.stat[t] = "READY"
  <2>1. t \notin Timed(s) BY <1>1 DEF KernelOK, Placed
  <2>2. /\ KernelOK(u) /\ Frame(s, u, t) /\ Kept(s, u)
        /\ u.stat[t] = s.stat[t] /\ Off(u, t) /\ Timed(u) = Timed(s)
    BY <2>1, RemovePlain
  <2> HIDE DEF u
  <2>3. /\ v \in KernelState
        /\ v.list = u.list /\ v.group = u.group /\ v.timers = u.timers /\ v.stat = u.stat
        /\ v.cur = u.cur /\ v.nest = u.nest
        /\ \A x \in Thread \ {t} : v.prio[x] = u.prio[x]
    BY <2>2 DEF KernelOK, KernelState
  <2> HIDE DEF v
  <2>4. KernelOK(v) /\ Frame(u, v, t) /\ Off(v, t) /\ Timed(v) = Timed(u)
    BY <2>1, <2>2, <2>3, Restate
  <2>5. r = rt_schedule_insert_thread(v, t) BY <1>1 DEF ChangePriority, u, v
  <2> HIDE DEF r
  <2>6. KernelOK(r) /\ Frame(v, r, t) /\ Kept(v, r) /\ r.stat[t] = "READY" /\ ~Off(r, t) /\ t \notin Timed(r)
    BY <2>1, <2>2, <2>4, <2>5, InsertThread
  <2>7. Frame(s, r, t) BY <2>2, <2>4, <2>6, FrameTrans
  <2>8. Still(s, r) BY <1>1, <2>1, <2>6, <2>7 DEF Still, Frame
  <2>9. Kept(s, r) BY <2>2, <2>3, <2>6 DEF Kept
  <2> QED BY <2>6, <2>8, <2>9 DEF r
<1>2. CASE s.stat[t] # "READY"
  <2>1. r = w BY <1>2 DEF ChangePriority
  <2>2. /\ w \in KernelState
        /\ w.list = s.list /\ w.group = s.group /\ w.timers = s.timers /\ w.stat = s.stat
        /\ w.cur = s.cur /\ w.nest = s.nest
        /\ \A x \in Thread \ {t} : w.prio[x] = s.prio[x]
    BY DEF KernelOK, KernelState
  <2> HIDE DEF w, r
  <2>3. \A x \in Thread : s.stat[x] = "READY" => w.prio[x] = s.prio[x] BY <1>2, <2>2
  <2>4. KernelOK(w) /\ \A x : Frame(s, w, x) /\ (Off(w, x) <=> Off(s, x)) /\ Timed(w) = Timed(s)
    BY <2>2, <2>3, Cosmetic
  <2> QED BY <2>1, <2>2, <2>4 DEF Still, Kept, r
<1> QED BY <1>1, <1>2

\* A state whose lists hold the same threads in another order.
LEMMA Reorder ==
  ASSUME NEW s, KernelOK(s), NEW r \in KernelState,
         \A l \in ListHead : On(r, l) = On(s, l) /\ NoDup(r.list[l]),
         r.stat = s.stat, r.prio = s.prio, r.group = s.group, r.timers = s.timers
  PROVE  KernelOK(r) /\ Still(s, r)
<1> USE DEF KernelOK
<1>1. Apart(r) BY DEF Apart
<1>2. Placed(r) BY DEF Placed, ListHead, Timed
<1>3. Bitmap(r)
  <2>1. ASSUME NEW p \in Prio PROVE r.list[p] # <<>> <=> s.list[p] # <<>>
    <3>1. p \in ListHead /\ r.list[p] \in Seq(Thread) /\ s.list[p] \in Seq(Thread)
      BY KernelFields DEF ListHead
    <3>2. r.list[p] = <<>> <=> On(r, p) = {} BY <3>1, EmptyList DEF On
    <3>3. s.list[p] = <<>> <=> On(s, p) = {} BY <3>1, EmptyList DEF On
    <3> QED BY <3>1, <3>2, <3>3
  <2> QED BY <2>1 DEF Bitmap
<1>4. IdlePrio \in ListHead BY BoundAssumption DEF IdlePrio, ListHead, Prio
<1>5. KernelOK(r) BY <1>1, <1>2, <1>3, <1>4
<1>6. Still(s, r) BY DEF Still, Off, Timed
<1> QED BY <1>5, <1>6

\* The region of rt_thread_yield before rt_schedule.
LEMMA RotateQueue ==
  ASSUME NEW s, KernelOK(s), NEW t \in Thread, s.stat[t] = "READY", ~Off(s, t)
  PROVE  LET r == ToQueueEnd(s, t)
         IN  KernelOK(r) /\ Still(s, r) /\ Kept(s, r) /\ r.timers = s.timers
<1> DEFINE q == rt_list_remove(s, t)
           p == s.prio[t]
           r == ToQueueEnd(s, t)
<1>1. p \in Prio /\ p \in ListHead /\ s.list \in [ListHead -> Seq(Thread)]
  BY KernelFields DEF KernelOK, ListHead
<1>2. t \in On(s, p)
  <2>1. PICK l \in ListHead : t \in On(s, l) BY DEF Off
  <2>2. l \in Prio /\ l = p BY <2>1, ListAssumption DEF KernelOK, Placed, ListHead
  <2> QED BY <2>1, <2>2
<1>3. /\ q \in KernelState
      /\ q = [s EXCEPT !.list = q.list]
      /\ Apart(q)
      /\ \A l \in ListHead : On(q, l) = On(s, l) \ {t}
  BY UnlinkNode DEF KernelOK
<1>4. r = [q EXCEPT !.list[p] = Append(@, t)] BY DEF ToQueueEnd, q, p
<1> HIDE DEF q, r
<1>5. /\ q.stat = s.stat /\ q.prio = s.prio /\ q.group = s.group /\ q.timers = s.timers
      /\ q.cur = s.cur /\ q.nest = s.nest /\ q.list \in [ListHead -> Seq(Thread)]
  BY <1>3, KernelFields DEF KernelOK, KernelState
<1> HIDE DEF p
<1> DEFINE v == Append(q.list[p], t)
<1>6. v \in Seq(Thread) /\ ToSet(v) = On(s, p) /\ NoDup(v)
  <2>1. q.list[p] \in Seq(Thread) /\ NoDup(q.list[p]) BY <1>1, <1>3, <1>5 DEF Apart
  <2>2. ToSet(q.list[p]) = On(s, p) \ {t} BY <1>1, <1>3 DEF On
  <2>3. t \notin ToSet(q.list[p]) /\ ToSet(q.list[p]) \cup {t} = On(s, p) BY <1>2, <2>2
  <2>4. /\ v \in Seq(Thread) /\ ToSet(v) = ToSet(q.list[p]) \cup {t}
        /\ NoDup(q.list[p]) /\ t \notin ToSet(q.list[p]) => NoDup(v)
    BY <2>1, AppendList
  <2> HIDE DEF v
  <2> QED BY <2>1, <2>3, <2>4
<1> HIDE DEF v
<1>7. r = [q EXCEPT !.list = [q.list EXCEPT ![p] = v]]
  BY <1>3, <1>4 DEF v, KernelState
<1>8. [q.list EXCEPT ![p] = v] \in [ListHead -> Seq(Thread)] BY <1>1, <1>5, <1>6
<1>9. r \in KernelState BY <1>3, <1>7, <1>8 DEF KernelState
<1>10. /\ r.stat = s.stat /\ r.prio = s.prio /\ r.group = s.group /\ r.timers = s.timers
       /\ r.cur = s.cur /\ r.nest = s.nest /\ r.list = [q.list EXCEPT ![p] = v]
  BY <1>3, <1>5, <1>7 DEF KernelState
<1>11. ASSUME NEW l \in ListHead PROVE On(r, l) = On(s, l) /\ NoDup(r.list[l])
  <2>1. CASE l = p BY <1>1, <1>5, <1>6, <1>10, <2>1 DEF On
  <2>2. CASE l # p
    <3>1. r.list[l] = q.list[l] BY <1>5, <1>10, <2>2
    <3>2. t \notin On(s, l) BY <1>1, <1>2, <2>2 DEF KernelOK, Apart
    <3> QED BY <1>3, <3>1, <3>2 DEF On, Apart
  <2> QED BY <2>1, <2>2
<1>12. KernelOK(r) /\ Still(s, r) BY <1>9, <1>10, <1>11, Reorder
<1> QED BY <1>10, <1>12 DEF Kept, r

LEMMA StillTrans ==
  ASSUME NEW s, NEW q, NEW r, Still(s, q), Still(q, r)
  PROVE  Still(s, r)
BY DEF Still

\* rt_tick_increase moves no thread; it may hand over the processor.
LEMMA TickThreads ==
  ASSUME NEW s, KernelOK(s), s.cur \in Thread,
         s.stat[s.cur] = "READY" => ~Off(s, s.cur)
  PROVE  LET r == TickIncrease(s)
         IN  KernelOK(r) /\ Still(s, r) /\ (Kept(s, r) \/ Chosen(s, r)) /\ r.timers = s.timers
<1> DEFINE t == s.cur
           f == [u \in Thread |-> IF s.left[u] > 0 THEN s.left[u] - 1 ELSE 0]
           g == [s.slice EXCEPT ![t] = IF s.slice[t] = 1 THEN InitTick ELSE s.slice[t] - 1]
           a == [s EXCEPT !.left = f, !.slice = g]
           r == TickIncrease(s)
<1>1. f \in [Thread -> Nat] BY KernelFields DEF KernelOK
<1>2. g \in [Thread -> 1..InitTick]
  <2>1. s.slice \in [Thread -> 1..InitTick] BY KernelFields DEF KernelOK
  <2> QED BY <2>1, BoundAssumption
<1>3. r = IF s.slice[t] = 1 THEN rt_thread_yield(a) ELSE a
  BY DEF TickIncrease, KernelOK, KernelState
<1> HIDE DEF f, g, r
<1>4. a \in KernelState BY <1>1, <1>2 DEF KernelOK, KernelState
<1>5. /\ a.list = s.list /\ a.stat = s.stat /\ a.group = s.group /\ a.timers = s.timers
      /\ a.prio = s.prio /\ a.cur = s.cur /\ a.nest = s.nest
  BY DEF KernelOK, KernelState
<1> HIDE DEF a
<1>6. KernelOK(a) /\ \A x : Frame(s, a, x) /\ (Off(a, x) <=> Off(s, x)) /\ Timed(a) = Timed(s)
  BY <1>4, <1>5, Cosmetic
<1>7. Still(s, a) /\ Kept(s, a) BY <1>5, <1>6 DEF Still, Kept
<1>8. CASE r = a BY <1>5, <1>6, <1>7, <1>8 DEF r
<1>9. CASE r # a
  <2>1. SharesQueue(a, t) /\ r = rt_schedule(ToQueueEnd(a, t))
    BY <1>3, <1>5, <1>9 DEF rt_thread_yield
  <2> DEFINE b == ToQueueEnd(a, t)
  <2>2. a.stat[t] = "READY" /\ ~Off(a, t) BY <1>5, <1>6, <2>1 DEF SharesQueue
  <2>3. KernelOK(b) /\ Still(a, b) /\ Kept(a, b) /\ b.timers = a.timers
    BY <1>6, <2>2, RotateQueue
  <2> HIDE DEF b
  <2>4. KernelOK(r) /\ Still(b, r) /\ Chosen(b, r) /\ r.timers = b.timers
    BY <2>1, <2>3, Dispatch DEF b
  <2>5. Still(s, r) BY <1>7, <2>3, <2>4, StillTrans
  <2>6. Chosen(s, r) BY <1>7, <2>3, <2>4 DEF Chosen, Kept
  <2> QED BY <1>5, <2>3, <2>4, <2>5, <2>6 DEF r
<1> QED BY <1>8, <1>9

\* Insertion at the head of the list of dead threads.
LEMMA PutDefunct ==
  ASSUME NEW s, KernelOK(s), NEW t \in Thread, Off(s, t), s.stat[t] = "CLOSE"
  PROVE  LET r == [s EXCEPT !.list[Defunct] = <<t>> \o @]
         IN  /\ KernelOK(r) /\ Frame(s, r, t) /\ Kept(s, r)
             /\ r.stat = s.stat /\ Timed(r) = Timed(s)
<1> DEFINE q == <<t>> \o s.list[Defunct]
           r == [s EXCEPT !.list[Defunct] = <<t>> \o @]
<1> USE DEF KernelOK
<1>1. s.list \in [ListHead -> Seq(Thread)] /\ Defunct \in ListHead
  BY KernelFields DEF ListHead
<1>2. q \in Seq(Thread) /\ ToSet(q) = On(s, Defunct) \cup {t} /\ NoDup(q)
  <2>1. s.list[Defunct] \in Seq(Thread) /\ NoDup(s.list[Defunct]) /\ t \notin ToSet(s.list[Defunct])
    BY <1>1 DEF Apart, Off, On
  <2> QED BY <2>1, PrependList DEF On
<1>3. r = [s EXCEPT !.list = [s.list EXCEPT ![Defunct] = q]] BY DEF KernelState
<1> HIDE DEF q
<1>4. [s.list EXCEPT ![Defunct] = q] \in [ListHead -> Seq(Thread)] BY <1>1, <1>2
<1> HIDE DEF r
<1>5. r \in KernelState BY <1>3, <1>4 DEF KernelState
<1>6. /\ r.stat = s.stat /\ r.prio = s.prio /\ r.group = s.group /\ r.timers = s.timers
      /\ r.cur = s.cur /\ r.nest = s.nest /\ r.list = [s.list EXCEPT ![Defunct] = q]
  BY <1>3 DEF KernelState
<1>7. \A l \in ListHead : On(r, l) = IF l = Defunct THEN On(s, l) \cup {t} ELSE On(s, l)
  BY <1>1, <1>2, <1>6 DEF On
<1>8. Apart(r)
  <2>1. \A l \in ListHead : NoDup(r.list[l]) BY <1>1, <1>2, <1>6 DEF Apart
  <2>2. \A l, m \in ListHead : On(r, l) \cap On(r, m) # {} => l = m BY <1>7 DEF Apart, Off
  <2> QED BY <2>1, <2>2, <1>6 DEF Apart
<1>9. \A p \in Prio \cup WaitList : p \in ListHead /\ p # Defunct /\ r.list[p] = s.list[p]
  BY <1>1, <1>6, ListAssumption DEF ListHead
<1>10. Placed(r) BY <1>1, <1>6, <1>7, <1>9 DEF Placed, Timed
<1>11. Bitmap(r) BY <1>6, <1>9 DEF Bitmap
<1>12. Idle \in On(r, IdlePrio)
  <2>1. IdlePrio \in ListHead BY BoundAssumption DEF IdlePrio, ListHead, Prio
  <2> QED BY <2>1, <1>7
<1>13. Timed(r) = Timed(s) BY <1>6 DEF Timed
<1>14. Frame(s, r, t) BY <1>6, <1>7, <1>13 DEF Frame, Off
<1> QED BY <1>5, <1>6, <1>8, <1>10, <1>11, <1>12, <1>13, <1>14 DEF Kept, r

\* The service of the first expired timer.
LEMMA FireTimer ==
  ASSUME NEW s, KernelOK(s), s.timers # <<>>
  PROVE  LET t == Head(s.timers)
             r == TimerFire(s)
         IN  /\ t \in Timed(s) /\ t \in Thread
             /\ KernelOK(r) /\ Frame(s, r, t) /\ Chosen(s, r)
             /\ r.stat[t] = "READY" /\ ~Off(r, t) /\ t \notin Timed(r)
<1> DEFINE t == Head(s.timers)
           q == Tail(s.timers)
           a == [s EXCEPT !.timers = q]
           b == [a EXCEPT !.err[t] = "ETIMEOUT"]
           c == rt_list_remove(b, t)
           d == rt_schedule_insert_thread(c, t)
           r == TimerFire(s)
<1>1. r = rt_schedule(d) BY DEF TimerFire, rt_thread_timeout
<1>2. t \in Timed(s) /\ t \in Thread /\ q \in Seq(Thread) /\ ToSet(q) = Timed(s) \ {t} /\ NoDup(q)
  <2>1. s.timers \in Seq(Thread) /\ NoDup(s.timers) BY KernelFields DEF KernelOK, Apart
  <2> QED BY <2>1, EmptyList, TailList DEF Timed
<1>3. s.stat[t] = "SUSPEND" BY <1>2 DEF KernelOK, Placed
<1> HIDE DEF t, q
<1>4. a \in KernelState BY <1>2 DEF KernelOK, KernelState
<1>5. /\ a.list = s.list /\ a.group = s.group /\ a.stat = s.stat /\ a.prio = s.prio
      /\ a.timers = q /\ a.cur = s.cur /\ a.nest = s.nest
  BY DEF KernelOK, KernelState
<1> HIDE DEF a
<1>6. Timed(a) = Timed(s) \ {t} BY <1>2, <1>5 DEF Timed
<1>7. KernelOK(a) /\ Frame(s, a, t) BY <1>2, <1>3, <1>4, <1>5, <1>6, Retime
<1>8. b \in KernelState BY <1>4 DEF KernelState, Error
<1>9. /\ b.list = a.list /\ b.group = a.group /\ b.stat = a.stat /\ b.prio = a.prio
      /\ b.timers = a.timers /\ b.cur = a.cur /\ b.nest = a.nest
  BY <1>4 DEF KernelState
<1> HIDE DEF b
<1>10. KernelOK(b) /\ Frame(a, b, t) /\ Timed(b) = Timed(a)
  BY <1>7, <1>8, <1>9, Cosmetic
<1>11. b.stat[t] # "READY" BY <1>3, <1>5, <1>9
<1>12. KernelOK(c) /\ Frame(b, c, t) /\ Kept(b, c) /\ Off(c, t) /\ Timed(c) = Timed(b)
  BY <1>2, <1>10, <1>11, UnlinkWaiting
<1> HIDE DEF c
<1>13. t \notin Timed(c) BY <1>6, <1>10, <1>12
<1>14. /\ KernelOK(d) /\ Frame(c, d, t) /\ Kept(c, d)
       /\ d.stat[t] = "READY" /\ ~Off(d, t) /\ t \notin Timed(d)
  BY <1>2, <1>12, <1>13, InsertThread
<1> HIDE DEF d
<1>15. KernelOK(r) /\ Still(d, r) /\ Chosen(d, r) BY <1>1, <1>14, Dispatch
<1> HIDE DEF r
<1>16. Frame(s, d, t) BY <1>7, <1>10, <1>12, <1>14, FrameTrans
<1>17. Frame(s, r, t) BY <1>15, <1>16 DEF Frame, Still
<1>18. Chosen(s, r) BY <1>5, <1>9, <1>12, <1>14, <1>15 DEF Chosen, Kept
<1>19. r.stat[t] = "READY" /\ ~Off(r, t) /\ t \notin Timed(r) BY <1>2, <1>14, <1>15 DEF Still
<1> QED BY <1>2, <1>15, <1>17, <1>18, <1>19 DEF r, t

-----------------------------------------------------------------------------
(* Error codes and priorities.                                             *)

\* The call writes no thread->error and no current_priority.
Codes(s, r) == r.err = s.err /\ r.prio = s.prio

LEMMA UnlinkCodes ==
  ASSUME NEW s \in KernelState, NEW t
  PROVE  Codes(s, rt_list_remove(s, t)) /\ Codes(s, rt_timer_stop(s, t))
  BY DEF Codes, rt_list_remove, rt_timer_stop, KernelState

LEMMA QueueCodes ==
  ASSUME NEW s \in KernelState, NEW t
  PROVE  Codes(s, rt_schedule_insert_thread(s, t)) /\ Codes(s, rt_schedule(s))
  BY DEF Codes, rt_schedule_insert_thread, rt_schedule, KernelState

LEMMA TimerCodes ==
  ASSUME NEW s \in KernelState, NEW t, NEW n
  PROVE  Codes(s, rt_timer_start(s, t, n))
  BY DEF Codes, rt_timer_start, KernelState

LEMMA RemoveCodes ==
  ASSUME NEW s \in KernelState, NEW t \in Thread, NEW q \in Stat
  PROVE  Codes(s, rt_schedule_remove_thread([s EXCEPT !.stat[t] = q], t))
<1> DEFINE a == [s EXCEPT !.stat[t] = q]
           b == rt_list_remove(a, t)
           r == rt_schedule_remove_thread(a, t)
<1>1. a \in KernelState /\ Codes(s, a) BY DEF KernelState, Codes
<1> HIDE DEF a
<1>2. b = [a EXCEPT !.list = [l \in ListHead |-> Without(a.list[l], t)]] BY DEF rt_list_remove
<1>3. r = [b EXCEPT !.group = IF b.list[a.prio[t]] = <<>> THEN b.group \ {a.prio[t]} ELSE b.group]
  BY DEF rt_schedule_remove_thread
<1>4. Codes(a, b) BY <1>1, UnlinkCodes
<1>5. DOMAIN b = DOMAIN a /\ "err" \in DOMAIN a /\ "prio" \in DOMAIN a BY <1>1, <1>2 DEF KernelState
<1> HIDE DEF b
<1>6. Codes(b, r) BY <1>3, <1>5 DEF Codes
<1> QED BY <1>1, <1>4, <1>6 DEF Codes, a

-----------------------------------------------------------------------------
(* rt_ipc_list_suspend and rt_ipc_list_resume.                             *)

\* A suspended thread is linked to a suspend list.
LEMMA WaitOn ==
  ASSUME NEW s, KernelOK(s), NEW t \in Thread, Off(s, t), s.stat[t] = "SUSPEND",
         NEW w \in WaitList, NEW i \in 1..(Len(s.list[w]) + 1)
  PROVE  LET r == [s EXCEPT !.list[w] = InsertAt(@, i, t)]
         IN  /\ KernelOK(r) /\ Frame(s, r, t) /\ Kept(s, r) /\ Codes(s, r)
             /\ r.stat = s.stat /\ Timed(r) = Timed(s) /\ ~Off(r, t)
<1> DEFINE q == InsertAt(s.list[w], i, t)
           r == [s EXCEPT !.list[w] = InsertAt(@, i, t)]
<1> USE DEF KernelOK
<1>1. s.list \in [ListHead -> Seq(Thread)] /\ w \in ListHead
  BY KernelFields DEF ListHead
<1>2. q \in Seq(Thread) /\ ToSet(q) = On(s, w) \cup {t} /\ NoDup(q)
  <2>1. s.list[w] \in Seq(Thread) /\ NoDup(s.list[w]) /\ t \notin ToSet(s.list[w])
    BY <1>1 DEF Apart, Off, On
  <2> QED BY <2>1, InsertList DEF On
<1>3. r = [s EXCEPT !.list = [s.list EXCEPT ![w] = q]] BY DEF KernelState
<1> HIDE DEF q
<1>4. [s.list EXCEPT ![w] = q] \in [ListHead -> Seq(Thread)] BY <1>1, <1>2
<1> HIDE DEF r
<1>5. r \in KernelState BY <1>3, <1>4 DEF KernelState
<1>6. /\ r.stat = s.stat /\ r.prio = s.prio /\ r.group = s.group /\ r.timers = s.timers
      /\ r.cur = s.cur /\ r.nest = s.nest /\ r.err = s.err
      /\ r.list = [s.list EXCEPT ![w] = q]
  BY <1>3 DEF KernelState
<1>7. \A l \in ListHead : On(r, l) = IF l = w THEN On(s, l) \cup {t} ELSE On(s, l)
  BY <1>1, <1>2, <1>6 DEF On
<1>8. Apart(r)
  <2>1. \A l \in ListHead : NoDup(r.list[l]) BY <1>1, <1>2, <1>6 DEF Apart
  <2>2. \A l, m \in ListHead : On(r, l) \cap On(r, m) # {} => l = m BY <1>7 DEF Apart, Off
  <2> QED BY <2>1, <2>2, <1>6 DEF Apart
<1>9. \A l \in Prio \cup {Defunct} : l \in ListHead /\ l # w /\ r.list[l] = s.list[l]
  BY <1>1, <1>6, ListAssumption DEF ListHead
<1>10. Placed(r) BY <1>1, <1>6, <1>7, <1>9 DEF Placed, Timed, ListHead
<1>11. Bitmap(r) BY <1>6, <1>9 DEF Bitmap
<1>12. Idle \in On(r, IdlePrio)
  <2>1. IdlePrio \in ListHead BY BoundAssumption DEF IdlePrio, ListHead, Prio
  <2> QED BY <2>1, <1>7
<1>13. Timed(r) = Timed(s) BY <1>6 DEF Timed
<1>14. Frame(s, r, t) BY <1>6, <1>7, <1>13 DEF Frame, Off
<1>15. ~Off(r, t) BY <1>1, <1>7 DEF Off
<1> QED BY <1>5, <1>6, <1>8, <1>10, <1>11, <1>12, <1>13, <1>14, <1>15 DEF Kept, Codes, r

\* Where rt_ipc_list_suspend links a thread.
LEMMA PlaceInList ==
  ASSUME NEW u, NEW w, u.list[w] \in Seq(Thread), NEW t, NEW flag
  PROVE  LET lower == {i \in DOMAIN u.list[w] : u.prio[t] < u.prio[u.list[w][i]]}
         IN  (IF flag = "PRIO" /\ lower # {}
              THEN CHOOSE i \in lower : \A j \in lower : i <= j
              ELSE Len(u.list[w]) + 1) \in 1..(Len(u.list[w]) + 1)
<1> DEFINE lower == {i \in DOMAIN u.list[w] : u.prio[t] < u.prio[u.list[w][i]]}
           i == IF flag = "PRIO" /\ lower # {}
                THEN CHOOSE i \in lower : \A j \in lower : i <= j
                ELSE Len(u.list[w]) + 1
<1>1. DOMAIN u.list[w] = 1..Len(u.list[w]) /\ Len(u.list[w]) \in Nat OBVIOUS
<1>2. CASE flag = "PRIO" /\ lower # {}
  <2>1. lower \in SUBSET Nat /\ lower \subseteq 1..Len(u.list[w]) BY <1>1
  <2> HIDE DEF lower
  <2>2. \E m \in lower : \A j \in lower : m <= j BY <1>2, <2>1, Minimum
  <2>3. i \in lower BY <1>2, <2>2
  <2> HIDE DEF i
  <2>4. i \in 1..Len(u.list[w]) BY <2>1, <2>3
  <2>5. i \in 1..(Len(u.list[w]) + 1) BY <1>1, <2>4
  <2> QED BY <2>5 DEF i, lower
<1>3. CASE ~(flag = "PRIO" /\ lower # {})
  <2> HIDE DEF lower
  <2>1. i = Len(u.list[w]) + 1 BY <1>3, Zenon
  <2>2. i \in 1..(Len(u.list[w]) + 1) BY <1>1, <2>1
  <2> QED BY <2>2 DEF lower
<1> QED BY <1>2, <1>3

\* The running thread suspends itself on a list.
LEMMA ListSuspend ==
  ASSUME NEW s, KernelOK(s), NEW t \in Thread \ {Idle}, s.stat[t] = "READY",
         NEW w \in WaitList, NEW flag
  PROVE  LET r == rt_ipc_list_suspend(s, w, t, flag)
         IN  /\ KernelOK(r) /\ Frame(s, r, t) /\ Kept(s, r) /\ Codes(s, r)
             /\ r.stat[t] = "SUSPEND" /\ ~Off(r, t) /\ t \notin Timed(r)
<1> DEFINE a == rt_schedule_remove_thread([s EXCEPT !.stat[t] = "SUSPEND"], t)
           u == rt_timer_stop(a, t)
           lower == {i \in DOMAIN u.list[w] : u.prio[t] < u.prio[u.list[w][i]]}
           i == IF flag = "PRIO" /\ lower # {}
                THEN CHOOSE i \in lower : \A j \in lower : i <= j
                ELSE Len(u.list[w]) + 1
           r == [u EXCEPT !.list[w] = InsertAt(@, i, t)]
<1>1. rt_ipc_list_suspend(s, w, t, flag) = r
  BY DEF rt_ipc_list_suspend, rt_thread_suspend
<1>2. /\ KernelOK(u) /\ Frame(s, u, t) /\ Kept(s, u)
      /\ u.stat[t] = "SUSPEND" /\ Off(u, t) /\ t \notin Timed(u)
  BY SuspendThread
<1>3. Codes(s, u)
  <2>1. KernelOK(a) BY RemoveThread DEF Stat
  <2>2. Codes(s, a) BY RemoveCodes DEF Stat, KernelOK
  <2> HIDE DEF a
  <2>3. Codes(a, u) BY <2>1, UnlinkCodes DEF KernelOK
  <2> QED BY <2>2, <2>3 DEF Codes
<1> HIDE DEF u
<1>4. u.list[w] \in Seq(Thread) BY <1>2, KernelFields DEF KernelOK, ListHead
<1>5. i \in 1..(Len(u.list[w]) + 1) BY <1>4, PlaceInList
<1> HIDE DEF i
<1>6. /\ KernelOK(r) /\ Frame(u, r, t) /\ Kept(u, r) /\ Codes(u, r)
      /\ r.stat = u.stat /\ Timed(r) = Timed(u) /\ ~Off(r, t)
  BY <1>2, <1>5, WaitOn
<1> HIDE DEF r
<1>7. Frame(s, r, t) /\ Kept(s, r) /\ Codes(s, r)
  BY <1>2, <1>3, <1>6, FrameTrans DEF Kept, Codes
<1> QED BY <1>1, <1>2, <1>6, <1>7

\* rt_thread_resume of a suspended thread leaves its error code.
LEMMA ResumeCodes ==
  ASSUME NEW s, KernelOK(s), NEW t \in Thread, s.stat[t] = "SUSPEND"
  PROVE  Codes(s, rt_thread_resume(s, t))
<1> DEFINE a == rt_list_remove(s, t)
           b == rt_timer_stop(a, t)
<1>1. rt_thread_resume(s, t) = rt_schedule_insert_thread(b, t)
  BY DEF rt_thread_resume, ResumeUnlink
<1>2. KernelOK(a) BY UnlinkWaiting
<1>3. KernelOK(b) BY <1>2, TimerStop
<1>4. Codes(s, a) BY UnlinkCodes DEF KernelOK
<1> HIDE DEF a
<1>5. Codes(a, b) BY <1>2, UnlinkCodes DEF KernelOK
<1> HIDE DEF b
<1>6. Codes(b, rt_schedule_insert_thread(b, t)) BY <1>3, QueueCodes DEF KernelOK
<1> QED BY <1>1, <1>4, <1>5, <1>6 DEF Codes

\* Only a code written into a thread.
LEMMA SetError ==
  ASSUME NEW s, KernelOK(s), NEW t \in Thread, NEW e \in Error
  PROVE  LET r == [s EXCEPT !.err[t] = e]
         IN  /\ KernelOK(r) /\ Still(s, r) /\ Kept(s, r)
             /\ r.err = [s.err EXCEPT ![t] = e] /\ r.prio = s.prio
             /\ r.list = s.list /\ r.stat = s.stat
<1> DEFINE r == [s EXCEPT !.err[t] = e]
<1>1. /\ r \in KernelState /\ r.list = s.list /\ r.stat = s.stat /\ r.group = s.group
      /\ r.timers = s.timers /\ r.prio = s.prio /\ r.cur = s.cur /\ r.nest = s.nest
      /\ r.err = [s.err EXCEPT ![t] = e]
  BY DEF KernelOK, KernelState
<1> HIDE DEF r
<1>2. KernelOK(r) /\ Timed(r) = Timed(s) /\ \A u : Off(r, u) <=> Off(s, u)
  BY <1>1, Cosmetic
<1> QED BY <1>1, <1>2 DEF Still, Kept, r

\* The end of a time slice changes no error code.
LEMMA TickCodes ==
  ASSUME NEW s, KernelOK(s), s.cur \in Thread,
         s.stat[s.cur] = "READY" => ~Off(s, s.cur)
  PROVE  Codes(s, TickIncrease(s))
<1> DEFINE t == s.cur
           f == [u \in Thread |-> IF s.left[u] > 0 THEN s.left[u] - 1 ELSE 0]
           g == [s.slice EXCEPT ![t] = IF s.slice[t] = 1 THEN InitTick ELSE s.slice[t] - 1]
           a == [s EXCEPT !.left = f, !.slice = g]
           b == rt_list_remove(a, t)
           c == ToQueueEnd(a, t)
<1>1. TickIncrease(s) = IF s.slice[t] = 1 THEN rt_thread_yield(a) ELSE a
  BY DEF TickIncrease, KernelOK, KernelState
<1>2. a \in KernelState /\ Codes(s, a) /\ a.cur = t
  <2>1. f \in [Thread -> Nat] BY KernelFields DEF KernelOK
  <2>2. g \in [Thread -> 1..InitTick]
    <3>1. s.slice \in [Thread -> 1..InitTick] BY KernelFields DEF KernelOK
    <3>2. (IF s.slice[t] = 1 THEN InitTick ELSE s.slice[t] - 1) \in 1..InitTick
      BY <3>1, BoundAssumption
    <3> QED BY <3>1, <3>2
  <2> HIDE DEF f, g
  <2> QED BY <2>1, <2>2 DEF Codes, KernelOK, KernelState
<1> HIDE DEF a
<1>3. Codes(a, b) BY <1>2, UnlinkCodes
<1>4. b = [a EXCEPT !.list = [l \in ListHead |-> Without(a.list[l], t)]] BY DEF rt_list_remove
<1>5. c = [b EXCEPT !.list[a.prio[t]] = Append(@, t)] BY DEF ToQueueEnd
<1>6. DOMAIN b = DOMAIN a /\ {"err", "prio", "cur", "nest", "list"} \subseteq DOMAIN a
  BY <1>2, <1>4 DEF KernelState
<1>7. Codes(b, c) /\ DOMAIN c = DOMAIN a
  <2> HIDE DEF b
  <2> QED BY <1>5, <1>6 DEF Codes
<1> HIDE DEF b, c
<1>8. Codes(c, rt_schedule(c)) BY <1>6, <1>7 DEF Codes, rt_schedule
<1>9. rt_thread_yield(a) \in {a, rt_schedule(c)} BY <1>2 DEF rt_thread_yield, c
<1>10. Codes(a, rt_thread_yield(a)) BY <1>3, <1>7, <1>8, <1>9 DEF Codes
<1> QED BY <1>1, <1>2, <1>10 DEF Codes

\* The service of a timer gives its thread -RT_ETIMEOUT.
LEMMA FireCodes ==
  ASSUME NEW s, KernelOK(s), s.timers # <<>>
  PROVE  LET t == Head(s.timers)
             r == TimerFire(s)
         IN  r.err = [s.err EXCEPT ![t] = "ETIMEOUT"] /\ r.prio = s.prio
<1> DEFINE t == Head(s.timers)
           a == [s EXCEPT !.timers = Tail(@)]
           b == [a EXCEPT !.err[t] = "ETIMEOUT"]
           c == rt_list_remove(b, t)
           d == rt_schedule_insert_thread(c, t)
           F == {"err", "prio", "cur", "nest", "list", "stat", "group", "timers"}
<1>1. TimerFire(s) = rt_schedule(d) BY DEF TimerFire, rt_thread_timeout
<1>2. /\ F \subseteq DOMAIN b /\ b.prio = s.prio /\ b.err = [s.err EXCEPT ![t] = "ETIMEOUT"]
  BY DEF KernelOK, KernelState
<1> HIDE DEF b
<1>3. F \subseteq DOMAIN c /\ Codes(b, c) BY <1>2 DEF rt_list_remove, Codes
<1> HIDE DEF c
<1>4. F \subseteq DOMAIN d /\ Codes(c, d) BY <1>3 DEF rt_schedule_insert_thread, Codes
<1> HIDE DEF d
<1>5. Codes(d, rt_schedule(d)) BY <1>4 DEF rt_schedule, Codes
<1> QED BY <1>1, <1>2, <1>3, <1>4, <1>5 DEF Codes

-----------------------------------------------------------------------------
(* The suspend lists, thread by thread.                                    *)

\* Every suspend list is as it was; or is so but for t, which has left it.
Unmoved(s, r) == \A w \in WaitList : r.list[w] = s.list[w]
Left(s, r, t) == \A w \in WaitList : r.list[w] = Without(s.list[w], t)

LEMMA NotOnList ==
  ASSUME NEW s, NEW r, NEW t, Left(s, r, t), \A w \in WaitList : t \notin On(s, w)
  PROVE  Unmoved(s, r)
  BY DEF Unmoved, Left, On, Without

\* A thread that is not suspended is on no suspend list.
LEMMA NotWaiting ==
  ASSUME NEW s, KernelOK(s), NEW t \in Thread, s.stat[t] # "SUSPEND"
  PROVE  \A w \in WaitList : t \notin On(s, w)
  BY DEF KernelOK, Placed

LEMMA UnlinkMoves ==
  ASSUME NEW s \in KernelState, NEW t
  PROVE  Left(s, rt_list_remove(s, t), t) /\ Unmoved(s, rt_timer_stop(s, t))
<1>1. rt_list_remove(s, t).list = [l \in ListHead |-> Without(s.list[l], t)]
  BY DEF rt_list_remove, KernelState
<1>2. rt_timer_stop(s, t).list = s.list BY DEF rt_timer_stop, KernelState
<1> QED BY <1>1, <1>2 DEF Left, Unmoved, ListHead

LEMMA QueueMoves ==
  ASSUME NEW s \in KernelState, NEW t \in Thread
  PROVE  /\ Unmoved(s, rt_schedule_insert_thread(s, t)) /\ Unmoved(s, rt_schedule(s))
         /\ \A n : Unmoved(s, rt_timer_start(s, t, n))
<1>1. s.prio[t] \in Prio BY KernelFields
<1>2. rt_schedule_insert_thread(s, t).list = [s.list EXCEPT ![s.prio[t]] = Append(s.list[s.prio[t]], t)]
  BY DEF rt_schedule_insert_thread, KernelState
<1>3. Unmoved(s, rt_schedule_insert_thread(s, t))
  BY <1>1, <1>2, KernelFields, ListAssumption DEF Unmoved, ListHead
<1>4. Unmoved(s, rt_schedule(s)) BY DEF Unmoved, rt_schedule, KernelState
<1>5. \A n : Unmoved(s, rt_timer_start(s, t, n)) BY DEF Unmoved, rt_timer_start, KernelState
<1> QED BY <1>3, <1>4, <1>5

LEMMA RemoveMoves ==
  ASSUME NEW s \in KernelState, NEW t \in Thread
  PROVE  Left(s, rt_schedule_remove_thread(s, t), t)
<1> DEFINE b == rt_list_remove(s, t)
           r == rt_schedule_remove_thread(s, t)
<1>1. b = [s EXCEPT !.list = [l \in ListHead |-> Without(s.list[l], t)]] BY DEF rt_list_remove
<1>2. r = [b EXCEPT !.group = IF b.list[s.prio[t]] = <<>> THEN b.group \ {s.prio[t]} ELSE b.group]
  BY DEF rt_schedule_remove_thread
<1>3. Left(s, b, t) BY UnlinkMoves
<1>4. DOMAIN b = DOMAIN s /\ "list" \in DOMAIN s BY <1>1 DEF KernelState
<1> HIDE DEF b
<1>5. r.list = b.list BY <1>2, <1>4
<1> QED BY <1>3, <1>5 DEF Left

\* rt_thread_resume and the service of a timer take the thread off its list.
LEMMA ResumeMoves ==
  ASSUME NEW s, KernelOK(s), NEW t \in Thread, s.stat[t] = "SUSPEND"
  PROVE  Left(s, rt_thread_resume(s, t), t)
<1> DEFINE a == rt_list_remove(s, t)
           b == rt_timer_stop(a, t)
<1>1. rt_thread_resume(s, t) = rt_schedule_insert_thread(b, t)
  BY DEF rt_thread_resume, ResumeUnlink
<1>2. KernelOK(a) /\ Left(s, a, t) BY UnlinkWaiting, UnlinkMoves DEF KernelOK
<1> HIDE DEF a
<1>3. KernelOK(b) /\ Unmoved(a, b) BY <1>2, TimerStop, UnlinkMoves DEF KernelOK
<1> HIDE DEF b
<1>4. Unmoved(b, rt_schedule_insert_thread(b, t)) BY <1>3, QueueMoves DEF KernelOK
<1> QED BY <1>1, <1>2, <1>3, <1>4 DEF Left, Unmoved

LEMMA FireMoves ==
  ASSUME NEW s, KernelOK(s), s.timers # <<>>
  PROVE  Left(s, TimerFire(s), Head(s.timers))
<1> DEFINE t == Head(s.timers)
           a == [s EXCEPT !.timers = Tail(@)]
           b == [a EXCEPT !.err[t] = "ETIMEOUT"]
           c == rt_list_remove(b, t)
           d == rt_schedule_insert_thread(c, t)
<1>1. TimerFire(s) = rt_schedule(d) BY DEF TimerFire, rt_thread_timeout
<1>2. t \in Thread /\ Tail(s.timers) \in Seq(Thread)
  BY KernelFields DEF KernelOK
<1> HIDE DEF t
<1>3. b \in KernelState /\ b.list = s.list
  BY <1>2 DEF KernelOK, KernelState, Error
<1> HIDE DEF b
<1>4. c \in KernelState /\ Left(b, c, t)
  <2>1. s.list \in [ListHead -> Seq(Thread)] /\ \A l \in ListHead : NoDup(s.list[l])
    BY KernelFields DEF KernelOK, Apart
  <2>2. [l \in ListHead |-> Without(b.list[l], t)] \in [ListHead -> Seq(Thread)]
    BY <1>3, <2>1, RemoveList
  <2>3. c = [b EXCEPT !.list = [l \in ListHead |-> Without(b.list[l], t)]] BY DEF rt_list_remove
  <2>4. c \in KernelState BY <1>3, <2>2, <2>3 DEF KernelState
  <2> QED BY <1>3, <2>4, UnlinkMoves
<1> HIDE DEF c
<1>5. Unmoved(c, d) BY <1>2, <1>4, QueueMoves
<1>6. {"list", "nest", "cur"} \subseteq DOMAIN d
  BY <1>4 DEF rt_schedule_insert_thread, KernelState
<1> HIDE DEF d
<1>7. Unmoved(d, rt_schedule(d)) BY <1>6 DEF Unmoved, rt_schedule
<1> QED BY <1>1, <1>3, <1>4, <1>5, <1>7 DEF Left, Unmoved, t

\* The threads outside T are as they were: state, code, timer, list.
Same(s, r, T) ==
  \A u \in Thread \ T :
    /\ r.stat[u] = s.stat[u] /\ r.err[u] = s.err[u]
    /\ Off(r, u) <=> Off(s, u)
    /\ u \in Timed(r) <=> u \in Timed(s)
    /\ \A w \in WaitList : u \in On(r, w) <=> u \in On(s, w)

LEMMA SameTrans ==
  ASSUME NEW s, NEW q, NEW r, NEW T, Same(s, q, T), Same(q, r, T)
  PROVE  Same(s, r, T)
  BY DEF Same

LEMMA StillSame ==
  ASSUME NEW s, NEW r, Still(s, r), r.err = s.err, Unmoved(s, r)
  PROVE  Same(s, r, {})
  BY DEF Still, Same, Unmoved, On

LEMMA FrameSame ==
  ASSUME NEW s, KernelOK(s), NEW r, NEW t \in Thread, Frame(s, r, t),
         \A u \in Thread \ {t} : r.err[u] = s.err[u], Left(s, r, t)
  PROVE  Same(s, r, {t})
<1> SUFFICES ASSUME NEW u \in Thread \ {t}, NEW w \in WaitList
             PROVE  u \in On(r, w) <=> u \in On(s, w)
  BY DEF Same, Frame
<1>1. s.list[w] \in Seq(Thread) /\ NoDup(s.list[w])
  BY KernelFields DEF KernelOK, Apart, ListHead
<1>2. ToSet(Without(s.list[w], t)) = ToSet(s.list[w]) \ {t} BY <1>1, RemoveList
<1> QED BY <1>2 DEF Left, On

\* rt_schedule moves no thread.
LEMMA ScheduleSame ==
  ASSUME NEW s, KernelOK(s)
  PROVE  Same(s, rt_schedule(s), {})
<1>1. Still(s, rt_schedule(s)) BY Dispatch
<1>2. Codes(s, rt_schedule(s)) /\ Unmoved(s, rt_schedule(s))
  BY QueueCodes, QueueMoves, ThreadAssumption DEF KernelOK
<1> QED BY <1>1, <1>2, StillSame DEF Codes

\* rt_thread_resume, of a thread that waits.
LEMMA ResumeSame ==
  ASSUME NEW s, KernelOK(s), NEW t \in Thread, s.stat[t] = "SUSPEND"
  PROVE  Same(s, rt_thread_resume(s, t), {t})
  BY ResumeThread, ResumeCodes, ResumeMoves, FrameSame DEF Codes

\* A timer that expires.
LEMMA FireSame ==
  ASSUME NEW s, KernelOK(s), s.timers # <<>>
  PROVE  Same(s, TimerFire(s), {Head(s.timers)})
<1> DEFINE t == Head(s.timers)
           r == TimerFire(s)
<1>1. t \in Thread /\ Frame(s, r, t) BY FireTimer
<1>2. r.err = [s.err EXCEPT ![t] = "ETIMEOUT"] /\ Left(s, r, t) BY FireCodes, FireMoves
<1>3. s.err \in [Thread -> Error] BY KernelFields DEF KernelOK
<1> HIDE DEF t, r
<1>4. \A u \in Thread \ {t} : r.err[u] = s.err[u] BY <1>2, <1>3
<1>5. Same(s, r, {t}) BY <1>1, <1>2, <1>4, FrameSame
<1> QED BY <1>5 DEF t, r

\* A code written into a thread.
LEMMA ErrorSame ==
  ASSUME NEW s, KernelOK(s), NEW t \in Thread, NEW e \in Error
  PROVE  LET r == [s EXCEPT !.err[t] = e]
         IN  Same(s, r, {t}) /\ r.list = s.list /\ r.timers = s.timers
<1> DEFINE r == [s EXCEPT !.err[t] = e]
<1>1. Still(s, r) /\ r.err = [s.err EXCEPT ![t] = e] /\ r.list = s.list BY SetError
<1>2. s.err \in [Thread -> Error] /\ r.timers = s.timers
  BY KernelFields DEF KernelOK, KernelState
<1> HIDE DEF r
<1>3. \A u \in Thread \ {t} : r.err[u] = s.err[u] BY <1>1, <1>2
<1>4. Same(s, r, {t}) BY <1>1, <1>3 DEF Same, Still, On
<1> QED BY <1>1, <1>2, <1>4 DEF r

\* RT_THREAD_CTRL_CHANGE_PRIORITY moves a thread between ready queues only.
LEMMA PrioritySame ==
  ASSUME NEW s, KernelOK(s), NEW t \in Thread \ {Idle}, NEW p \in Prio,
         s.stat[t] = "READY" => ~Off(s, t)
  PROVE  LET r == ChangePriority(s, t, p)
         IN  Same(s, r, {}) /\ Unmoved(s, r) /\ r.err = s.err
<1> DEFINE r == ChangePriority(s, t, p)
           u == rt_schedule_remove_thread(s, t)
           v == [u EXCEPT !.prio[t] = p]
           w == [s EXCEPT !.prio[t] = p]
<1>1. Still(s, r) BY MovePriority
<1>2. CASE s.stat[t] = "READY"
  <2>1. t \notin Timed(s) BY <1>2 DEF KernelOK, Placed
  <2>2. KernelOK(u) BY <2>1, RemovePlain
  <2>3. Left(s, u, t) BY RemoveMoves DEF KernelOK
  <2>4. Unmoved(s, u) BY <1>2, <2>3, NotOnList, NotWaiting
  <2>5. u.err = s.err
    <3> DEFINE b == rt_list_remove(s, t)
    <3>1. b = [s EXCEPT !.list = [l \in ListHead |-> Without(s.list[l], t)]] BY DEF rt_list_remove
    <3>2. DOMAIN b = DOMAIN s /\ "err" \in DOMAIN s /\ b.err = s.err
      BY <3>1 DEF KernelOK, KernelState
    <3>3. u = [b EXCEPT !.group = IF b.list[s.prio[t]] = <<>> THEN b.group \ {s.prio[t]} ELSE b.group]
      BY DEF rt_schedule_remove_thread
    <3> HIDE DEF b, u
    <3> QED BY <3>2, <3>3
  <2> HIDE DEF u
  <2>6. v \in KernelState /\ v.list = u.list /\ v.err = u.err
    BY <2>2 DEF KernelOK, KernelState
  <2> HIDE DEF v
  <2>7. r = rt_schedule_insert_thread(v, t) BY <1>2 DEF ChangePriority, u, v
  <2> HIDE DEF r
  <2>8. Unmoved(v, r) /\ r.err = v.err BY <2>6, <2>7, QueueMoves, QueueCodes DEF Codes
  <2>9. Unmoved(s, r) /\ r.err = s.err BY <2>4, <2>5, <2>6, <2>8 DEF Unmoved
  <2>10. Same(s, r, {}) BY <1>1, <2>9, StillSame
  <2> QED BY <2>9, <2>10 DEF r
<1>3. CASE s.stat[t] # "READY"
  <2>1. r = w BY <1>3 DEF ChangePriority
  <2>2. w.list = s.list /\ w.err = s.err BY DEF KernelOK, KernelState
  <2> HIDE DEF w, r
  <2>3. Unmoved(s, r) /\ r.err = s.err BY <2>1, <2>2 DEF Unmoved
  <2>4. Same(s, r, {}) BY <1>1, <2>3, StillSame DEF r
  <2> QED BY <2>3, <2>4 DEF r
<1> QED BY <1>2, <1>3

\* The tick interrupt moves no thread off or onto a suspend list.
LEMMA TickSame ==
  ASSUME NEW s, KernelOK(s), s.cur \in Thread,
         s.stat[s.cur] = "READY" => ~Off(s, s.cur)
  PROVE  Same(s, TickIncrease(s), {}) /\ Unmoved(s, TickIncrease(s))
<1> DEFINE t == s.cur
           f == [u \in Thread |-> IF s.left[u] > 0 THEN s.left[u] - 1 ELSE 0]
           g == [s.slice EXCEPT ![t] = IF s.slice[t] = 1 THEN InitTick ELSE s.slice[t] - 1]
           a == [s EXCEPT !.left = f, !.slice = g]
           b == rt_list_remove(a, t)
           c == ToQueueEnd(a, t)
           r == TickIncrease(s)
<1>1. r = IF s.slice[t] = 1 THEN rt_thread_yield(a) ELSE a
  BY DEF TickIncrease, KernelOK, KernelState
<1>2. Still(s, r) /\ r.err = s.err BY TickThreads, TickCodes DEF Codes
<1>3. /\ a.list = s.list /\ a.stat = s.stat /\ a.cur = t /\ a.prio = s.prio
      /\ {"list", "cur", "nest"} \subseteq DOMAIN a
  BY DEF KernelOK, KernelState
<1> HIDE DEF a, r
<1>4. CASE r = a
  <2>1. Unmoved(s, r) BY <1>3, <1>4 DEF Unmoved
  <2> QED BY <1>2, <2>1, StillSame DEF r
<1>5. CASE r # a
  <2>1. s.stat[t] = "READY" /\ r = rt_schedule(c)
    BY <1>1, <1>3, <1>5 DEF rt_thread_yield, SharesQueue
  <2>2. b = [a EXCEPT !.list = [l \in ListHead |-> Without(a.list[l], t)]] BY DEF rt_list_remove
  <2>3. /\ b.list = [l \in ListHead |-> Without(s.list[l], t)] /\ DOMAIN b = DOMAIN a
    BY <1>3, <2>2
  <2> HIDE DEF b
  <2>4. c = [b EXCEPT !.list[a.prio[t]] = Append(@, t)] BY DEF ToQueueEnd, b
  <2>5. s.prio[t] \in Prio BY KernelFields DEF KernelOK
  <2>6. /\ DOMAIN c = DOMAIN a
        /\ c.list = [b.list EXCEPT ![s.prio[t]] = Append(b.list[s.prio[t]], t)]
    BY <1>3, <2>3, <2>4
  <2> HIDE DEF c
  <2>7. \A w \in WaitList : c.list[w] = Without(s.list[w], t)
    BY <2>3, <2>5, <2>6, ListAssumption DEF ListHead
  <2>8. r.list = c.list BY <1>3, <2>1, <2>6 DEF rt_schedule
  <2>9. Left(s, r, t) BY <2>7, <2>8 DEF Left
  <2>10. Unmoved(s, r) BY <2>1, <2>9, NotOnList, NotWaiting
  <2> QED BY <1>2, <2>10, StillSame DEF r
<1> QED BY <1>4, <1>5 DEF r

\* A thread that suspends itself.
LEMMA SuspendSame ==
  ASSUME NEW s, KernelOK(s), NEW t \in Thread \ {Idle}, s.stat[t] = "READY"
  PROVE  LET r == rt_timer_stop(rt_schedule_remove_thread([s EXCEPT !.stat[t] = "SUSPEND"], t), t)
         IN  Same(s, r, {t}) /\ Unmoved(s, r) /\ r.err = s.err
<1> DEFINE o == [s EXCEPT !.stat[t] = "SUSPEND"]
           a == rt_schedule_remove_thread(o, t)
           r == rt_timer_stop(a, t)
<1>1. Frame(s, r, t) BY SuspendThread
<1>2. KernelOK(a) BY RemoveThread DEF Stat
<1>3. o \in KernelState /\ o.list = s.list /\ o.err = s.err
  BY DEF KernelOK, KernelState, Stat
<1>4. Codes(s, a) BY RemoveCodes DEF Stat, KernelOK
<1> HIDE DEF o
<1>5. Left(o, a, t) BY <1>3, RemoveMoves
<1> HIDE DEF a
<1>6. Unmoved(a, r) /\ Codes(a, r) BY <1>2, UnlinkMoves, UnlinkCodes DEF KernelOK
<1> HIDE DEF r
<1>7. Left(s, r, t) /\ r.err = s.err BY <1>3, <1>4, <1>5, <1>6 DEF Left, Unmoved, Codes
<1>8. Unmoved(s, r) BY <1>7, NotOnList, NotWaiting
<1>9. Same(s, r, {t}) BY <1>1, <1>7, FrameSame
<1> QED BY <1>7, <1>8, <1>9 DEF r, a, o

\* rt_timer_start moves nobody.
LEMMA StartSame ==
  ASSUME NEW s, KernelOK(s), NEW t \in Thread, s.stat[t] = "SUSPEND", NEW n \in Nat
  PROVE  Same(s, rt_timer_start(s, t, n), {t}) /\ Unmoved(s, rt_timer_start(s, t, n))
<1> DEFINE r == rt_timer_start(s, t, n)
<1>1. Frame(s, r, t) BY TimerStart
<1>2. Codes(s, r) /\ Unmoved(s, r) BY TimerCodes, QueueMoves DEF KernelOK
<1> HIDE DEF r
<1>3. Same(s, r, {t}) BY <1>1, <1>2 DEF Same, Frame, Codes, Unmoved, On
<1> QED BY <1>2, <1>3 DEF r

\* rt_thread_sleep.
LEMMA SleepSame ==
  ASSUME NEW s, KernelOK(s), NEW t \in Thread \ {Idle}, s.stat[t] = "READY", NEW n \in Nat
  PROVE  Same(s, rt_thread_sleep(s, t, n), {t}) /\ t \in Timed(rt_thread_sleep(s, t, n))
<1> DEFINE q == rt_timer_stop(rt_schedule_remove_thread([s EXCEPT !.stat[t] = "SUSPEND"], t), t)
           r == rt_timer_start(q, t, n)
<1>1. rt_thread_sleep(s, t, n) = r BY DEF rt_thread_sleep, rt_thread_suspend
<1>2. KernelOK(q) /\ q.stat[t] = "SUSPEND" /\ Same(s, q, {t}) BY SuspendThread, SuspendSame
<1> HIDE DEF q
<1>3. Same(q, r, {t}) /\ t \in Timed(r) BY <1>2, StartSame, TimerStart
<1> HIDE DEF r
<1> QED BY <1>1, <1>2, <1>3, SameTrans

\* rt_thread_sleep leaves the suspend lists, the codes and the priorities alone.
LEMMA SleepMoves ==
  ASSUME NEW s, KernelOK(s), NEW t \in Thread \ {Idle}, s.stat[t] = "READY", NEW n \in Nat
  PROVE  LET r == rt_thread_sleep(s, t, n) IN Codes(s, r) /\ Unmoved(s, r)
<1> DEFINE a == rt_schedule_remove_thread([s EXCEPT !.stat[t] = "SUSPEND"], t)
           q == rt_timer_stop(a, t)
           r == rt_timer_start(q, t, n)
<1>1. rt_thread_sleep(s, t, n) = r BY DEF rt_thread_sleep, rt_thread_suspend
<1>2. KernelOK(q) /\ Unmoved(s, q) BY SuspendThread, SuspendSame
<1>3. KernelOK(a) /\ Codes(s, a) BY RemoveThread, RemoveCodes DEF Stat, KernelOK
<1> HIDE DEF a
<1>4. Codes(a, q) BY <1>3, UnlinkCodes DEF KernelOK
<1> HIDE DEF q
<1>5. Codes(q, r) /\ Unmoved(q, r) BY <1>2, TimerCodes, QueueMoves DEF KernelOK
<1> HIDE DEF r
<1>6. Codes(s, r) /\ Unmoved(s, r) BY <1>2, <1>3, <1>4, <1>5 DEF Codes, Unmoved
<1> QED BY <1>1, <1>6

\* rt_ipc_list_suspend links the thread to the list it names.
LEMMA ListSuspendSame ==
  ASSUME NEW s, KernelOK(s), NEW t \in Thread \ {Idle}, s.stat[t] = "READY",
         NEW w \in WaitList, NEW flag
  PROVE  LET r == rt_ipc_list_suspend(s, w, t, flag)
         IN  Same(s, r, {t}) /\ t \in On(r, w)
<1> DEFINE u == rt_timer_stop(rt_schedule_remove_thread([s EXCEPT !.stat[t] = "SUSPEND"], t), t)
           lower == {i \in DOMAIN u.list[w] : u.prio[t] < u.prio[u.list[w][i]]}
           i == IF flag = "PRIO" /\ lower # {}
                THEN CHOOSE i \in lower : \A j \in lower : i <= j
                ELSE Len(u.list[w]) + 1
           q == InsertAt(u.list[w], i, t)
           r == [u EXCEPT !.list[w] = InsertAt(@, i, t)]
<1>1. rt_ipc_list_suspend(s, w, t, flag) = r
  BY DEF rt_ipc_list_suspend, rt_thread_suspend
<1>2. Frame(s, r, t) /\ Codes(s, r)
  <2> HIDE DEF r
  <2>1. Frame(s, rt_ipc_list_suspend(s, w, t, flag), t) /\ Codes(s, rt_ipc_list_suspend(s, w, t, flag))
    BY ListSuspend
  <2> QED BY <1>1, <2>1
<1>3. KernelOK(u) /\ Unmoved(s, u) BY SuspendThread, SuspendSame
<1> HIDE DEF u
<1>4. u.list \in [ListHead -> Seq(Thread)] /\ w \in ListHead
  BY <1>3, KernelFields DEF KernelOK, ListHead
<1>5. i \in 1..(Len(u.list[w]) + 1) BY <1>4, PlaceInList
<1> HIDE DEF i
<1>6. ToSet(q) = ToSet(u.list[w]) \cup {t} BY <1>4, <1>5, InsertList
<1> HIDE DEF q
<1>7. r.list = [u.list EXCEPT ![w] = q]
  BY <1>3 DEF q, KernelOK, KernelState
<1> HIDE DEF r
<1>8. \A l \in WaitList : On(r, l) = IF l = w THEN On(s, l) \cup {t} ELSE On(s, l)
  BY <1>3, <1>4, <1>6, <1>7 DEF On, Unmoved, ListHead
<1>9. Same(s, r, {t}) BY <1>2, <1>8 DEF Same, Frame, Codes
<1> QED BY <1>1, <1>8, <1>9

-----------------------------------------------------------------------------
(* The kernel that has started every thread.                               *)

\* A finite set as a sequence.
LEMMA SetAsSeq ==
  ASSUME NEW S, IsFiniteSet(S)
  PROVE  /\ SetToSeq(S) \in Seq(S) /\ ToSet(SetToSeq(S)) = S /\ NoDup(SetToSeq(S))
         /\ Len(SetToSeq(S)) = Cardinality(S)
<1> DEFINE n == Cardinality(S)
           q == SetToSeq(S)
<1>1. n \in Nat /\ ExistsBijection(1..n, S) BY FS_CardinalityType
<1>2. \E f \in [1..n -> S] : IsInjective(f)
  BY <1>1 DEF ExistsBijection, Bijection, Injection, IsInjective
<1>3. q \in [1..n -> S] /\ IsInjective(q) BY <1>2 DEF SetToSeq
<1> HIDE DEF q
<1>4. q \in Seq(S) /\ DOMAIN q = 1..n BY <1>1, <1>3
<1>5. NoDup(q) BY <1>3 DEF NoDup, IsInjective
<1>6. ToSet(q) = S
  <2> DEFINE R == ToSet(q)
  <2>1. R \subseteq S BY <1>3, <1>4 DEF ToSet
  <2>2. q \in Bijection(1..n, R)
    BY <1>3, <1>4 DEF Bijection, Injection, Surjection, ToSet, IsInjective
  <2>3. IsFiniteSet(1..n) /\ Cardinality(1..n) = n BY <1>1, FS_Interval
  <2>4. Cardinality(R) = n BY <2>2, <2>3, FS_Bijection DEF ExistsBijection
  <2> QED BY <2>1, <2>4, FS_Subset
<1>7. Len(q) = n BY <1>1, <1>4
<1> QED BY <1>4, <1>5, <1>6, <1>7 DEF q

\* Power on and start: every thread ready on the queue of its priority, the
\* first of the highest one running.
LEMMA BootedOK ==
  ASSUME IsFiniteSet(Thread), NEW p0 \in [Thread -> Prio], p0[Idle] = IdlePrio
  PROVE  LET r == Booted(p0)
         IN  /\ KernelOK(r) /\ r.nest = 0 /\ r.timers = <<>>
             /\ r.cur \in Thread /\ r.err \in [Thread -> {"EOK"}]
             /\ \A t \in Thread : r.stat[t] = "READY" /\ ~Off(r, t)
<1> DEFINE A(p) == {t \in Thread : p0[t] = p}
           list == [l \in ListHead |-> IF l \in Prio THEN SetToSeq(A(l)) ELSE <<>>]
           group == {p \in Prio : A(p) # {}}
           s == [PowerOn(p0) EXCEPT !.stat = [t \in Thread |-> "READY"],
                                    !.list = list, !.group = group]
<1>1. Booted(p0) = rt_schedule(s) BY DEF Booted
<1>2. \A p \in Prio : /\ list[p] \in Seq(Thread) /\ NoDup(list[p])
                      /\ ToSet(list[p]) = A(p) /\ p \in ListHead
  <2> TAKE p \in Prio
  <2>1. IsFiniteSet(A(p)) BY FS_Subset
  <2>2. SetToSeq(A(p)) \in Seq(A(p)) /\ ToSet(SetToSeq(A(p))) = A(p) /\ NoDup(SetToSeq(A(p)))
    BY <2>1, SetAsSeq
  <2>3. p \in ListHead /\ list[p] = SetToSeq(A(p)) BY DEF ListHead
  <2>4. A(p) \subseteq Thread OBVIOUS
  <2> HIDE DEF A, list
  <2>5. list[p] \in Seq(Thread) BY <2>2, <2>3, <2>4
  <2> QED BY <2>2, <2>3, <2>5
<1>3. \A l \in ListHead \ Prio : list[l] = <<>> /\ ToSet(list[l]) = {}
  <2> TAKE l \in ListHead \ Prio
  <2>1. list[l] = <<>> OBVIOUS
  <2> HIDE DEF list
  <2> QED BY <2>1 DEF ToSet
<1>4. list \in [ListHead -> Seq(Thread)] /\ group \in SUBSET Prio
  <2>1. \A l \in ListHead : list[l] \in Seq(Thread)
    <3> TAKE l \in ListHead
    <3> HIDE DEF list, A, group, s
    <3>1. <<>> \in Seq(Thread) OBVIOUS
    <3>2. l \in Prio => list[l] \in Seq(Thread) BY <1>2
    <3>3. l \notin Prio => list[l] = <<>> BY <1>3
    <3> QED BY <3>1, <3>2, <3>3
  <2>2. list \in [ListHead -> Seq(Thread)] BY <2>1
  <2>3. group \in SUBSET Prio OBVIOUS
  <2> QED BY <2>2, <2>3
<1>5. /\ s \in KernelState
      /\ s.stat = [t \in Thread |-> "READY"] /\ s.prio = p0 /\ s.list = list /\ s.group = group
      /\ s.timers = <<>> /\ s.nest = 0 /\ s.err = [t \in Thread |-> "EOK"]
  <2> HIDE DEF list, group
  <2>1. s = [stat |-> [t \in Thread |-> "READY"], prio |-> p0, init |-> p0,
             err |-> [t \in Thread |-> "EOK"], slice |-> [t \in Thread |-> InitTick],
             list |-> list, group |-> group, cur |-> NoThread,
             nest |-> 0, timers |-> <<>>, left |-> [t \in Thread |-> 0]]
    <3> DEFINE closed == [t \in Thread |-> "CLOSE"]
               ready == [t \in Thread |-> "READY"]
               eok == [t \in Thread |-> "EOK"]
               tick == [t \in Thread |-> InitTick]
               none == [l \in ListHead |-> <<>>]
               zero == [t \in Thread |-> 0]
               o == PowerOn(p0)
    <3>1. o = [stat |-> closed, prio |-> p0, init |-> p0, err |-> eok, slice |-> tick,
               list |-> none, group |-> {}, cur |-> NoThread, nest |-> 0, timers |-> <<>>,
               left |-> zero]
      BY DEF PowerOn
    <3>2. s = [o EXCEPT !.stat = ready, !.list = list, !.group = group] OBVIOUS
    <3> HIDE DEF closed, ready, eok, tick, none, zero, o, s
    <3>3. s = [stat |-> ready, prio |-> p0, init |-> p0, err |-> eok, slice |-> tick,
               list |-> list, group |-> group, cur |-> NoThread, nest |-> 0, timers |-> <<>>,
               left |-> zero]
      BY <3>1, <3>2
    <3> QED BY <3>3 DEF ready, eok, tick, zero
  <2>2. InitTick \in 1..InitTick BY BoundAssumption
  <2>4. /\ [t \in Thread |-> "READY"] \in [Thread -> Stat]
        /\ [t \in Thread |-> "EOK"] \in [Thread -> Error]
        /\ [t \in Thread |-> InitTick] \in [Thread -> 1..InitTick]
        /\ [t \in Thread |-> 0] \in [Thread -> Nat]
        /\ <<>> \in Seq(Thread)
    BY <2>2 DEF Stat, Error
  <2> HIDE DEF s
  <2>3. s \in KernelState BY <1>4, <2>1, <2>4 DEF KernelState
  <2> QED BY <2>1, <2>3
<1> HIDE DEF s, list
<1>6. Apart(s)
  <2>1. \A l \in ListHead : NoDup(s.list[l]) BY <1>2, <1>3, <1>5 DEF NoDup
  <2>2. \A l, m \in ListHead : On(s, l) \cap On(s, m) # {} => l = m
    <3> TAKE l, m \in ListHead
    <3> HAVE On(s, l) \cap On(s, m) # {}
    <3>1. l \in Prio /\ m \in Prio BY <1>3, <1>5 DEF On
    <3>2. On(s, l) = A(l) /\ On(s, m) = A(m) BY <3>1, <1>2, <1>5 DEF On
    <3> QED BY <3>2
  <2>3. NoDup(s.timers) BY <1>5 DEF NoDup
  <2> QED BY <2>1, <2>2, <2>3 DEF Apart
<1>7. Placed(s)
  <2> SUFFICES ASSUME NEW t \in Thread
               PROVE  /\ \A p \in Prio : t \in On(s, p) => s.stat[t] = "READY" /\ s.prio[t] = p
                      /\ \A w \in WaitList : t \notin On(s, w)
                      /\ t \notin On(s, Defunct) /\ t \notin Timed(s)
    BY DEF Placed
  <2>1. \A p \in Prio : t \in On(s, p) => s.stat[t] = "READY" /\ s.prio[t] = p
    BY <1>2, <1>5 DEF On
  <2>2. \A w \in WaitList : t \notin On(s, w)
    BY <1>3, <1>5, ListAssumption DEF On, ListHead
  <2>3. t \notin On(s, Defunct) BY <1>3, <1>5, ListAssumption DEF On, ListHead
  <2>4. t \notin Timed(s) BY <1>5 DEF Timed, ToSet
  <2> QED BY <2>1, <2>2, <2>3, <2>4
<1>8. Bitmap(s)
  <2>1. ASSUME NEW p \in Prio PROVE A(p) # {} <=> s.list[p] # <<>>
    BY <1>2, <1>5, EmptyList
  <2> QED BY <2>1, <1>5 DEF Bitmap
<1>9. Idle \in On(s, IdlePrio)
  <2>1. IdlePrio \in Prio BY BoundAssumption DEF IdlePrio, Prio
  <2> QED BY <2>1, <1>2, <1>5, ThreadAssumption DEF On
<1>10. KernelOK(s) BY <1>5, <1>6, <1>7, <1>8, <1>9 DEF KernelOK
<1>11. \A t \in Thread : ~Off(s, t)
  <2> TAKE t \in Thread
  <2>1. p0[t] \in Prio OBVIOUS
  <2>2. t \in A(p0[t]) OBVIOUS
  <2>3. p0[t] \in ListHead /\ t \in On(s, p0[t]) BY <2>1, <2>2, <1>2, <1>5 DEF On
  <2> QED BY <2>3 DEF Off
<1>12. LET r == rt_schedule(s)
       IN  KernelOK(r) /\ Still(s, r) /\ Chosen(s, r) /\ r.timers = s.timers /\ Codes(s, r)
  BY <1>10, Dispatch, QueueCodes, <1>5
<1> QED BY <1>1, <1>5, <1>11, <1>12 DEF Still, Chosen, Codes

\* A list gets shorter by the thread that leaves it.
LEMMA WithoutLen ==
  ASSUME NEW S, NEW q \in Seq(S), NEW t \in ToSet(q)
  PROVE  Len(Without(q, t)) = Len(q) - 1
  BY RemovePositions

-----------------------------------------------------------------------------
(* Lists in priority order, for some priorities p.                         *)

Ordered(p, q) == \A i, j \in DOMAIN q : i < j => p[q[i]] <= p[q[j]]

\* The first of an ordered list is of the highest priority in it.
LEMMA OrderedHead ==
  ASSUME NEW q \in Seq(Thread), NEW p \in [Thread -> Prio], Ordered(p, q), NEW t \in ToSet(q)
  PROVE  p[Head(q)] <= p[t]
<1>1. PICK j \in DOMAIN q : q[j] = t BY DEF ToSet
<1>2. Head(q) = q[1] /\ 1 \in DOMAIN q /\ j \in Nat \ {0} BY <1>1
<1>3. CASE j = 1
  <2>1. q[1] \in Thread BY <1>2
  <2>2. p[q[1]] \in Nat BY <2>1, BoundAssumption DEF Prio
  <2> QED BY <1>1, <1>2, <1>3, <2>2
<1>4. CASE j # 1
  <2>1. 1 < j BY <1>2, <1>4
  <2> QED BY <1>1, <1>2, <2>1 DEF Ordered
<1> QED BY <1>3, <1>4

\* A list stays in order when a thread leaves it.
LEMMA RemoveOrdered ==
  ASSUME NEW q \in Seq(Thread), NEW p, Ordered(p, q), NEW t
  PROVE  Ordered(p, Without(q, t))
<1>1. CASE t \notin ToSet(q) BY <1>1 DEF Without
<1>2. CASE t \in ToSet(q)
  <2> DEFINE n == Index(q, t)
             r == Without(q, t)
  <2>1. /\ n \in 1..Len(q) /\ DOMAIN q = 1..Len(q) /\ Len(q) \in Nat
        /\ DOMAIN r = 1..(Len(q) - 1)
        /\ \A i \in DOMAIN r : r[i] = IF i < n THEN q[i] ELSE q[i + 1]
    BY <1>2, RemovePositions
  <2> HIDE DEF n, r
  <2> SUFFICES ASSUME NEW i \in DOMAIN r, NEW j \in DOMAIN r, i < j PROVE p[r[i]] <= p[r[j]]
    BY DEF Ordered, r
  <2> DEFINE a == IF i < n THEN i ELSE i + 1
             b == IF j < n THEN j ELSE j + 1
  <2>2. r[i] = q[a] /\ r[j] = q[b] BY <2>1
  <2>3. a \in DOMAIN q /\ b \in DOMAIN q /\ a < b BY <2>1
  <2> QED BY <2>2, <2>3 DEF Ordered
<1> QED BY <1>1, <1>2

\* Where rt_ipc_list_suspend links a thread on a list with the PRIO flag.
PlaceByPrio(p, q, t) ==
  LET lower == {i \in DOMAIN q : p[t] < p[q[i]]}
  IN  IF lower # {} THEN CHOOSE i \in lower : \A j \in lower : i <= j ELSE Len(q) + 1

\* There it is behind its equals and before everybody lower.
LEMMA InsertOrdered ==
  ASSUME NEW q \in Seq(Thread), NEW p \in [Thread -> Prio], Ordered(p, q), NEW t \in Thread
  PROVE  Ordered(p, InsertAt(q, PlaceByPrio(p, q, t), t))
<1> DEFINE n == PlaceByPrio(p, q, t)
           r == InsertAt(q, n, t)
           lower == {i \in DOMAIN q : p[t] < p[q[i]]}
           len == Len(q)
<1>1. len \in Nat /\ DOMAIN q = 1..len OBVIOUS
<1>2. \A i \in DOMAIN q : p[q[i]] \in Int
  <2> TAKE i \in DOMAIN q
  <2>1. q[i] \in Thread OBVIOUS
  <2> QED BY <2>1, BoundAssumption DEF Prio
<1>3. p[t] \in Int BY BoundAssumption DEF Prio
<1> HIDE DEF len, lower, n, r
<1>4. /\ n \in 1..(len + 1)
      /\ \A i \in DOMAIN q : i < n => p[q[i]] <= p[t]
      /\ \A i \in DOMAIN q : i >= n => p[t] <= p[q[i]]
  <2>1. CASE lower # {}
    <3>1. lower \in SUBSET Nat BY <1>1 DEF lower
    <3>2. \E m \in lower : \A j \in lower : m <= j BY <2>1, <3>1, Minimum
    <3>3. n = CHOOSE i \in lower : \A j \in lower : i <= j BY <2>1 DEF n, lower, PlaceByPrio
    <3>4. n \in lower /\ \A j \in lower : n <= j BY <3>2, <3>3
    <3>5. n \in DOMAIN q /\ p[t] < p[q[n]] BY <3>4 DEF lower
    <3>6. ASSUME NEW i \in DOMAIN q, i < n PROVE p[q[i]] <= p[t]
      <4>1. i \notin lower BY <1>1, <3>4, <3>5, <3>6
      <4> QED BY <1>2, <1>3, <4>1 DEF lower
    <3>7. ASSUME NEW i \in DOMAIN q, i >= n PROVE p[t] <= p[q[i]]
      <4>1. i = n \/ p[q[n]] <= p[q[i]] BY <1>1, <3>5, <3>7 DEF Ordered
      <4>2. p[q[i]] \in Int /\ p[q[n]] \in Int BY <1>2, <3>5
      <4> QED BY <1>3, <3>5, <4>1, <4>2
    <3> QED BY <1>1, <3>5, <3>6, <3>7
  <2>2. CASE lower = {}
    <3>1. n = len + 1 BY <2>2 DEF n, len, lower, PlaceByPrio
    <3>2. \A i \in DOMAIN q : p[q[i]] <= p[t] BY <1>2, <1>3, <2>2 DEF lower
    <3> QED BY <1>1, <3>1, <3>2
  <2> QED BY <2>1, <2>2
<1>5. /\ DOMAIN r = 1..(len + 1) /\ \A i \in 1..(n - 1) : r[i] = q[i]
      /\ \A i \in n..len : r[i + 1] = q[i]
  <2>1. n \in 1..(Len(q) + 1) BY <1>4 DEF len
  <2>2. LET x == InsertAt(q, n, t)
        IN  /\ DOMAIN x = 1..(Len(q) + 1) /\ \A i \in 1..(n - 1) : x[i] = q[i]
            /\ \A i \in n..Len(q) : x[i + 1] = q[i]
    BY <2>1, InsertPositions
  <2> QED BY <2>2 DEF r, len
<1>6. r[n] = t
  <2>1. n \in 1..(Len(q) + 1) BY <1>4 DEF len
  <2> QED BY <2>1, InsertPositions DEF r
<1> SUFFICES ASSUME NEW i \in DOMAIN r, NEW j \in DOMAIN r, i < j PROVE p[r[i]] <= p[r[j]]
  BY DEF Ordered, r, n
<1>7. i \in Nat /\ j \in Nat /\ n \in Nat BY <1>1, <1>4, <1>5
<1>8. ASSUME NEW h \in DOMAIN r, h > n PROVE h - 1 \in DOMAIN q /\ h - 1 >= n /\ r[h] = q[h - 1]
  <2>1. h - 1 \in n..len /\ (h - 1) + 1 = h BY <1>1, <1>4, <1>5, <1>8
  <2>2. r[(h - 1) + 1] = q[h - 1] BY <1>5, <2>1
  <2> QED BY <1>1, <1>4, <2>1, <2>2
<1>9. ASSUME NEW h \in DOMAIN r, h < n PROVE h \in DOMAIN q /\ r[h] = q[h]
  BY <1>1, <1>4, <1>5, <1>9
<1>10. CASE j < n BY <1>7, <1>9, <1>10 DEF Ordered
<1>11. CASE j = n BY <1>4, <1>6, <1>7, <1>9, <1>11
<1>12. CASE j > n
  <2>1. CASE i < n
    <3>1. i < j - 1 BY <1>7, <1>12, <2>1
    <3> QED BY <1>8, <1>9, <1>12, <2>1, <3>1 DEF Ordered
  <2>2. CASE i = n BY <1>4, <1>6, <1>8, <1>12, <2>2
  <2>3. CASE i > n
    <3>1. i - 1 < j - 1 BY <1>7
    <3> QED BY <1>8, <1>12, <2>3, <3>1 DEF Ordered
  <2> QED BY <1>7, <2>1, <2>2, <2>3
<1> QED BY <1>7, <1>10, <1>11, <1>12

\* rt_ipc_list_suspend with the PRIO flag keeps its list in order, and the
\* other suspend lists as they are.
LEMMA SuspendOrdered ==
  ASSUME NEW s, KernelOK(s), NEW t \in Thread \ {Idle}, s.stat[t] = "READY",
         NEW w \in WaitList, NEW flag
  PROVE  LET r == rt_ipc_list_suspend(s, w, t, flag)
         IN  /\ \A v \in WaitList \ {w} : r.list[v] = s.list[v]
             /\ flag = "PRIO" /\ Ordered(s.prio, s.list[w]) => Ordered(r.prio, r.list[w])
<1> DEFINE u == rt_timer_stop(rt_schedule_remove_thread([s EXCEPT !.stat[t] = "SUSPEND"], t), t)
           lower == {i \in DOMAIN u.list[w] : u.prio[t] < u.prio[u.list[w][i]]}
           i == IF flag = "PRIO" /\ lower # {}
                THEN CHOOSE i \in lower : \A j \in lower : i <= j
                ELSE Len(u.list[w]) + 1
           r == [u EXCEPT !.list[w] = InsertAt(@, i, t)]
<1>1. rt_ipc_list_suspend(s, w, t, flag) = r
  BY DEF rt_ipc_list_suspend, rt_thread_suspend
<1>2. Codes(s, r)
  <2> HIDE DEF r
  <2>1. Codes(s, rt_ipc_list_suspend(s, w, t, flag)) BY ListSuspend
  <2> QED BY <1>1, <2>1
<1>3. KernelOK(u) /\ Unmoved(s, u) BY SuspendThread, SuspendSame
<1>4. flag = "PRIO" => i = PlaceByPrio(u.prio, u.list[w], t) BY DEF PlaceByPrio
<1> HIDE DEF i, u
<1>5. /\ u.list \in [ListHead -> Seq(Thread)] /\ WaitList \subseteq ListHead
      /\ r.list = [u.list EXCEPT ![w] = InsertAt(u.list[w], i, t)] /\ r.prio = u.prio
      /\ u.prio \in [Thread -> Prio]
  BY <1>3, KernelFields DEF KernelOK, KernelState, ListHead
<1> HIDE DEF r
<1>6. \A v \in WaitList \ {w} : r.list[v] = s.list[v] BY <1>3, <1>5 DEF Unmoved
<1>7. ASSUME flag = "PRIO", Ordered(s.prio, s.list[w]) PROVE Ordered(r.prio, r.list[w])
  <2>1. u.prio = s.prio /\ u.list[w] = s.list[w] /\ u.list[w] \in Seq(Thread)
    BY <1>2, <1>3, <1>5 DEF Codes, Unmoved
  <2>2. Ordered(u.prio, InsertAt(u.list[w], PlaceByPrio(u.prio, u.list[w], t), t))
    BY <1>5, <1>7, <2>1, InsertOrdered
  <2> QED BY <1>4, <1>5, <1>7, <2>2
<1> QED BY <1>1, <1>6, <1>7

\* RT_THREAD_CTRL_CHANGE_PRIORITY sets this one priority.
LEMMA PrioritySet ==
  ASSUME NEW s, KernelOK(s), NEW t \in Thread \ {Idle}, NEW p \in Prio,
         s.stat[t] = "READY" => ~Off(s, t)
  PROVE  ChangePriority(s, t, p).prio = [s.prio EXCEPT ![t] = p]
<1> DEFINE u == rt_schedule_remove_thread(s, t)
           v == [u EXCEPT !.prio[t] = p]
<1>1. CASE s.stat[t] = "READY"
  <2>1. t \notin Timed(s) BY <1>1 DEF KernelOK, Placed
  <2>2. KernelOK(u) BY <2>1, RemovePlain
  <2>3. u.prio = s.prio
    <3> DEFINE b == rt_list_remove(s, t)
    <3>1. b = [s EXCEPT !.list = [l \in ListHead |-> Without(s.list[l], t)]] BY DEF rt_list_remove
    <3>2. DOMAIN b = DOMAIN s /\ "prio" \in DOMAIN s /\ b.prio = s.prio
      BY <3>1 DEF KernelOK, KernelState
    <3>3. u = [b EXCEPT !.group = IF b.list[s.prio[t]] = <<>> THEN b.group \ {s.prio[t]} ELSE b.group]
      BY DEF rt_schedule_remove_thread
    <3> HIDE DEF b, u
    <3> QED BY <3>2, <3>3
  <2> HIDE DEF u
  <2>4. v \in KernelState /\ v.prio = [s.prio EXCEPT ![t] = p]
    BY <2>2, <2>3 DEF KernelOK, KernelState
  <2> HIDE DEF v
  <2>5. ChangePriority(s, t, p) = rt_schedule_insert_thread(v, t) BY <1>1 DEF ChangePriority, u, v
  <2> QED BY <2>4, <2>5, QueueCodes DEF Codes
<1>2. CASE s.stat[t] # "READY" BY <1>2 DEF ChangePriority, KernelOK, KernelState
<1> QED BY <1>1, <1>2

-----------------------------------------------------------------------------
(* What the calls the IPC objects share do to a settled system: whom they  *)
(* move, and that everybody else stays where they are.                     *)

\* The kernel runs; every thread is ready and queued, or suspended.
Resting(s) ==
  /\ KernelOK(s)
  /\ \A t \in Thread : s.stat[t] \in {"READY", "SUSPEND"} /\ (s.stat[t] = "READY" => ~Off(s, t))

\* It does, and the scheduler is not locked.
Settled(s) == Resting(s) /\ s.nest = 0

\* A thread that may go on holds the processor.
Serves(s) == s.cur \in Thread /\ s.stat[s.cur] = "READY"

\* The thread is on the suspend list w and on no other.
OnlyOn(s, t, w) == \A v \in WaitList : t \in On(s, v) <=> v = w
OnNone(s, t) == \A v \in WaitList : t \notin On(s, v)

\* The types of such a system, and of its suspend lists.
LEMMA RestingFields ==
  ASSUME NEW s, Resting(s)
  PROVE  /\ s \in KernelState /\ s.stat \in [Thread -> Stat] /\ s.err \in [Thread -> Error]
         /\ s.list \in [ListHead -> Seq(Thread)]
         /\ \A w \in WaitList :
              /\ w \in ListHead /\ s.list[w] \in Seq(Thread) /\ On(s, w) \subseteq Thread
              /\ s.list[w] = <<>> <=> On(s, w) = {}
              /\ s.list[w] # <<>> => Head(s.list[w]) \in On(s, w)
              /\ \A t \in On(s, w) : s.stat[t] = "SUSPEND" /\ OnlyOn(s, t, w)
<1>1. s \in KernelState BY DEF Resting, KernelOK
<1>2. /\ s.stat \in [Thread -> Stat] /\ s.err \in [Thread -> Error]
      /\ s.list \in [ListHead -> Seq(Thread)]
  BY <1>1, KernelFields
<1>3. ASSUME NEW w \in WaitList
      PROVE  /\ w \in ListHead /\ s.list[w] \in Seq(Thread) /\ On(s, w) \subseteq Thread
             /\ s.list[w] = <<>> <=> On(s, w) = {}
             /\ s.list[w] # <<>> => Head(s.list[w]) \in On(s, w)
             /\ \A t \in On(s, w) : s.stat[t] = "SUSPEND" /\ OnlyOn(s, t, w)
  <2>1. w \in ListHead /\ s.list[w] \in Seq(Thread) BY <1>2 DEF ListHead
  <2>2. /\ On(s, w) \subseteq Thread
        /\ s.list[w] = <<>> <=> On(s, w) = {}
        /\ s.list[w] # <<>> => Head(s.list[w]) \in On(s, w)
    BY <2>1, EmptyList DEF On
  <2>3. \A t \in On(s, w) : s.stat[t] = "SUSPEND" /\ OnlyOn(s, t, w)
    BY <2>2 DEF Resting, KernelOK, Placed, Apart, OnlyOn, ListHead
  <2> QED BY <2>1, <2>2, <2>3
<1> QED BY <1>1, <1>2, <1>3

LEMMA SettledFields ==
  ASSUME NEW s, Settled(s)
  PROVE  /\ s \in KernelState /\ s.stat \in [Thread -> Stat] /\ s.err \in [Thread -> Error]
         /\ s.list \in [ListHead -> Seq(Thread)]
         /\ \A w \in WaitList :
              /\ w \in ListHead /\ s.list[w] \in Seq(Thread) /\ On(s, w) \subseteq Thread
              /\ s.list[w] = <<>> <=> On(s, w) = {}
              /\ s.list[w] # <<>> => Head(s.list[w]) \in On(s, w)
              /\ \A t \in On(s, w) : s.stat[t] = "SUSPEND" /\ OnlyOn(s, t, w)
  BY RestingFields DEF Settled

\* A thread that is ready is on no suspend list.
LEMMA RestingOnNone ==
  ASSUME NEW s, Resting(s), NEW t \in Thread, s.stat[t] = "READY"
  PROVE  OnNone(s, t) /\ t \notin Timed(s)
  BY DEF Resting, KernelOK, Placed, OnNone

LEMMA ReadyOnNone ==
  ASSUME NEW s, Settled(s), NEW t \in Thread, s.stat[t] = "READY"
  PROVE  OnNone(s, t) /\ t \notin Timed(s)
  BY RestingOnNone DEF Settled

\* Resting before and nobody moved, or one thread put where it belongs.
LEMMA NobodyRests ==
  ASSUME NEW s, Resting(s), NEW r, KernelOK(r), Same(s, r, {})
  PROVE  Resting(r)
  BY DEF Resting, Same

LEMMA OneRests ==
  ASSUME NEW s, Resting(s), NEW r, KernelOK(r), NEW t \in Thread, Same(s, r, {t}),
         r.stat[t] = "READY", ~Off(r, t)
  PROVE  Resting(r)
  BY DEF Resting, Same

LEMMA OneReady ==
  ASSUME NEW s, Settled(s), NEW r, KernelOK(r), r.nest = 0, NEW t \in Thread, Same(s, r, {t}),
         r.stat[t] = "READY", ~Off(r, t)
  PROVE  Settled(r)
  BY OneRests DEF Settled

LEMMA OneSleeps ==
  ASSUME NEW s, Resting(s), NEW r, KernelOK(r), NEW t \in Thread, Same(s, r, {t}),
         r.stat[t] = "SUSPEND"
  PROVE  Resting(r)
  BY DEF Resting, Same

LEMMA OneAsleep ==
  ASSUME NEW s, Settled(s), NEW r, KernelOK(r), r.nest = 0, NEW t \in Thread, Same(s, r, {t}),
         r.stat[t] = "SUSPEND"
  PROVE  Settled(r)
  BY OneSleeps DEF Settled

\* rt_schedule gives the processor to a thread that is ready, unless it is
\* locked.
LEMMA ScheduleRests ==
  ASSUME NEW s, Resting(s)
  PROVE  LET r == rt_schedule(s)
         IN  Resting(r) /\ Same(s, r, {}) /\ Chosen(s, r) /\ r.timers = s.timers
<1> DEFINE r == rt_schedule(s)
<1>1. KernelOK(r) /\ Chosen(s, r) /\ r.timers = s.timers BY Dispatch DEF Resting
<1>2. Same(s, r, {}) BY ScheduleSame DEF Resting
<1> HIDE DEF r
<1> QED BY <1>1, <1>2, NobodyRests DEF r

LEMMA ScheduleOK ==
  ASSUME NEW s, Settled(s)
  PROVE  LET r == rt_schedule(s)
         IN  Settled(r) /\ Same(s, r, {}) /\ Serves(r) /\ r.timers = s.timers
  BY ScheduleRests DEF Settled, Chosen, Serves

\* So does the end of a time slice, if it does anything.
LEMMA TickRests ==
  ASSUME NEW s, Resting(s), s.cur \in Thread
  PROVE  LET r == TickIncrease(s)
         IN  Resting(r) /\ Same(s, r, {}) /\ (Kept(s, r) \/ Chosen(s, r)) /\ r.timers = s.timers
<1> DEFINE r == TickIncrease(s)
<1>1. KernelOK(s) /\ (s.stat[s.cur] = "READY" => ~Off(s, s.cur)) BY DEF Resting
<1>2. KernelOK(r) /\ (Kept(s, r) \/ Chosen(s, r)) /\ r.timers = s.timers BY <1>1, TickThreads
<1>3. Same(s, r, {}) BY <1>1, TickSame
<1> HIDE DEF r
<1> QED BY <1>2, <1>3, NobodyRests DEF r

LEMMA TickOK ==
  ASSUME NEW s, Settled(s), s.cur \in Thread
  PROVE  LET r == TickIncrease(s)
         IN  Settled(r) /\ Same(s, r, {}) /\ (r.cur = s.cur \/ Serves(r)) /\ r.timers = s.timers
  BY TickRests DEF Settled, Kept, Chosen, Serves

\* The service of a timer moves the thread that has waited long enough.
LEMMA FireRests ==
  ASSUME NEW s, Resting(s), s.timers # <<>>
  PROVE  LET t == Head(s.timers)
             r == TimerFire(s)
         IN  /\ t \in Thread /\ t \in Timed(s) /\ s.stat[t] = "SUSPEND"
             /\ Resting(r) /\ Same(s, r, {t}) /\ Chosen(s, r)
             /\ r.stat[t] = "READY" /\ r.err[t] = "ETIMEOUT" /\ OnNone(r, t)
<1> DEFINE t == Head(s.timers)
           r == TimerFire(s)
<1>1. /\ t \in Timed(s) /\ t \in Thread
      /\ KernelOK(r) /\ Chosen(s, r) /\ r.stat[t] = "READY" /\ ~Off(r, t)
  BY FireTimer DEF Resting
<1>2. r.err = [s.err EXCEPT ![t] = "ETIMEOUT"] BY FireCodes DEF Resting
<1>3. Same(s, r, {t}) BY FireSame DEF Resting
<1> HIDE DEF r, t
<1>4. s.stat[t] = "SUSPEND" BY <1>1 DEF Resting, KernelOK, Placed
<1>5. Resting(r) BY <1>1, <1>3, OneRests
<1>6. r.err[t] = "ETIMEOUT" BY <1>1, <1>2, RestingFields
<1>7. OnNone(r, t) BY <1>1, <1>5, RestingOnNone
<1> QED BY <1>1, <1>3, <1>4, <1>5, <1>6, <1>7 DEF r, t

LEMMA FireOK ==
  ASSUME NEW s, Settled(s), s.timers # <<>>
  PROVE  LET t == Head(s.timers)
             r == TimerFire(s)
         IN  /\ t \in Thread /\ s.stat[t] = "SUSPEND"
             /\ Settled(r) /\ Same(s, r, {t}) /\ Serves(r)
             /\ r.stat[t] = "READY" /\ r.err[t] = "ETIMEOUT" /\ OnNone(r, t)
<1> DEFINE t == Head(s.timers)
           r == TimerFire(s)
<1>1. Resting(s) /\ s.nest = 0 BY DEF Settled
<1>2. /\ t \in Thread /\ s.stat[t] = "SUSPEND"
      /\ Resting(r) /\ Same(s, r, {t}) /\ Chosen(s, r)
      /\ r.stat[t] = "READY" /\ r.err[t] = "ETIMEOUT" /\ OnNone(r, t)
  BY <1>1, FireRests
<1> HIDE DEF t, r
<1>3. r.nest = 0 /\ Serves(r) BY <1>1, <1>2 DEF Chosen, Serves
<1> QED BY <1>2, <1>3 DEF Settled, t, r

\* A caller goes to sleep on a suspend list, with or without a timer.
LEMMA BlockOK ==
  ASSUME NEW s, Settled(s), NEW t \in Thread \ {Idle}, s.stat[t] = "READY",
         NEW w \in WaitList, NEW flag, NEW time \in Timeout
  PROVE  LET r == BlockOn(s, w, t, flag, time)
         IN  /\ Settled(r) /\ Same(s, r, {t}) /\ r.cur = s.cur
             /\ r.stat[t] = "SUSPEND" /\ r.err[t] = "EOK" /\ OnlyOn(r, t, w)
<1> DEFINE a == [s EXCEPT !.err[t] = "EOK"]
           b == rt_ipc_list_suspend(a, w, t, flag)
           c == rt_timer_start(b, t, time)
           r == BlockOn(s, w, t, flag, time)
<1>1. /\ KernelOK(a) /\ Kept(s, a) /\ a.stat = s.stat
      /\ a.err = [s.err EXCEPT ![t] = "EOK"]
  BY SetError DEF Settled, Resting, Error
<1>2. Same(s, a, {t}) BY ErrorSame DEF Settled, Resting, Error
<1>3. r = IF time = Forever THEN b ELSE c BY DEF BlockOn
<1>4. a.err[t] = "EOK" BY <1>1, SettledFields
<1> HIDE DEF a
<1>5. /\ KernelOK(b) /\ Kept(a, b) /\ Codes(a, b) /\ b.stat[t] = "SUSPEND"
  BY <1>1, ListSuspend
<1>6. Same(a, b, {t}) /\ t \in On(b, w) BY <1>1, ListSuspendSame
<1> HIDE DEF b
<1>7. /\ KernelOK(r) /\ Kept(b, r) /\ r.stat[t] = "SUSPEND" /\ r.err = b.err
      /\ Same(b, r, {t}) /\ t \in On(r, w)
  <2>1. CASE time = Forever BY <1>3, <1>5, <1>6, <2>1 DEF Kept, Same
  <2>2. CASE time # Forever
    <3>1. time \in Nat BY <2>2, BoundAssumption DEF Timeout
    <3>2. KernelOK(c) /\ Kept(b, c) /\ c.stat = b.stat BY <1>5, <3>1, TimerStart
    <3>3. Codes(b, c) BY <1>5, TimerCodes DEF KernelOK
    <3>4. Same(b, c, {t}) /\ Unmoved(b, c) BY <1>5, <3>1, StartSame
    <3> HIDE DEF c
    <3> QED BY <1>3, <1>5, <1>6, <2>2, <3>2, <3>3, <3>4 DEF Codes, Unmoved, On
  <2> QED BY <2>1, <2>2
<1> HIDE DEF r
<1>8. Same(s, r, {t}) BY <1>2, <1>6, <1>7, SameTrans
<1>9. r.cur = s.cur /\ r.nest = 0 /\ r.err[t] = "EOK"
  BY <1>1, <1>4, <1>5, <1>7 DEF Kept, Codes, Settled
<1>10. Settled(r)
  <2>1. t \in Thread OBVIOUS
  <2> HIDE DEF c
  <2> QED BY <1>7, <1>8, <1>9, <2>1, OneAsleep
<1>11. OnlyOn(r, t, w) BY <1>7, <1>10, SettledFields
<1> QED BY <1>7, <1>8, <1>9, <1>10, <1>11 DEF r

\* A thread that is suspended is made ready.
LEMMA ResumeRests ==
  ASSUME NEW s, Resting(s), NEW t \in Thread, s.stat[t] = "SUSPEND"
  PROVE  LET r == rt_thread_resume(s, t)
         IN  /\ Resting(r) /\ Same(s, r, {t}) /\ Kept(s, r)
             /\ r.stat[t] = "READY" /\ r.err = s.err /\ OnNone(r, t)
<1> DEFINE r == rt_thread_resume(s, t)
<1>1. KernelOK(r) /\ Kept(s, r) /\ r.stat[t] = "READY" /\ ~Off(r, t)
  BY ResumeThread DEF Resting
<1>2. Codes(s, r) /\ Same(s, r, {t}) BY ResumeCodes, ResumeSame DEF Resting
<1> HIDE DEF r
<1>3. Resting(r) BY <1>1, <1>2, OneRests
<1>4. OnNone(r, t) BY <1>1, <1>3, RestingOnNone
<1> QED BY <1>1, <1>2, <1>3, <1>4 DEF r, Codes

LEMMA ResumeOne ==
  ASSUME NEW s, Settled(s), NEW t \in Thread, s.stat[t] = "SUSPEND"
  PROVE  LET r == rt_thread_resume(s, t)
         IN  /\ Settled(r) /\ Same(s, r, {t}) /\ r.cur = s.cur
             /\ r.stat[t] = "READY" /\ r.err = s.err /\ OnNone(r, t)
  BY ResumeRests DEF Settled, Kept

\* The first waiter of a list is.
LEMMA HeadRests ==
  ASSUME NEW s, Resting(s), NEW w \in WaitList, s.list[w] # <<>>
  PROVE  LET t == Head(s.list[w])
             r == rt_ipc_list_resume(s, w)
         IN  /\ t \in Thread /\ t \in On(s, w) /\ s.stat[t] = "SUSPEND"
             /\ Resting(r) /\ Same(s, r, {t}) /\ Kept(s, r)
             /\ r.stat[t] = "READY" /\ r.err = s.err /\ OnNone(r, t)
<1> DEFINE t == Head(s.list[w])
<1>1. t \in Thread /\ t \in On(s, w) /\ s.stat[t] = "SUSPEND" BY RestingFields
<1>2. rt_ipc_list_resume(s, w) = rt_thread_resume(s, t) BY DEF rt_ipc_list_resume
<1> HIDE DEF t
<1> QED BY <1>1, <1>2, ResumeRests DEF t

LEMMA ResumeOK ==
  ASSUME NEW s, Settled(s), NEW w \in WaitList, s.list[w] # <<>>
  PROVE  LET t == Head(s.list[w])
             r == rt_ipc_list_resume(s, w)
         IN  /\ t \in Thread /\ t \in On(s, w) /\ s.stat[t] = "SUSPEND"
             /\ Settled(r) /\ Same(s, r, {t}) /\ r.cur = s.cur
             /\ r.stat[t] = "READY" /\ r.err = s.err /\ OnNone(r, t)
  BY HeadRests DEF Settled, Kept

\* It is made ready with -RT_ERROR.
LEMMA ErrorRests ==
  ASSUME NEW s, Resting(s), NEW w \in WaitList, s.list[w] # <<>>
  PROVE  LET t == Head(s.list[w])
             r == ResumeWithError(s, w)
         IN  /\ t \in Thread /\ t \in On(s, w) /\ s.stat[t] = "SUSPEND"
             /\ Resting(r) /\ Same(s, r, {t}) /\ Kept(s, r)
             /\ r.stat[t] = "READY" /\ r.err[t] = "ERROR" /\ OnNone(r, t)
<1> DEFINE t == Head(s.list[w])
           a == [s EXCEPT !.err[t] = "ERROR"]
           r == rt_ipc_list_resume(a, w)
<1>1. ResumeWithError(s, w) = r BY DEF ResumeWithError
<1>2. t \in Thread /\ t \in On(s, w) /\ s.stat[t] = "SUSPEND" BY RestingFields
<1>3. /\ KernelOK(a) /\ Kept(s, a) /\ a.list = s.list /\ a.stat = s.stat
      /\ a.err = [s.err EXCEPT ![t] = "ERROR"]
  BY <1>2, SetError DEF Resting, Error
<1>4. Same(s, a, {t}) BY <1>2, ErrorSame DEF Resting, Error
<1>5. a.err[t] = "ERROR" BY <1>2, <1>3, RestingFields
<1>6. t = Head(a.list[w]) /\ a.list[w] # <<>> BY <1>3
<1> HIDE DEF a, t
<1>7. Resting(a)
  <2>1. a.stat[t] = "SUSPEND" BY <1>2, <1>3
  <2> HIDE DEF r
  <2> QED BY <1>2, <1>3, <1>4, <2>1, OneSleeps
<1>8. /\ Resting(r) /\ Same(a, r, {t}) /\ Kept(a, r)
      /\ r.stat[t] = "READY" /\ r.err = a.err /\ OnNone(r, t)
  BY <1>6, <1>7, HeadRests
<1> HIDE DEF r
<1>9. Same(s, r, {t}) /\ Kept(s, r) /\ r.err[t] = "ERROR"
  BY <1>3, <1>4, <1>5, <1>8, SameTrans DEF Kept
<1> QED BY <1>1, <1>2, <1>8, <1>9 DEF t, r

LEMMA ErrorOK ==
  ASSUME NEW s, Settled(s), NEW w \in WaitList, s.list[w] # <<>>
  PROVE  LET t == Head(s.list[w])
             r == ResumeWithError(s, w)
         IN  /\ t \in Thread /\ t \in On(s, w) /\ s.stat[t] = "SUSPEND"
             /\ Settled(r) /\ Same(s, r, {t}) /\ r.cur = s.cur
             /\ r.stat[t] = "READY" /\ r.err[t] = "ERROR" /\ OnNone(r, t)
  BY ErrorRests DEF Settled, Kept

\* ResumeFirst takes the first waiter off its list, if there is one.
Firsts(s, w) == IF s.list[w] = <<>> THEN {} ELSE {Head(s.list[w])}

LEMMA FirstRests ==
  ASSUME NEW s, Resting(s), NEW w \in WaitList
  PROVE  LET M == Firsts(s, w)
             r == ResumeFirst(s, w)
         IN  /\ M \subseteq On(s, w) /\ (M = {} <=> On(s, w) = {})
             /\ \E h : M \subseteq {h}
             /\ Resting(r) /\ Same(s, r, M) /\ Kept(s, r) /\ r.err = s.err
             /\ \A t \in M : r.stat[t] = "READY" /\ OnNone(r, t)
<1>1. CASE s.list[w] = <<>>
  <2>1. ResumeFirst(s, w) = s /\ Firsts(s, w) = {} BY <1>1 DEF ResumeFirst, Firsts
  <2>2. Same(s, s, {}) /\ Kept(s, s) BY DEF Same, Kept
  <2>3. On(s, w) = {} BY <1>1, RestingFields
  <2> QED BY <2>1, <2>2, <2>3
<1>2. CASE s.list[w] # <<>>
  <2>1. /\ ResumeFirst(s, w) = rt_ipc_list_resume(s, w)
        /\ Firsts(s, w) = {Head(s.list[w])}
    BY <1>2 DEF ResumeFirst, Firsts
  <2> DEFINE h == Head(s.list[w])
             r == rt_ipc_list_resume(s, w)
  <2>2. /\ h \in On(s, w) /\ Resting(r) /\ Same(s, r, {h}) /\ Kept(s, r)
        /\ r.stat[h] = "READY" /\ r.err = s.err /\ OnNone(r, h)
    BY <1>2, HeadRests
  <2> HIDE DEF h, r
  <2> QED BY <2>1, <2>2 DEF h, r
<1> QED BY <1>1, <1>2

LEMMA FirstOK ==
  ASSUME NEW s, Settled(s), NEW w \in WaitList
  PROVE  LET M == Firsts(s, w)
             r == ResumeFirst(s, w)
         IN  /\ M \subseteq On(s, w) /\ (M = {} <=> On(s, w) = {})
             /\ \E h : M \subseteq {h}
             /\ Settled(r) /\ Same(s, r, M) /\ r.cur = s.cur /\ r.err = s.err
             /\ \A t \in M : r.stat[t] = "READY" /\ OnNone(r, t)
<1> DEFINE r == ResumeFirst(s, w)
<1>1. Resting(s) /\ s.nest = 0 BY DEF Settled
<1>2. /\ Resting(r) /\ Same(s, r, Firsts(s, w)) /\ Kept(s, r) /\ r.err = s.err
      /\ Firsts(s, w) \subseteq On(s, w) /\ (Firsts(s, w) = {} <=> On(s, w) = {})
      /\ \E h : Firsts(s, w) \subseteq {h}
      /\ \A t \in Firsts(s, w) : r.stat[t] = "READY" /\ OnNone(r, t)
  BY <1>1, FirstRests
<1> HIDE DEF r
<1> QED BY <1>1, <1>2 DEF Settled, Kept, r

\* An interrupt handler goes on to rt_schedule if it has woken a thread.
LEMMA FirstThenSchedule ==
  ASSUME NEW s, Settled(s), NEW w \in WaitList
  PROVE  LET M == Firsts(s, w)
             r == IF s.list[w] # <<>> THEN rt_schedule(ResumeFirst(s, w)) ELSE s
         IN  /\ Settled(r) /\ Same(s, r, M) /\ (r = s \/ Serves(r))
             /\ \A t \in M : r.stat[t] = "READY" /\ r.err[t] = s.err[t] /\ OnNone(r, t)
<1>1. CASE s.list[w] = <<>>
  <2>1. Same(s, s, {}) BY DEF Same
  <2> QED BY <1>1, <2>1 DEF Firsts
<1>2. CASE s.list[w] # <<>>
  <2> DEFINE M == Firsts(s, w)
             a == ResumeFirst(s, w)
             r == rt_schedule(a)
  <2>1. /\ M \subseteq On(s, w) /\ Settled(a) /\ Same(s, a, M) /\ a.err = s.err
        /\ \A t \in M : a.stat[t] = "READY" /\ OnNone(a, t)
    BY FirstOK
  <2> HIDE DEF a, M
  <2>2. Settled(r) /\ Same(a, r, {}) /\ Serves(r) BY <2>1, ScheduleOK
  <2> HIDE DEF r
  <2>3. M \subseteq Thread BY <2>1, SettledFields
  <2>4. Same(s, r, M) BY <2>1, <2>2 DEF Same
  <2>5. \A t \in M : r.stat[t] = "READY" /\ r.err[t] = s.err[t] /\ OnNone(r, t)
    BY <2>1, <2>2, <2>3 DEF Same, OnNone
  <2> QED BY <1>2, <2>2, <2>4, <2>5 DEF r, a, M
<1> QED BY <1>1, <1>2

\* What is there against those woken for it: one more of both, one less.
LEMMA WokenCount ==
  ASSUME IsFiniteSet(Thread), NEW W \in SUBSET Thread, NEW V \in SUBSET Thread, NEW n \in Nat, n <= Cardinality(W)
  PROVE  /\ W \subseteq V => n <= Cardinality(V)
         /\ \A h \in Thread \ W : V = W \cup {h} => n + 1 <= Cardinality(V)
         /\ \A h : W \ {h} \subseteq V => n - 1 <= Cardinality(V)
<1>1. IsFiniteSet(W) /\ IsFiniteSet(V) /\ Cardinality(W) \in Nat /\ Cardinality(V) \in Nat
  BY FS_Subset, FS_CardinalityType
<1>2. W \subseteq V => n <= Cardinality(V) BY <1>1, FS_Subset
<1>3. ASSUME NEW h \in Thread \ W, V = W \cup {h} PROVE n + 1 <= Cardinality(V)
  <2>1. Cardinality(V) = Cardinality(W) + 1 BY <1>1, <1>3, FS_AddElement
  <2> QED BY <1>1, <2>1
<1>4. ASSUME NEW h, W \ {h} \subseteq V PROVE n - 1 <= Cardinality(V)
  <2>1. /\ IsFiniteSet(W \ {h})
        /\ Cardinality(W \ {h}) = IF h \in W THEN Cardinality(W) - 1 ELSE Cardinality(W)
    BY <1>1, FS_RemoveElement
  <2>2. Cardinality(W \ {h}) <= Cardinality(V) BY <1>1, <1>4, FS_Subset
  <2>3. Cardinality(W \ {h}) \in Nat BY <2>1, FS_CardinalityType
  <2> QED BY <1>1, <2>1, <2>2, <2>3
<1> QED BY <1>2, <1>3, <1>4

-----------------------------------------------------------------------------
(* rt_ipc_list_resume_all.                                                 *)

\* The list it works on gets shorter by one thread with each round.
LEMMA ErrorLen ==
  ASSUME NEW s, Settled(s), NEW w \in WaitList, s.list[w] # <<>>
  PROVE  Len(ResumeWithError(s, w).list[w]) = Len(s.list[w]) - 1
<1> DEFINE t == Head(s.list[w])
           a == [s EXCEPT !.err[t] = "ERROR"]
           r == rt_thread_resume(a, t)
<1>1. t \in Thread /\ t \in On(s, w) /\ s.stat[t] = "SUSPEND" /\ s.list[w] \in Seq(Thread)
  BY SettledFields
<1>2. KernelOK(a) /\ a.list = s.list /\ a.stat = s.stat BY <1>1, SetError DEF Settled, Resting, Error
<1>3. ResumeWithError(s, w) = r BY <1>2 DEF ResumeWithError, rt_ipc_list_resume
<1> HIDE DEF a, t
<1>4. Left(a, r, t) BY <1>1, <1>2, ResumeMoves
<1> HIDE DEF r
<1>5. r.list[w] = Without(s.list[w], t) BY <1>2, <1>4 DEF Left
<1>6. Len(Without(s.list[w], t)) = Len(s.list[w]) - 1 BY <1>1, WithoutLen DEF On
<1> QED BY <1>3, <1>5, <1>6

\* Its recursion has a solution.
LEMMA ResumeSteps ==
  ASSUME NEW s, NEW w, NEW n \in Nat, n = Len(s.list[w])
  PROVE  \E f : /\ f = [i \in 0..n |-> IF i = 0 THEN s ELSE ResumeWithError(f[i - 1], w)]
                /\ rt_ipc_list_resume_all(s, w) = f[n]
<1> DEFINE D(m) == \E f : f = [i \in 0..m |-> IF i = 0 THEN s ELSE ResumeWithError(f[i - 1], w)]
           T == {m \in Nat : ~D(m)}
           Q(f) == f = [i \in 0..n |-> IF i = 0 THEN s ELSE ResumeWithError(f[i - 1], w)]
           after == CHOOSE f : Q(f)
<1>1. rt_ipc_list_resume_all(s, w) = after[n] BY DEF rt_ipc_list_resume_all
<1>2. T = {}
  <2>1. SUFFICES ASSUME T # {} PROVE FALSE OBVIOUS
  <2>2. PICK x \in T : \A y \in T : x <= y BY <2>1, Minimum
  <2>3. CASE x = 0
    <3> DEFINE g == [i \in 0..0 |-> s]
    <3>1. g = [i \in 0..0 |-> IF i = 0 THEN s ELSE ResumeWithError(g[i - 1], w)]
      <4>1. \A i \in 0..0 : i = 0 OBVIOUS
      <4> QED BY <4>1
    <3>2. D(0) BY <3>1
    <3> QED BY <2>2, <2>3, <3>2
  <2>4. CASE x # 0
    <3>1. x \in Nat /\ x - 1 \in Nat /\ x - 1 \notin T
      <4> HIDE DEF D, Q, after
      <4> QED BY <2>2, <2>4
    <3>2. PICK g : g = [i \in 0..(x - 1) |-> IF i = 0 THEN s ELSE ResumeWithError(g[i - 1], w)]
      BY <3>1
    <3> DEFINE h == [i \in 0..x |-> IF i = 0 THEN s ELSE ResumeWithError(g[i - 1], w)]
    <3>3. \A i \in 0..(x - 1) : h[i] = g[i] BY <3>1, <3>2
    <3>4. \A i \in 1..x : i - 1 \in 0..(x - 1) /\ h[i - 1] = g[i - 1]
      <4> TAKE i \in 1..x
      <4>1. i - 1 \in 0..(x - 1) BY <3>1
      <4> HIDE DEF h
      <4> QED BY <4>1, <3>3
    <3>5. h = [i \in 0..x |-> IF i = 0 THEN s ELSE ResumeWithError(h[i - 1], w)]
      <4> DEFINE j == [i \in 0..x |-> IF i = 0 THEN s ELSE ResumeWithError(h[i - 1], w)]
      <4>1. \A i \in 0..x : j[i] = h[i]
        <5> TAKE i \in 0..x
        <5>1. CASE i = 0 BY <5>1
        <5>2. CASE i # 0
          <6>1. i \in 1..x BY <5>2, <3>1
          <6>2. h[i - 1] = g[i - 1] BY <6>1, <3>4
          <6> HIDE DEF h
          <6>3. j[i] = ResumeWithError(h[i - 1], w) BY <5>2
          <6>4. h[i] = ResumeWithError(g[i - 1], w) BY <5>2 DEF h
          <6> QED BY <6>2, <6>3, <6>4
        <5> QED BY <5>1, <5>2
      <4>2. DOMAIN j = 0..x /\ DOMAIN h = 0..x OBVIOUS
      <4> QED BY <4>1, <4>2
    <3>6. D(x) BY <3>5
    <3> QED BY <2>2, <3>6
  <2> QED BY <2>3, <2>4
<1>3. D(n) BY <1>2
<1>4. \E f : Q(f)
  <2>1. PICK f : f = [i \in 0..n |-> IF i = 0 THEN s ELSE ResumeWithError(f[i - 1], w)] BY <1>3
  <2>2. Q(f) BY <2>1
  <2> HIDE DEF Q
  <2> QED BY <2>2
<1>5. Q(after)
  <2> HIDE DEF Q
  <2> QED BY <1>4, Zenon
<1> QED BY <1>1, <1>5

\* Everyone on the list is made ready with -RT_ERROR, and nobody else moves.
Cleared(s, r, w) ==
  /\ Settled(r) /\ Same(s, r, On(s, w)) /\ r.cur = s.cur
  /\ On(r, w) = {}
  /\ \A t \in On(s, w) : r.stat[t] = "READY" /\ r.err[t] = "ERROR" /\ OnNone(r, t)

LEMMA ResumeAllOK ==
  ASSUME NEW s, Settled(s), NEW w \in WaitList
  PROVE  Cleared(s, rt_ipc_list_resume_all(s, w), w)
<1> DEFINE n == Len(s.list[w])
<1>1. n \in Nat BY SettledFields
<1>2. PICK f : /\ f = [i \in 0..n |-> IF i = 0 THEN s ELSE ResumeWithError(f[i - 1], w)]
               /\ rt_ipc_list_resume_all(s, w) = f[n]
  BY <1>1, ResumeSteps
<1> HIDE DEF n
<1> DEFINE P(i) ==
             /\ Settled(f[i]) /\ Same(s, f[i], On(s, w)) /\ f[i].cur = s.cur
             /\ Len(f[i].list[w]) = n - i
             /\ On(f[i], w) \subseteq On(s, w)
             /\ \A t \in On(s, w) \ On(f[i], w) :
                  f[i].stat[t] = "READY" /\ f[i].err[t] = "ERROR" /\ OnNone(f[i], t)
           T == {i \in 0..n : ~P(i)}
<1>3. P(0)
  <2>1. f[0] = s BY <1>1, <1>2
  <2>2. Same(s, s, On(s, w)) BY DEF Same
  <2> QED BY <2>1, <2>2, <1>1 DEF n
<1>4. ASSUME NEW i \in 0..n, i # n, P(i) PROVE P(i + 1)
  <2>1. i + 1 \in 0..n /\ i + 1 # 0 /\ (i + 1) - 1 = i BY <1>1, <1>4
  <2>2. f[i + 1] = ResumeWithError(f[i], w) BY <2>1, <1>2
  <2> DEFINE u == f[i]
             v == f[i + 1]
             h == Head(u.list[w])
  <2>3. /\ Settled(u) /\ Same(s, u, On(s, w)) /\ u.cur = s.cur /\ Len(u.list[w]) = n - i
        /\ On(u, w) \subseteq On(s, w)
        /\ \A t \in On(s, w) \ On(u, w) :
             u.stat[t] = "READY" /\ u.err[t] = "ERROR" /\ OnNone(u, t)
    BY <1>4
  <2>4. u.list[w] # <<>>
    <3>1. n - i # 0 BY <1>1, <1>4
    <3> QED BY <2>3, <3>1
  <2>10. v = ResumeWithError(u, w) BY <2>2
  <2> HIDE DEF u, v
  <2>5. /\ h \in Thread /\ h \in On(u, w) /\ Settled(v) /\ Same(u, v, {h}) /\ v.cur = u.cur
        /\ v.stat[h] = "READY" /\ v.err[h] = "ERROR" /\ OnNone(v, h)
        /\ Len(v.list[w]) = Len(u.list[w]) - 1
    <3>1. Settled(u) /\ u.list[w] # <<>> BY <2>3, <2>4
    <3>2. Len(v.list[w]) = Len(u.list[w]) - 1 BY <2>10, <3>1, ErrorLen
    <3>3. /\ h \in Thread /\ h \in On(u, w) /\ Settled(v) /\ Same(u, v, {h}) /\ v.cur = u.cur
          /\ v.stat[h] = "READY" /\ v.err[h] = "ERROR" /\ OnNone(v, h)
      BY ONLY <2>10, <3>1, w \in WaitList, ErrorOK
    <3> QED BY <3>2, <3>3
  <2> HIDE DEF h
  <2>6. Len(v.list[w]) = n - (i + 1) BY <1>1, <2>1, <2>3, <2>5
  <2>7. On(v, w) = On(u, w) \ {h}
    <3>1. On(v, w) \subseteq Thread /\ On(u, w) \subseteq Thread BY <2>3, <2>5, SettledFields
    <3>2. h \notin On(v, w) BY <2>5 DEF OnNone
    <3>3. \A t \in Thread \ {h} : t \in On(v, w) <=> t \in On(u, w) BY <2>5 DEF Same
    <3> QED BY <3>1, <3>2, <3>3
  <2>8. Same(s, v, On(s, w)) BY <2>3, <2>5 DEF Same
  <2>9. ASSUME NEW t \in On(s, w) \ On(v, w)
        PROVE  v.stat[t] = "READY" /\ v.err[t] = "ERROR" /\ OnNone(v, t)
    <3>1. CASE t = h BY <2>5, <3>1
    <3>2. CASE t # h
      <4>1. t \in On(s, w) \ On(u, w) BY <2>7, <2>9, <3>2
      <4>2. t \in Thread \ {h} BY <3>2, SettledFields
      <4> QED BY <2>3, <2>5, <4>1, <4>2 DEF Same, OnNone
    <3> QED BY <3>1, <3>2
  <2> QED BY <2>3, <2>5, <2>6, <2>7, <2>8, <2>9 DEF v
<1>5. T = {}
  <2>1. SUFFICES ASSUME T # {} PROVE FALSE OBVIOUS
  <2> HIDE DEF P
  <2>0. T \in SUBSET Nat BY <1>1
  <2>2. PICK x \in T : \A y \in T : x <= y
    <3> HIDE DEF T
    <3> QED BY <2>0, <2>1, Minimum
  <2>3. x \in 0..n /\ ~P(x) BY <2>2
  <2>4. x # 0 BY <1>3, <2>3
  <2>5. x - 1 \in 0..n /\ x - 1 # n /\ x - 1 \notin T /\ (x - 1) + 1 = x BY <1>1, <2>2, <2>3, <2>4
  <2>6. P(x - 1) BY <2>5
  <2>7. P((x - 1) + 1) BY <1>4, <2>5, <2>6
  <2> QED BY <2>3, <2>5, <2>7
<1>6. P(n)
  <2>1. n \in 0..n BY <1>1
  <2> HIDE DEF P
  <2> QED BY <1>5, <2>1
<1> DEFINE r == f[n]
<1>7. /\ Settled(r) /\ Same(s, r, On(s, w)) /\ r.cur = s.cur /\ Len(r.list[w]) = 0
      /\ \A t \in On(s, w) \ On(r, w) : r.stat[t] = "READY" /\ r.err[t] = "ERROR" /\ OnNone(r, t)
  BY <1>1, <1>6
<1> HIDE DEF r
<1>8. On(r, w) = {} BY <1>7, SettledFields
<1> QED BY <1>2, <1>7, <1>8 DEF Cleared, r
=============================================================================
