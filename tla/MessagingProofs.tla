--------------------------- MODULE MessagingProofs ---------------------------
(***************************************************************************)
(* A message queue of any size and an event of any flags, with any threads,*)
(* programs and timeouts: every node is in one place, the messages are     *)
(* handed out as QueueSpec promises, and nobody sleeps on messages or      *)
(* flags that are there.                                                   *)
(***************************************************************************)
EXTENDS Messaging, KernelProofs

-----------------------------------------------------------------------------
(* Sequences of nodes.                                                     *)

LEMMA NodeFacts ==
  /\ MqMax \in Nat \ {0} /\ Null \notin Node /\ Null \notin Msg
  /\ IsFiniteSet(Node) /\ Cardinality(Node) = MqMax
<1>1. MqMax \in Nat \ {0} /\ Null \notin Msg \cup (1..MqMax) BY MqAssumption
<1>2. IsFiniteSet(1..MqMax) /\ Cardinality(1..MqMax) = MqMax BY <1>1, FS_Interval
<1> QED BY <1>1, <1>2 DEF Node

\* Put in front, and taken from the front.
LEMMA ConsList ==
  ASSUME NEW S, NEW s \in Seq(S), NEW n \in S
  PROVE  /\ <<n>> \o s \in Seq(S) /\ Len(<<n>> \o s) = Len(s) + 1
         /\ (<<n>> \o s)[1] = n /\ \A i \in 1..Len(s) : (<<n>> \o s)[i + 1] = s[i]
         /\ ToSet(<<n>> \o s) = ToSet(s) \cup {n}
         /\ NoDup(s) /\ n \notin ToSet(s) => NoDup(<<n>> \o s)
<1> DEFINE a == <<n>>
           r == a \o s
<1>1. a \in Seq(S) /\ Len(a) = 1 /\ a[1] = n OBVIOUS
<1> HIDE DEF a
<1>2. /\ r \in Seq(S) /\ Len(r) = Len(a) + Len(s)
      /\ \A i \in 1..(Len(a) + Len(s)) : r[i] = IF i <= Len(a) THEN a[i] ELSE s[i - Len(a)]
  BY <1>1, ConcatProperties
<1> HIDE DEF r
<1>3. /\ Len(s) \in Nat /\ Len(r) = Len(s) + 1 /\ DOMAIN s = 1..Len(s)
      /\ DOMAIN r = 1..(Len(s) + 1) /\ r[1] = n
  BY <1>1, <1>2
<1>4. \A i \in 1..Len(s) : r[i + 1] = s[i]
  <2> TAKE i \in 1..Len(s)
  <2>1. i + 1 \in 1..(1 + Len(s)) /\ ~(i + 1 <= 1) /\ (i + 1) - 1 = i BY <1>3
  <2> QED BY <1>1, <1>2, <2>1
<1>5. \A j \in DOMAIN r : j = 1 \/ (j - 1 \in 1..Len(s) /\ r[j] = s[j - 1])
  <2> TAKE j \in DOMAIN r
  <2>1. j # 1 => j - 1 \in 1..Len(s) /\ (j - 1) + 1 = j BY <1>3
  <2> QED BY <1>4, <2>1
<1>6. ToSet(r) \subseteq ToSet(s) \cup {n} BY <1>3, <1>5 DEF ToSet
<1>7. ToSet(s) \cup {n} \subseteq ToSet(r)
  <2>1. \A i \in 1..Len(s) : i + 1 \in DOMAIN r BY <1>3
  <2>2. 1 \in DOMAIN r BY <1>3
  <2> QED BY <1>3, <1>4, <2>1, <2>2 DEF ToSet
<1>8. ASSUME NoDup(s), n \notin ToSet(s), NEW i \in DOMAIN r, NEW j \in DOMAIN r, r[i] = r[j]
      PROVE  i = j
  <2>1. \A x \in DOMAIN s : s[x] # n BY <1>8 DEF ToSet
  <2>2. i = 1 <=> j = 1 BY <1>3, <1>5, <1>8, <2>1
  <2>3. i # 1 => i - 1 = j - 1 BY <1>3, <1>5, <1>8, <2>2 DEF NoDup
  <2> QED BY <1>3, <2>2, <2>3
<1> QED BY <1>2, <1>3, <1>4, <1>6, <1>7, <1>8 DEF r, a, NoDup

LEMMA RestList ==
  ASSUME NEW S, NEW s \in Seq(S), s # <<>>, NoDup(s)
  PROVE  /\ Tail(s) \in Seq(S) /\ Len(Tail(s)) = Len(s) - 1 /\ Len(s) \in Nat \ {0}
         /\ \A i \in 1..(Len(s) - 1) : Tail(s)[i] = s[i + 1]
         /\ Head(s) = s[1] /\ Head(s) \in S
         /\ ToSet(Tail(s)) = ToSet(s) \ {Head(s)} /\ NoDup(Tail(s))
<1> DEFINE r == Tail(s)
<1>1. /\ Head(s) \in S /\ r \in Seq(S) /\ Len(r) = Len(s) - 1
      /\ \A i \in 1..Len(r) : r[i] = s[i + 1]
  BY HeadTailProperties
<1>2. /\ Len(s) \in Nat \ {0} /\ Head(s) = s[1]
      /\ DOMAIN s = 1..Len(s) /\ DOMAIN r = 1..(Len(s) - 1)
  BY <1>1
<1> HIDE DEF r
<1>3. \A i \in DOMAIN r : i + 1 \in DOMAIN s /\ r[i] = s[i + 1] /\ i + 1 # 1 BY <1>1, <1>2
<1>4. 1 \in DOMAIN s BY <1>2
<1>5. ToSet(r) \subseteq ToSet(s) \ {Head(s)} BY <1>2, <1>3, <1>4 DEF ToSet, NoDup
<1>6. ToSet(s) \ {Head(s)} \subseteq ToSet(r)
  <2> SUFFICES ASSUME NEW i \in DOMAIN s, s[i] # s[1] PROVE s[i] \in ToSet(r) BY <1>2 DEF ToSet
  <2>1. i - 1 \in DOMAIN r /\ (i - 1) + 1 = i BY <1>2
  <2> QED BY <1>3, <2>1 DEF ToSet
<1>7. NoDup(r)
  <2> SUFFICES ASSUME NEW i \in DOMAIN r, NEW j \in DOMAIN r, r[i] = r[j] PROVE i = j BY DEF NoDup
  <2>1. i + 1 = j + 1 BY <1>3 DEF NoDup
  <2> QED BY <1>2, <2>1
<1> QED BY <1>1, <1>2, <1>5, <1>6, <1>7 DEF r

\* There are no more nodes than the pool has.
LEMMA AtMostMax ==
  ASSUME NEW s \in Seq(Node), NoDup(s)
  PROVE  Len(s) \in 0..MqMax
<1>1. Len(s) \in Nat /\ DOMAIN s = 1..Len(s) /\ s \in [1..Len(s) -> Node] OBVIOUS
<1>2. s \in Injection(1..Len(s), Node) BY <1>1 DEF Injection, IsInjective, NoDup
<1>3. Cardinality(1..Len(s)) <= Cardinality(Node) BY <1>2, NodeFacts, FS_Injection
<1>4. Cardinality(1..Len(s)) = Len(s) BY <1>1, FS_Interval
<1> QED BY <1>1, <1>3, <1>4, NodeFacts

LEMMA AppendNode ==
  ASSUME NEW S, NEW s \in Seq(S), NEW n \in S
  PROVE  /\ Append(s, n) \in Seq(S) /\ Len(Append(s, n)) = Len(s) + 1
         /\ Append(s, n)[Len(s) + 1] = n /\ \A i \in 1..Len(s) : Append(s, n)[i] = s[i]
         /\ ToSet(Append(s, n)) = ToSet(s) \cup {n}
         /\ NoDup(s) /\ n \notin ToSet(s) => NoDup(Append(s, n))
<1>1. /\ Append(s, n) \in Seq(S) /\ ToSet(Append(s, n)) = ToSet(s) \cup {n}
      /\ NoDup(s) /\ n \notin ToSet(s) => NoDup(Append(s, n))
  BY AppendList
<1>2. /\ Len(Append(s, n)) = Len(s) + 1 /\ Append(s, n)[Len(s) + 1] = n
      /\ \A i \in 1..Len(s) : Append(s, n)[i] = s[i]
  OBVIOUS
<1> QED BY <1>1, <1>2

LEMMA InSet ==
  ASSUME NEW S, NEW s \in Seq(S)
  PROVE  /\ \A i \in 1..Len(s) : s[i] \in ToSet(s) /\ s[i] \in S
         /\ \A n \in ToSet(s) : n \in S /\ \E i \in 1..Len(s) : s[i] = n
         /\ Len(s) \in Nat /\ (s = <<>> <=> Len(s) = 0)
<1>1. DOMAIN s = 1..Len(s) /\ Len(s) \in Nat /\ (s = <<>> <=> Len(s) = 0) OBVIOUS
<1>2. \A i \in DOMAIN s : s[i] \in S OBVIOUS
<1> QED BY <1>1, <1>2 DEF ToSet

-----------------------------------------------------------------------------
(* Chains of nodes.                                                        *)

\* S lists the nodes from p on, along next.
Follows(q, p, S) ==
  /\ S \in Seq(Node) /\ NoDup(S)
  /\ p = IF S = <<>> THEN Null ELSE S[1]
  /\ \A i \in 1..Len(S) : q.next[S[i]] = IF i = Len(S) THEN Null ELSE S[i + 1]

LEMMA ChainIs ==
  ASSUME NEW q, NEW p, NEW S, Follows(q, p, S)
  PROVE  Chain(q, p) = S
<1> DEFINE Q(f) == f = [i \in 0..MqMax |-> IF i = 0 THEN p
                                           ELSE IF f[i - 1] = Null THEN Null ELSE q.next[f[i - 1]]]
           at == CHOOSE f : Q(f)
           w == [i \in 0..MqMax |-> IF i < Len(S) THEN S[i + 1] ELSE Null]
<1>1. /\ S \in Seq(Node) /\ Len(S) \in Nat /\ Len(S) <= MqMax /\ MqMax \in Nat \ {0}
      /\ S = <<>> <=> Len(S) = 0
      /\ \A i \in 1..Len(S) : S[i] \in Node
  BY AtMostMax, NodeFacts, InSet DEF Follows
<1>2. \A i \in 0..MqMax : /\ w[i] = IF i < Len(S) THEN S[i + 1] ELSE Null
                          /\ w[i] # Null <=> i < Len(S)
  <2> TAKE i \in 0..MqMax
  <2>1. i < Len(S) => S[i + 1] \in Node BY <1>1
  <2> QED BY <2>1, NodeFacts
<1> HIDE DEF w
<1>3. w[0] = p
  <2>1. w[0] = IF 0 < Len(S) THEN S[0 + 1] ELSE Null BY <1>1, <1>2
  <2> QED BY <1>1, <2>1 DEF Follows
<1>4. \A i \in 1..MqMax : w[i] = IF w[i - 1] = Null THEN Null ELSE q.next[w[i - 1]]
  <2> TAKE i \in 1..MqMax
  <2>1. i - 1 \in 0..MqMax /\ i \in 0..MqMax /\ (i - 1) + 1 = i BY <1>1
  <2>2. CASE i - 1 >= Len(S) BY <1>1, <1>2, <2>1, <2>2
  <2>3. CASE i - 1 < Len(S)
    <3>1. i \in 1..Len(S) /\ w[i - 1] = S[i] /\ w[i - 1] # Null BY <1>1, <1>2, <2>1, <2>3
    <3>2. q.next[S[i]] = IF i = Len(S) THEN Null ELSE S[i + 1] BY <3>1 DEF Follows
    <3>3. i < Len(S) <=> i # Len(S) BY <1>1, <3>1
    <3> QED BY <1>2, <2>1, <3>1, <3>2, <3>3
  <2> QED BY <1>1, <2>2, <2>3
<1>5. Q(w)
  <2> DEFINE j == [i \in 0..MqMax |-> IF i = 0 THEN p
                                      ELSE IF w[i - 1] = Null THEN Null ELSE q.next[w[i - 1]]]
  <2>1. \A i \in 0..MqMax : j[i] = w[i]
    <3> TAKE i \in 0..MqMax
    <3>1. CASE i = 0 BY <1>3, <3>1
    <3>2. CASE i # 0
      <4>1. i \in 1..MqMax BY <1>1, <3>2
      <4> QED BY <1>4, <3>2, <4>1
    <3> QED BY <3>1, <3>2
  <2>2. DOMAIN j = 0..MqMax OBVIOUS
  <2>3. w = [i \in 0..MqMax |-> w[i]] BY DEF w
  <2> QED BY <2>1, <2>2, <2>3
<1>6. Q(at)
  <2> HIDE DEF Q
  <2> QED BY <1>5, Zenon
<1>7. Chain(q, p) = [i \in 1..Cardinality({j \in 0..MqMax : at[j] # Null}) |-> at[i - 1]]
  BY DEF Chain
<1> HIDE DEF at
<1>8. \A i \in 0..MqMax : at[i] = w[i]
  <2> DEFINE T == {i \in 0..MqMax : at[i] # w[i]}
  <2>1. SUFFICES ASSUME T # {} PROVE FALSE OBVIOUS
  <2>2. T \in SUBSET Nat BY <1>1
  <2>3. PICK x \in T : \A y \in T : x <= y
    <3> HIDE DEF T
    <3> QED BY <2>1, <2>2, Minimum
  <2>4. x \in 0..MqMax /\ at[x] # w[x] BY <2>3
  <2>5. at[x] = IF x = 0 THEN p ELSE IF at[x - 1] = Null THEN Null ELSE q.next[at[x - 1]]
    BY <1>6, <2>4
  <2>6. x # 0 BY <1>3, <2>4, <2>5
  <2>7. x \in 1..MqMax /\ x - 1 \in 0..MqMax /\ ~(x <= x - 1) BY <1>1, <2>4, <2>6
  <2>8. at[x - 1] = w[x - 1] BY <2>3, <2>7
  <2> QED BY <1>4, <2>4, <2>5, <2>6, <2>7, <2>8
<1> HIDE DEF Q
<1>9. Cardinality({j \in 0..MqMax : at[j] # Null}) = Len(S)
  <2>1. {j \in 0..MqMax : at[j] # Null} = 0..(Len(S) - 1) BY <1>1, <1>2, <1>8
  <2> DEFINE m == Len(S) - 1
  <2>2. m \in Int /\ m >= -1 /\ m + 1 = Len(S) /\ m = Len(S) - 1 BY <1>1
  <2> HIDE DEF m
  <2>3. \A x, y \in Int : Cardinality(x..y) = IF x > y THEN 0 ELSE y - x + 1 BY FS_Interval
  <2>5. PICK z \in Int : z = 0 OBVIOUS
  <2>6. Cardinality(z..m) = IF z > m THEN 0 ELSE m - z + 1 BY <2>2, <2>3
  <2>7. (IF z > m THEN 0 ELSE m - z + 1) = m + 1 BY <2>2, <2>5
  <2>4. Cardinality(0..m) = m + 1 BY <2>5, <2>6, <2>7
  <2> QED BY <2>1, <2>2, <2>4
<1>10. \A i \in 1..Len(S) : at[i - 1] = S[i]
  <2> TAKE i \in 1..Len(S)
  <2>1. i - 1 \in 0..MqMax /\ i - 1 < Len(S) /\ (i - 1) + 1 = i BY <1>1
  <2> QED BY <1>2, <1>8, <2>1
<1>11. S = [i \in 1..Len(S) |-> S[i]] BY <1>1
<1> QED BY <1>7, <1>9, <1>10, <1>11

LEMMA FollowsKept ==
  ASSUME NEW q, NEW r, NEW p, NEW S, Follows(q, p, S),
         \A n \in ToSet(S) : r.next[n] = q.next[n]
  PROVE  Follows(r, p, S)
  BY InSet DEF Follows

LEMMA FollowsTail ==
  ASSUME NEW q, NEW p, NEW S, Follows(q, p, S), p # Null
  PROVE  /\ S # <<>> /\ p = Head(S) /\ p \in Node /\ p \in ToSet(S)
         /\ Follows(q, q.next[p], Tail(S))
<1>1. S # <<>> /\ p = S[1] /\ S \in Seq(Node) /\ NoDup(S) BY DEF Follows
<1>2. /\ Tail(S) \in Seq(Node) /\ Len(Tail(S)) = Len(S) - 1 /\ Len(S) \in Nat \ {0}
      /\ \A i \in 1..(Len(S) - 1) : Tail(S)[i] = S[i + 1]
      /\ Head(S) = S[1] /\ Head(S) \in Node /\ NoDup(Tail(S))
  BY <1>1, RestList
<1>3. 1 \in 1..Len(S) BY <1>2
<1>4. q.next[p] = IF 1 = Len(S) THEN Null ELSE S[1 + 1] BY <1>1, <1>3 DEF Follows
<1> DEFINE R == Tail(S)
<1> HIDE DEF R
<1>5. q.next[p] = IF R = <<>> THEN Null ELSE R[1]
  <2>1. R = <<>> <=> Len(S) = 1 BY <1>2 DEF R
  <2>2. Len(S) # 1 => 1 \in 1..(Len(S) - 1) BY <1>2
  <2> QED BY <1>2, <1>4, <2>1, <2>2 DEF R
<1>6. \A i \in 1..Len(R) : q.next[R[i]] = IF i = Len(R) THEN Null ELSE R[i + 1]
  <2> TAKE i \in 1..Len(R)
  <2> DEFINE m == Len(S)
  <2>0. m \in Nat \ {0} /\ Len(R) = m - 1 /\ i \in 1..(m - 1) BY <1>2 DEF R
  <2>4. R[i] = S[i + 1] BY <1>2, <2>0 DEF R
  <2>1. /\ i + 1 \in 1..m /\ (i = Len(R) <=> i + 1 = m)
        /\ i # Len(R) => i + 1 \in 1..(m - 1)
    <3> HIDE DEF m
    <3> QED BY <2>0
  <2>2. q.next[S[i + 1]] = IF i + 1 = Len(S) THEN Null ELSE S[(i + 1) + 1] BY <2>1 DEF Follows
  <2>3. i # Len(R) => R[i + 1] = S[(i + 1) + 1] BY <1>2, <2>1 DEF R
  <2> QED BY <2>1, <2>2, <2>3, <2>4
<1>7. R \in Seq(Node) /\ NoDup(R) BY <1>2 DEF R
<1>8. Follows(q, q.next[p], R) BY <1>5, <1>6, <1>7 DEF Follows
<1>9. p \in ToSet(S) BY <1>1, <1>3, InSet
<1> QED BY <1>1, <1>2, <1>8, <1>9 DEF R

LEMMA FollowsCons ==
  ASSUME NEW q, NEW p, NEW S, Follows(q, p, S), NEW n \in Node, n \notin ToSet(S), q.next[n] = p
  PROVE  Follows(q, n, <<n>> \o S)
<1> DEFINE R == <<n>> \o S
<1>1. S \in Seq(Node) /\ NoDup(S) BY DEF Follows
<1>2. /\ R \in Seq(Node) /\ Len(R) = Len(S) + 1 /\ R[1] = n
      /\ \A i \in 1..Len(S) : R[i + 1] = S[i]
      /\ NoDup(R) /\ Len(S) \in Nat
  BY <1>1, ConsList
<1> HIDE DEF R
<1>3. ASSUME NEW i \in 1..Len(R) PROVE q.next[R[i]] = IF i = Len(R) THEN Null ELSE R[i + 1]
  <2>1. CASE i = 1
    <3>1. i = Len(R) <=> S = <<>> BY <1>1, <1>2, <2>1
    <3>2. S # <<>> => 1 \in 1..Len(S) BY <1>1
    <3> QED BY <1>2, <2>1, <3>1, <3>2 DEF Follows
  <2>2. CASE i # 1
    <3> DEFINE j == i - 1
    <3>1. j \in 1..Len(S) /\ j + 1 = i /\ (j = Len(S) <=> i = Len(R)) BY <1>2, <2>2
    <3>2. R[i] = S[j] /\ (j # Len(S) => j + 1 \in 1..Len(S)) BY <1>2, <3>1
    <3>3. q.next[S[j]] = IF j = Len(S) THEN Null ELSE S[j + 1] BY <3>1 DEF Follows
    <3>4. j # Len(S) => R[i + 1] = S[j + 1] BY <1>2, <3>1, <3>2
    <3> QED BY <3>1, <3>2, <3>3, <3>4
  <2> QED BY <2>1, <2>2
<1>4. R # <<>> BY <1>2
<1> QED BY <1>2, <1>3, <1>4 DEF Follows, R

LEMMA FollowsAppend ==
  ASSUME NEW q, NEW p, NEW S, Follows(q, p, S), NEW n \in Node, n \notin ToSet(S), NEW r,
         S # <<>> => r.next[S[Len(S)]] = n, r.next[n] = Null,
         \A i \in 1..Len(S) : i # Len(S) => r.next[S[i]] = q.next[S[i]]
  PROVE  Follows(r, IF S = <<>> THEN n ELSE p, Append(S, n))
<1> DEFINE R == Append(S, n)
           len == Len(S)
<1>1. S \in Seq(Node) /\ NoDup(S) /\ len \in Nat /\ (S = <<>> <=> len = 0) BY InSet DEF Follows
<1>2. /\ R \in Seq(Node) /\ Len(R) = len + 1 /\ R[len + 1] = n
      /\ \A i \in 1..len : R[i] = S[i]
      /\ NoDup(R)
  BY <1>1, AppendNode
<1> HIDE DEF R, len
<1>3. ASSUME NEW i \in 1..Len(R) PROVE r.next[R[i]] = IF i = Len(R) THEN Null ELSE R[i + 1]
  <2>1. CASE i = len + 1 BY <1>2, <2>1
  <2>2. CASE i = len
    <3>1. i \in 1..len /\ i # Len(R) /\ S # <<>> BY <1>1, <1>2, <2>2
    <3> QED BY <1>2, <2>2, <3>1 DEF len
  <2>3. CASE i # len + 1 /\ i # len
    <3>1. i \in 1..len /\ i + 1 \in 1..len /\ i # Len(R) BY <1>1, <1>2, <2>3
    <3>2. q.next[S[i]] = S[i + 1] /\ r.next[S[i]] = q.next[S[i]]
      BY <2>3, <3>1 DEF Follows, len
    <3> QED BY <1>2, <3>1, <3>2
  <2> QED BY <2>1, <2>2, <2>3
<1>4. R # <<>> /\ R[1] = IF S = <<>> THEN n ELSE S[1]
  <2>1. S # <<>> => 1 \in 1..len BY <1>1
  <2> QED BY <1>1, <1>2, <2>1
<1> QED BY <1>2, <1>3, <1>4 DEF Follows, R

-----------------------------------------------------------------------------
(* The queue and the free list, with nodes in nobody's chain between them. *)

QueueState ==
  [next : [Node -> Node \cup {Null}], data : [Node -> Msg \cup {Null}],
   head : Node \cup {Null}, tail : Node \cup {Null}, free : Node \cup {Null}, entry : 0..MqMax]

Loose(q, Q, F) ==
  /\ q \in QueueState
  /\ Follows(q, q.head, Q) /\ Follows(q, q.free, F)
  /\ ToSet(Q) \cap ToSet(F) = {}
  /\ q.tail = IF Q = <<>> THEN Null ELSE Q[Len(Q)]
  /\ \A n \in ToSet(Q) : q.data[n] \in Msg

Split(q, Q, F) == Loose(q, Q, F) /\ q.entry = Len(Q)

\* Only nodes of S are written.
Untouched(q, r, S) == \A m \in Node \ S : r.next[m] = q.next[m] /\ r.data[m] = q.data[m]

LEMMA LooseFacts ==
  ASSUME NEW q, NEW Q, NEW F, Loose(q, Q, F)
  PROVE  /\ q.next \in [Node -> Node \cup {Null}] /\ q.data \in [Node -> Msg \cup {Null}]
         /\ q.head \in Node \cup {Null} /\ q.tail \in Node \cup {Null}
         /\ q.free \in Node \cup {Null} /\ q.entry \in 0..MqMax
         /\ Q \in Seq(Node) /\ NoDup(Q) /\ F \in Seq(Node) /\ NoDup(F)
         /\ Len(Q) \in 0..MqMax /\ Len(F) \in 0..MqMax
         /\ ToSet(Q) \subseteq Node /\ ToSet(F) \subseteq Node
         /\ (q.head = Null <=> Q = <<>>) /\ (q.free = Null <=> F = <<>>)
<1>1. /\ q.next \in [Node -> Node \cup {Null}] /\ q.data \in [Node -> Msg \cup {Null}]
      /\ q.head \in Node \cup {Null} /\ q.tail \in Node \cup {Null}
      /\ q.free \in Node \cup {Null} /\ q.entry \in 0..MqMax
  BY DEF Loose, QueueState
<1>2. Q \in Seq(Node) /\ NoDup(Q) /\ F \in Seq(Node) /\ NoDup(F) BY DEF Loose, Follows
<1>3. \A S \in Seq(Node) : S # <<>> => S[1] \in Node
  <2> SUFFICES ASSUME NEW S \in Seq(Node), S # <<>> PROVE S[1] \in Node OBVIOUS
  <2>1. 1 \in 1..Len(S) OBVIOUS
  <2> QED BY <2>1, InSet
<1>4. (q.head = Null <=> Q = <<>>) /\ (q.free = Null <=> F = <<>>)
  BY <1>2, <1>3, NodeFacts DEF Loose, Follows
<1>5. ToSet(Q) \subseteq Node /\ ToSet(F) \subseteq Node BY <1>2, InSet
<1> QED BY <1>1, <1>2, <1>4, <1>5, AtMostMax

\* One chain shows what Chain returns.
LEMMA SplitChains ==
  ASSUME NEW q, NEW Q, NEW F, Loose(q, Q, F)
  PROVE  Chain(q, q.head) = Q /\ Chain(q, q.free) = F
  BY ChainIs DEF Loose

\* A node on neither chain is written.
LEMMA WriteNode ==
  ASSUME NEW q, NEW Q, NEW F, Loose(q, Q, F), NEW r \in QueueState, NEW n,
         r.head = q.head, r.tail = q.tail, r.free = q.free,
         n \notin ToSet(Q) \cup ToSet(F),
         \A m \in Node \ {n} : r.next[m] = q.next[m] /\ r.data[m] = q.data[m]
  PROVE  Loose(r, Q, F)
<1>1. ToSet(Q) \subseteq Node /\ ToSet(F) \subseteq Node BY LooseFacts
<1>2. \A m \in ToSet(Q) \cup ToSet(F) : r.next[m] = q.next[m] /\ r.data[m] = q.data[m] BY <1>1
<1>3. Follows(r, q.head, Q) /\ Follows(r, q.free, F) BY <1>2, FollowsKept DEF Loose
<1> QED BY <1>2, <1>3 DEF Loose

LEMMA TakeFreeOK ==
  ASSUME NEW q, NEW Q, NEW F, Loose(q, Q, F), q.free # Null
  PROVE  LET r == TakeFree(q)
         IN  /\ Loose(r, Q, Tail(F)) /\ q.free \in Node /\ q.free \in ToSet(F)
             /\ ToSet(Tail(F)) = ToSet(F) \ {q.free}
             /\ r.entry = q.entry /\ r.data = q.data /\ r.next = q.next /\ r.head = q.head
<1> DEFINE r == TakeFree(q)
<1>1. /\ F # <<>> /\ q.free = Head(F) /\ q.free \in Node /\ q.free \in ToSet(F)
      /\ Follows(q, q.next[q.free], Tail(F))
  BY FollowsTail DEF Loose
<1>2. ToSet(Tail(F)) = ToSet(F) \ {q.free} BY <1>1, LooseFacts, RestList
<1>3. q.next[q.free] \in Node \cup {Null} BY <1>1, LooseFacts
<1>4. /\ r \in QueueState /\ r.free = q.next[q.free]
      /\ r.entry = q.entry /\ r.data = q.data /\ r.next = q.next /\ r.head = q.head /\ r.tail = q.tail
  BY <1>3 DEF TakeFree, Loose, QueueState
<1> HIDE DEF r
<1>5. Follows(r, r.head, Q) /\ Follows(r, r.free, Tail(F))
  BY <1>1, <1>4, FollowsKept DEF Loose
<1>6. Loose(r, Q, Tail(F)) BY <1>2, <1>4, <1>5 DEF Loose
<1> QED BY <1>1, <1>2, <1>4, <1>6 DEF r

LEMMA PutFreeOK ==
  ASSUME NEW q, NEW Q, NEW F, Loose(q, Q, F), NEW n \in Node, n \notin ToSet(Q) \cup ToSet(F)
  PROVE  LET r == PutFree(q, n)
         IN  /\ Loose(r, Q, <<n>> \o F) /\ ToSet(<<n>> \o F) = ToSet(F) \cup {n}
             /\ r.entry = q.entry /\ r.head = q.head /\ Untouched(q, r, {n})
<1> DEFINE r == PutFree(q, n)
           u == [q EXCEPT !.next[n] = q.free, !.data[n] = Null]
<1>1. /\ q.free \in Node \cup {Null} /\ q.next \in [Node -> Node \cup {Null}]
      /\ q.data \in [Node -> Msg \cup {Null}]
  BY LooseFacts
<1>2. /\ u \in QueueState /\ u.next = [q.next EXCEPT ![n] = q.free] /\ u.data = [q.data EXCEPT ![n] = Null]
      /\ u.head = q.head /\ u.tail = q.tail /\ u.free = q.free /\ u.entry = q.entry
  BY <1>1 DEF Loose, QueueState
<1>3. /\ r \in QueueState /\ r.next = u.next /\ r.data = u.data /\ r.head = q.head
      /\ r.tail = q.tail /\ r.free = n /\ r.entry = q.entry
  BY <1>1, <1>2 DEF PutFree, Loose, QueueState
<1> HIDE DEF u, r
<1>4. /\ u.next[n] = q.free
      /\ \A m \in Node \ {n} : u.next[m] = q.next[m] /\ u.data[m] = q.data[m]
  BY <1>1, <1>2
<1>5. Loose(u, Q, F) BY <1>2, <1>4, WriteNode
<1>6. Follows(u, n, <<n>> \o F)
  <2>1. Follows(u, q.free, F) BY <1>2, <1>5 DEF Loose
  <2> QED BY <1>4, <2>1, FollowsCons
<1>7. Follows(r, r.head, Q) /\ Follows(r, r.free, <<n>> \o F)
  BY <1>2, <1>3, <1>5, <1>6, FollowsKept DEF Loose
<1>8. ToSet(<<n>> \o F) = ToSet(F) \cup {n} BY LooseFacts, ConsList
<1>9. Loose(r, Q, <<n>> \o F) BY <1>2, <1>3, <1>5, <1>7, <1>8 DEF Loose
<1> QED BY <1>3, <1>4, <1>8, <1>9 DEF r, Untouched

LEMMA UnlinkHeadOK ==
  ASSUME NEW q, NEW Q, NEW F, Loose(q, Q, F), q.head # Null
  PROVE  LET r == UnlinkHead(q)
         IN  /\ Loose(r, Tail(Q), F) /\ q.head = Head(Q) /\ Q # <<>>
             /\ q.head \in Node /\ q.head \in ToSet(Q) /\ q.head \notin ToSet(F)
             /\ ToSet(Tail(Q)) = ToSet(Q) \ {q.head} /\ Len(Tail(Q)) = Len(Q) - 1
             /\ r.entry = q.entry /\ r.data = q.data /\ r.next = q.next
<1> DEFINE r == UnlinkHead(q)
<1>1. /\ Q # <<>> /\ q.head = Head(Q) /\ q.head \in Node /\ q.head \in ToSet(Q)
      /\ Follows(q, q.next[q.head], Tail(Q))
  BY FollowsTail DEF Loose
<1>2. /\ ToSet(Tail(Q)) = ToSet(Q) \ {q.head} /\ Len(Tail(Q)) = Len(Q) - 1
      /\ Tail(Q) \in Seq(Node) /\ Len(Q) \in Nat \ {0} /\ Head(Q) = Q[1] /\ NoDup(Q)
      /\ \A i \in 1..(Len(Q) - 1) : Tail(Q)[i] = Q[i + 1]
  BY <1>1, LooseFacts, RestList
<1>3. q.next[q.head] \in Node \cup {Null} BY <1>1, LooseFacts
<1>4. /\ r \in QueueState /\ r.head = q.next[q.head] /\ r.free = q.free
      /\ r.entry = q.entry /\ r.data = q.data /\ r.next = q.next
      /\ r.tail = IF q.tail = q.head THEN Null ELSE q.tail
  BY <1>3 DEF UnlinkHead, Loose, QueueState
<1> HIDE DEF r
<1> DEFINE R == Tail(Q)
<1> HIDE DEF R
<1>5. r.tail = IF R = <<>> THEN Null ELSE R[Len(R)]
  <2>1. q.tail = Q[Len(Q)] BY <1>1 DEF Loose
  <2>2. DOMAIN Q = 1..Len(Q) BY LooseFacts
  <2>3. q.tail = q.head <=> Len(Q) = 1 BY <1>1, <1>2, <2>1, <2>2 DEF NoDup
  <2>4. R = <<>> <=> Len(Q) = 1
    <3>1. R = <<>> <=> Len(R) = 0 BY <1>2, InSet DEF R
    <3>2. Len(R) = Len(Q) - 1 /\ Len(Q) \in Nat \ {0} BY <1>2 DEF R
    <3> QED BY <3>1, <3>2
  <2> DEFINE m == Len(Q)
  <2>5. m # 1 => Len(R) \in 1..(m - 1) /\ Len(R) + 1 = m
    <3>1. m \in Nat \ {0} /\ Len(R) = m - 1 BY <1>2 DEF R
    <3> HIDE DEF m
    <3> QED BY <3>1
  <2>6. m # 1 => R[Len(R)] = Q[m] BY <1>2, <2>5 DEF R
  <2> QED BY <1>4, <2>1, <2>3, <2>4, <2>6
<1>6. Follows(r, r.head, R) /\ Follows(r, r.free, F)
  BY <1>1, <1>4, FollowsKept DEF Loose, R
<1>7. Loose(r, R, F) BY <1>2, <1>4, <1>5, <1>6 DEF Loose, R
<1>8. q.head \notin ToSet(F) BY <1>1 DEF Loose
<1> QED BY <1>1, <1>2, <1>4, <1>7, <1>8 DEF r, R

LEMMA UnlinkedOK ==
  ASSUME NEW q, NEW Q, NEW F, Split(q, Q, F), q.entry > 0
  PROVE  LET r == Unlinked(q)
         IN  /\ Split(r, Tail(Q), F) /\ q.head = Head(Q) /\ Q # <<>>
             /\ q.head \in Node /\ q.head \in ToSet(Q) /\ q.head \notin ToSet(F)
             /\ ToSet(Tail(Q)) = ToSet(Q) \ {q.head}
             /\ r.entry = q.entry - 1 /\ r.data = q.data /\ r.next = q.next
<1> DEFINE u == UnlinkHead(q)
           r == Unlinked(q)
<1>1. q.head # Null /\ q.entry = Len(Q) /\ Loose(q, Q, F)
  <2>1. Loose(q, Q, F) /\ q.entry = Len(Q) BY DEF Split
  <2> QED BY <2>1, LooseFacts
<1>2. /\ Loose(u, Tail(Q), F) /\ q.head = Head(Q) /\ Q # <<>>
      /\ q.head \in Node /\ q.head \in ToSet(Q) /\ q.head \notin ToSet(F)
      /\ ToSet(Tail(Q)) = ToSet(Q) \ {q.head} /\ Len(Tail(Q)) = Len(Q) - 1
      /\ u.entry = q.entry /\ u.data = q.data /\ u.next = q.next
  BY <1>1, UnlinkHeadOK
<1>3. r = [u EXCEPT !.entry = u.entry - 1] BY DEF Unlinked
<1>4. u.entry - 1 \in 0..MqMax
  <2>1. q.entry \in 0..MqMax /\ MqMax \in Nat BY <1>1, LooseFacts, NodeFacts
  <2>2. q.entry - 1 \in 0..MqMax BY <2>1
  <2> QED BY <1>2, <2>2
<1> HIDE DEF u, r
<1>5. /\ r \in QueueState /\ r.head = u.head /\ r.tail = u.tail /\ r.free = u.free
      /\ r.next = u.next /\ r.data = u.data /\ r.entry = u.entry - 1
  BY <1>2, <1>3, <1>4 DEF Loose, QueueState
<1>6. Null \notin ToSet(Tail(Q)) \cup ToSet(F) BY <1>2, LooseFacts, NodeFacts
<1>7. Loose(r, Tail(Q), F) BY <1>2, <1>5, <1>6, WriteNode
<1> QED BY <1>1, <1>2, <1>5, <1>7 DEF Split, r

\* The links that put a node into the queue.
LEMMA LinkTailOK ==
  ASSUME NEW q, NEW Q, NEW F, Split(q, Q, F), NEW n \in Node, n \notin ToSet(Q) \cup ToSet(F),
         q.next[n] = Null, q.data[n] \in Msg
  PROVE  LET r == LinkTail(q, n)
         IN  /\ Split(r, Append(Q, n), F) /\ ToSet(Append(Q, n)) = ToSet(Q) \cup {n}
             /\ r.entry = q.entry + 1 /\ r.data = q.data /\ Len(Q) < MqMax
             /\ Untouched(q, r, ToSet(Q) \cup {n})
<1> DEFINE r == LinkTail(q, n)
           next == IF q.tail # Null THEN [q.next EXCEPT ![q.tail] = n] ELSE q.next
<1>0. Loose(q, Q, F) /\ q.entry = Len(Q) BY DEF Split
<1>1. /\ q.next \in [Node -> Node \cup {Null}] /\ q.tail \in Node \cup {Null}
      /\ Q \in Seq(Node) /\ NoDup(Q) /\ Len(Q) \in Nat /\ ToSet(Q) \subseteq Node
      /\ (q.head = Null <=> Q = <<>>)
  BY <1>0, LooseFacts
<1>2. /\ Append(Q, n) \in Seq(Node) /\ Len(Append(Q, n)) = Len(Q) + 1 /\ NoDup(Append(Q, n))
      /\ ToSet(Append(Q, n)) = ToSet(Q) \cup {n} /\ Append(Q, n)[Len(Q) + 1] = n
  BY <1>1, AppendNode
<1>3. Len(Append(Q, n)) \in 0..MqMax BY <1>2, AtMostMax
<1>4. q.entry + 1 \in 0..MqMax /\ Len(Q) < MqMax BY <1>0, <1>1, <1>2, <1>3, NodeFacts
<1>5. next \in [Node -> Node \cup {Null}] BY <1>1
<1>6. /\ r \in QueueState /\ r.next = next /\ r.data = q.data /\ r.tail = n /\ r.free = q.free
      /\ r.head = (IF q.head = Null THEN n ELSE q.head) /\ r.entry = q.entry + 1
  <2>1. r = [q EXCEPT !.next = next, !.tail = n, !.head = IF q.head = Null THEN n ELSE q.head,
                      !.entry = q.entry + 1]
    BY <1>0 DEF LinkTail, Loose, QueueState
  <2>2. (IF q.head = Null THEN n ELSE q.head) \in Node \cup {Null} BY <1>0 DEF Loose, QueueState
  <2> HIDE DEF next
  <2> QED BY <1>0, <1>4, <1>5, <2>1, <2>2 DEF Loose, QueueState
<1> HIDE DEF r
<1>7. /\ Q # <<>> => q.tail = Q[Len(Q)] /\ q.tail \in ToSet(Q) /\ q.tail \in Node /\ q.tail # Null
      /\ Q = <<>> => q.tail = Null
  <2>1. Q # <<>> => Len(Q) \in 1..Len(Q) BY <1>1
  <2> QED BY <1>0, <1>1, <2>1, InSet, NodeFacts DEF Loose
<1>8. /\ \A m \in Node : m # q.tail => next[m] = q.next[m]
      /\ Q # <<>> => next[Q[Len(Q)]] = n
  BY <1>1, <1>7
<1> HIDE DEF next
<1>9. Follows(r, r.head, Append(Q, n))
  <2>1. Follows(q, q.head, Q) BY <1>0 DEF Loose
  <2>2. Q # <<>> => r.next[Q[Len(Q)]] = n BY <1>6, <1>8
  <2>3. r.next[n] = Null
    <3>1. n # q.tail BY <1>7, NodeFacts
    <3> QED BY <1>6, <1>8, <3>1
  <2>4. \A i \in 1..Len(Q) : i # Len(Q) => r.next[Q[i]] = q.next[Q[i]]
    <3> SUFFICES ASSUME NEW i \in 1..Len(Q), i # Len(Q) PROVE r.next[Q[i]] = q.next[Q[i]] OBVIOUS
    <3>1. Q # <<>> /\ Len(Q) \in 1..Len(Q) /\ DOMAIN Q = 1..Len(Q) BY <1>1
    <3>2. Q[i] # q.tail BY <1>1, <1>7, <3>1 DEF NoDup
    <3>3. Q[i] \in Node BY <1>1, InSet
    <3> QED BY <1>6, <1>8, <3>2, <3>3
  <2>5. Follows(r, IF Q = <<>> THEN n ELSE q.head, Append(Q, n))
    BY <2>1, <2>2, <2>3, <2>4, FollowsAppend
  <2> QED BY <1>1, <1>6, <2>5
<1>10. Follows(r, r.free, F)
  <2>1. \A m \in ToSet(F) : r.next[m] = q.next[m]
    <3> SUFFICES ASSUME NEW m \in ToSet(F) PROVE r.next[m] = q.next[m] OBVIOUS
    <3>1. m \in Node BY <1>0, LooseFacts
    <3>2. m # q.tail BY <1>0, <1>7, <3>1, NodeFacts DEF Loose
    <3> QED BY <1>6, <1>8, <3>1, <3>2
  <2> QED BY <1>0, <1>6, <2>1, FollowsKept DEF Loose
<1>11. r.tail = IF Append(Q, n) = <<>> THEN Null ELSE Append(Q, n)[Len(Append(Q, n))]
  <2>1. Append(Q, n) # <<>> BY <1>1
  <2> QED BY <1>2, <1>6, <2>1
<1>12. ToSet(Append(Q, n)) \cap ToSet(F) = {} BY <1>0, <1>2 DEF Loose
<1>13. \A m \in ToSet(Append(Q, n)) : r.data[m] \in Msg BY <1>0, <1>2, <1>6 DEF Loose
<1>14. Loose(r, Append(Q, n), F) BY <1>6, <1>9, <1>10, <1>11, <1>12, <1>13 DEF Loose
<1>15. Untouched(q, r, ToSet(Q) \cup {n}) BY <1>6, <1>7, <1>8, NodeFacts DEF Untouched
<1> QED BY <1>0, <1>2, <1>4, <1>6, <1>14, <1>15 DEF Split, r

LEMMA LinkHeadOK ==
  ASSUME NEW q, NEW Q, NEW F, Split(q, Q, F), NEW n \in Node, n \notin ToSet(Q) \cup ToSet(F),
         q.data[n] \in Msg
  PROVE  LET r == LinkHead(q, n)
         IN  /\ Split(r, <<n>> \o Q, F) /\ ToSet(<<n>> \o Q) = ToSet(Q) \cup {n}
             /\ r.entry = q.entry + 1 /\ r.data = q.data /\ Len(Q) < MqMax
             /\ Untouched(q, r, {n})
<1> DEFINE r == LinkHead(q, n)
           next == [q.next EXCEPT ![n] = q.head]
           R == <<n>> \o Q
<1>0. Loose(q, Q, F) /\ q.entry = Len(Q) BY DEF Split
<1>1. /\ q.next \in [Node -> Node \cup {Null}] /\ q.head \in Node \cup {Null}
      /\ Q \in Seq(Node) /\ NoDup(Q) /\ Len(Q) \in Nat /\ ToSet(Q) \subseteq Node
      /\ (q.head = Null <=> Q = <<>>) /\ ToSet(F) \subseteq Node
  BY <1>0, LooseFacts
<1>2. /\ R \in Seq(Node) /\ Len(R) = Len(Q) + 1 /\ NoDup(R)
      /\ ToSet(R) = ToSet(Q) \cup {n} /\ R[1] = n
      /\ \A i \in 1..Len(Q) : R[i + 1] = Q[i]
  BY <1>1, ConsList
<1> HIDE DEF R
<1>3. Len(R) \in 0..MqMax BY <1>2, AtMostMax
<1>4. q.entry + 1 \in 0..MqMax /\ Len(Q) < MqMax BY <1>0, <1>1, <1>2, <1>3, NodeFacts
<1>5. next \in [Node -> Node \cup {Null}] BY <1>1
<1>6. /\ r \in QueueState /\ r.next = next /\ r.data = q.data /\ r.head = n /\ r.free = q.free
      /\ r.tail = (IF q.tail = Null THEN n ELSE q.tail) /\ r.entry = q.entry + 1
  <2>1. r = [q EXCEPT !.next = next, !.head = n, !.tail = IF q.tail = Null THEN n ELSE q.tail,
                      !.entry = q.entry + 1]
    BY <1>0 DEF LinkHead, Loose, QueueState
  <2>2. (IF q.tail = Null THEN n ELSE q.tail) \in Node \cup {Null} BY <1>0 DEF Loose, QueueState
  <2> HIDE DEF next
  <2> QED BY <1>0, <1>4, <1>5, <2>1, <2>2 DEF Loose, QueueState
<1> HIDE DEF r
<1>7. next[n] = q.head /\ \A m \in Node \ {n} : next[m] = q.next[m] BY <1>1
<1> HIDE DEF next
<1>8. Follows(r, r.head, R)
  <2>1. Follows(r, q.head, Q)
    <3>1. \A m \in ToSet(Q) : r.next[m] = q.next[m] BY <1>1, <1>6, <1>7
    <3> QED BY <1>0, <3>1, FollowsKept DEF Loose
  <2> QED BY <1>6, <1>7, <2>1, FollowsCons DEF R
<1>9. Follows(r, r.free, F)
  <2>1. \A m \in ToSet(F) : r.next[m] = q.next[m] BY <1>1, <1>6, <1>7
  <2> QED BY <1>0, <1>6, <2>1, FollowsKept DEF Loose
<1>10. r.tail = IF R = <<>> THEN Null ELSE R[Len(R)]
  <2>1. R # <<>> BY <1>1, <1>2
  <2>2. CASE Q = <<>> BY <1>0, <1>2, <1>6, <2>1, <2>2 DEF Loose
  <2>3. CASE Q # <<>>
    <3>1. Len(Q) \in 1..Len(Q) BY <1>1, <2>3
    <3>2. q.tail = Q[Len(Q)] /\ q.tail \in Node BY <1>0, <1>1, <2>3, <3>1, InSet DEF Loose
    <3> QED BY <1>2, <1>6, <2>1, <3>1, <3>2, NodeFacts
  <2> QED BY <2>2, <2>3
<1>11. ToSet(R) \cap ToSet(F) = {} BY <1>0, <1>2 DEF Loose
<1>12. \A m \in ToSet(R) : r.data[m] \in Msg BY <1>0, <1>2, <1>6 DEF Loose
<1>13. Loose(r, R, F) BY <1>6, <1>8, <1>9, <1>10, <1>11, <1>12 DEF Loose
<1>14. Untouched(q, r, {n}) BY <1>6, <1>7 DEF Untouched
<1> QED BY <1>0, <1>2, <1>4, <1>6, <1>13, <1>14 DEF Split, r, R

\* One round of the loop that empties the queue, and its recursion.
MoveFirst(r) == IF r.head = Null THEN r ELSE PutFree(UnlinkHead(r), r.head)

LEMMA MoveFirstOK ==
  ASSUME NEW q, NEW Q, NEW F, Loose(q, Q, F)
  PROVE  LET r == MoveFirst(q)
         IN  \E R, G : /\ Loose(r, R, G) /\ ToSet(R) \cup ToSet(G) = ToSet(Q) \cup ToSet(F)
                       /\ ToSet(R) \subseteq ToSet(Q) /\ Len(R) = (IF Q = <<>> THEN 0 ELSE Len(Q) - 1)
                       /\ Untouched(q, r, ToSet(Q))
<1> DEFINE r == MoveFirst(q)
<1>1. CASE q.head = Null
  <2>1. r = q /\ Q = <<>> /\ Len(Q) = 0 BY <1>1, LooseFacts DEF MoveFirst
  <2> HIDE DEF r
  <2>2. \E R, G : /\ Loose(r, R, G) /\ ToSet(R) \cup ToSet(G) = ToSet(Q) \cup ToSet(F)
                  /\ ToSet(R) \subseteq ToSet(Q) /\ Len(R) = (IF Q = <<>> THEN 0 ELSE Len(Q) - 1)
                  /\ Untouched(q, r, ToSet(Q))
    BY <2>1 DEF Untouched
  <2> QED BY <2>2 DEF r
<1>2. CASE q.head # Null
  <2> DEFINE n == q.head
             u == UnlinkHead(q)
  <2>1. /\ Loose(u, Tail(Q), F) /\ Q # <<>> /\ n \in Node /\ n \in ToSet(Q) /\ n \notin ToSet(F)
        /\ ToSet(Tail(Q)) = ToSet(Q) \ {n} /\ Len(Tail(Q)) = Len(Q) - 1
        /\ u.data = q.data /\ u.next = q.next
    BY <1>2, UnlinkHeadOK
  <2>2. r = PutFree(u, n) BY <1>2 DEF MoveFirst
  <2> HIDE DEF r, u, n
  <2>3. /\ Loose(r, Tail(Q), <<n>> \o F) /\ ToSet(<<n>> \o F) = ToSet(F) \cup {n}
        /\ Untouched(u, r, {n})
    <3>1. n \notin ToSet(Tail(Q)) \cup ToSet(F) BY <2>1
    <3> QED BY <2>1, <2>2, <3>1, PutFreeOK
  <2>4. ToSet(Tail(Q)) \cup ToSet(<<n>> \o F) = ToSet(Q) \cup ToSet(F) BY <2>1, <2>3
  <2>5. Untouched(q, r, ToSet(Q)) BY <2>1, <2>3 DEF Untouched
  <2>6. \E R, G : /\ Loose(r, R, G) /\ ToSet(R) \cup ToSet(G) = ToSet(Q) \cup ToSet(F)
                  /\ ToSet(R) \subseteq ToSet(Q) /\ Len(R) = (IF Q = <<>> THEN 0 ELSE Len(Q) - 1)
                  /\ Untouched(q, r, ToSet(Q))
    BY <2>1, <2>3, <2>4, <2>5
  <2> QED BY <2>6 DEF r
<1> QED BY <1>1, <1>2

LEMMA EmptySteps ==
  ASSUME NEW q
  PROVE  \E f : /\ f = [i \in 0..MqMax |-> IF i = 0 THEN q ELSE MoveFirst(f[i - 1])]
                /\ Emptied(q) = [f[MqMax] EXCEPT !.entry = 0]
<1> DEFINE D(m) == \E f : f = [i \in 0..m |-> IF i = 0 THEN q ELSE MoveFirst(f[i - 1])]
           T == {m \in Nat : ~D(m)}
           Q(f) == f = [i \in 0..MqMax |-> IF i = 0 THEN q ELSE MoveFirst(f[i - 1])]
           after == CHOOSE f : Q(f)
<1>1. Emptied(q) = [after[MqMax] EXCEPT !.entry = 0] BY DEF Emptied, MoveFirst
<1>2. T = {}
  <2>1. SUFFICES ASSUME T # {} PROVE FALSE OBVIOUS
  <2>2. PICK x \in T : \A y \in T : x <= y BY <2>1, Minimum
  <2>3. CASE x = 0
    <3> DEFINE g == [i \in 0..0 |-> q]
    <3>1. g = [i \in 0..0 |-> IF i = 0 THEN q ELSE MoveFirst(g[i - 1])]
      <4>1. \A i \in 0..0 : i = 0 OBVIOUS
      <4> QED BY <4>1
    <3>2. D(0) BY <3>1
    <3> QED BY <2>2, <2>3, <3>2
  <2>4. CASE x # 0
    <3>1. x \in Nat /\ x - 1 \in Nat /\ x - 1 \notin T
      <4> HIDE DEF D, Q, after
      <4> QED BY <2>2, <2>4
    <3>2. PICK g : g = [i \in 0..(x - 1) |-> IF i = 0 THEN q ELSE MoveFirst(g[i - 1])]
      BY <3>1
    <3> DEFINE h == [i \in 0..x |-> IF i = 0 THEN q ELSE MoveFirst(g[i - 1])]
    <3>3. \A i \in 0..(x - 1) : h[i] = g[i] BY <3>1, <3>2
    <3>4. \A i \in 1..x : i - 1 \in 0..(x - 1) /\ h[i - 1] = g[i - 1]
      <4> TAKE i \in 1..x
      <4>1. i - 1 \in 0..(x - 1) BY <3>1
      <4> HIDE DEF h
      <4> QED BY <4>1, <3>3
    <3>5. h = [i \in 0..x |-> IF i = 0 THEN q ELSE MoveFirst(h[i - 1])]
      <4> DEFINE j == [i \in 0..x |-> IF i = 0 THEN q ELSE MoveFirst(h[i - 1])]
      <4>1. \A i \in 0..x : j[i] = h[i]
        <5> TAKE i \in 0..x
        <5>1. CASE i = 0 BY <5>1
        <5>2. CASE i # 0
          <6>1. i \in 1..x BY <5>2, <3>1
          <6>2. h[i - 1] = g[i - 1] BY <6>1, <3>4
          <6> HIDE DEF h
          <6>3. j[i] = MoveFirst(h[i - 1]) BY <5>2
          <6>4. h[i] = MoveFirst(g[i - 1]) BY <5>2 DEF h
          <6> QED BY <6>2, <6>3, <6>4
        <5> QED BY <5>1, <5>2
      <4>2. DOMAIN j = 0..x /\ DOMAIN h = 0..x OBVIOUS
      <4> QED BY <4>1, <4>2
    <3>6. D(x) BY <3>5
    <3> QED BY <2>2, <3>6
  <2> QED BY <2>3, <2>4
<1>3. D(MqMax) BY <1>2, NodeFacts
<1>4. \E f : Q(f)
  <2>1. PICK f : f = [i \in 0..MqMax |-> IF i = 0 THEN q ELSE MoveFirst(f[i - 1])] BY <1>3
  <2>2. Q(f) BY <2>1
  <2> HIDE DEF Q
  <2> QED BY <2>2
<1>5. Q(after)
  <2> HIDE DEF Q
  <2> QED BY <1>4, Zenon
<1> QED BY <1>1, <1>5

LEMMA EmptiedOK ==
  ASSUME NEW q, NEW Q, NEW F, Loose(q, Q, F)
  PROVE  LET r == Emptied(q)
         IN  /\ \E G : Split(r, <<>>, G) /\ ToSet(G) = ToSet(Q) \cup ToSet(F)
             /\ r.entry = 0 /\ Untouched(q, r, ToSet(Q))
<1> DEFINE len == Len(Q)
           r == Emptied(q)
<1>1. len \in 0..MqMax /\ MqMax \in Nat BY LooseFacts, NodeFacts
<1> HIDE DEF r
<1>2. PICK f : /\ f = [i \in 0..MqMax |-> IF i = 0 THEN q ELSE MoveFirst(f[i - 1])]
               /\ r = [f[MqMax] EXCEPT !.entry = 0]
  BY EmptySteps DEF r
<1> HIDE DEF len
<1> DEFINE P(i) ==
             \E R, G : /\ Loose(f[i], R, G) /\ ToSet(R) \cup ToSet(G) = ToSet(Q) \cup ToSet(F)
                       /\ ToSet(R) \subseteq ToSet(Q)
                       /\ Len(R) = (IF i <= len THEN len - i ELSE 0)
                       /\ Untouched(q, f[i], ToSet(Q))
           T == {i \in 0..MqMax : ~P(i)}
<1>3. P(0)
  <2>1. f[0] = q /\ Untouched(q, q, ToSet(Q)) BY <1>1, <1>2 DEF Untouched
  <2>2. Len(Q) = (IF 0 <= len THEN len - 0 ELSE 0) BY <1>1 DEF len
  <2> QED BY <2>1, <2>2
<1>4. ASSUME NEW i \in 0..MqMax, i # MqMax, P(i) PROVE P(i + 1)
  <2>1. i + 1 \in 0..MqMax /\ i + 1 # 0 /\ (i + 1) - 1 = i BY <1>1, <1>4
  <2> DEFINE u == f[i]
             v == f[i + 1]
  <2>2. v = MoveFirst(u) BY <2>1, <1>2
  <2>3. PICK R, G : /\ Loose(u, R, G) /\ ToSet(R) \cup ToSet(G) = ToSet(Q) \cup ToSet(F)
                    /\ ToSet(R) \subseteq ToSet(Q)
                    /\ Len(R) = (IF i <= len THEN len - i ELSE 0)
                    /\ Untouched(q, u, ToSet(Q))
    BY <1>4
  <2> HIDE DEF u, v
  <2>4. PICK S, H : /\ Loose(v, S, H) /\ ToSet(S) \cup ToSet(H) = ToSet(R) \cup ToSet(G)
                    /\ ToSet(S) \subseteq ToSet(R) /\ Len(S) = (IF R = <<>> THEN 0 ELSE Len(R) - 1)
                    /\ Untouched(u, v, ToSet(R))
    BY <2>2, <2>3, MoveFirstOK
  <2>5. R = <<>> <=> Len(R) = 0 BY <2>3, LooseFacts, InSet
  <2>6. Len(S) = (IF i + 1 <= len THEN len - (i + 1) ELSE 0)
    <3>1. CASE i <= len BY <1>1, <2>1, <2>3, <2>4, <2>5, <3>1
    <3>2. CASE ~(i <= len) BY <1>1, <2>1, <2>3, <2>4, <2>5, <3>2
    <3> QED BY <3>1, <3>2
  <2>7. Untouched(q, v, ToSet(Q)) BY <2>3, <2>4 DEF Untouched
  <2>8. ToSet(S) \cup ToSet(H) = ToSet(Q) \cup ToSet(F) /\ ToSet(S) \subseteq ToSet(Q)
    BY <2>3, <2>4
  <2> QED BY <2>4, <2>6, <2>7, <2>8 DEF v
<1>5. T = {}
  <2>1. SUFFICES ASSUME T # {} PROVE FALSE OBVIOUS
  <2> HIDE DEF P
  <2>2. T \in SUBSET Nat BY <1>1
  <2>3. PICK x \in T : \A y \in T : x <= y
    <3> HIDE DEF T
    <3> QED BY <2>1, <2>2, Minimum
  <2>4. x \in 0..MqMax /\ ~P(x) BY <2>3
  <2>5. x # 0 BY <1>3, <2>4
  <2>6. /\ x - 1 \in 0..MqMax /\ x - 1 # MqMax /\ x - 1 \notin T /\ (x - 1) + 1 = x
    BY <1>1, <2>3, <2>4, <2>5
  <2>7. P((x - 1) + 1) BY <1>4, <2>6
  <2> QED BY <2>4, <2>6, <2>7
<1>6. P(MqMax)
  <2>1. MqMax \in 0..MqMax BY <1>1
  <2> HIDE DEF P
  <2> QED BY <1>5, <2>1
<1> DEFINE w == f[MqMax]
<1>7. PICK R, G : /\ Loose(w, R, G) /\ ToSet(R) \cup ToSet(G) = ToSet(Q) \cup ToSet(F)
                  /\ Len(R) = (IF MqMax <= len THEN len - MqMax ELSE 0)
                  /\ Untouched(q, w, ToSet(Q))
  BY <1>6
<1> HIDE DEF w
<1>8. R = <<>>
  <2>1. Len(R) = 0 BY <1>1, <1>7
  <2> QED BY <1>7, <2>1, LooseFacts, InSet
<1>9. /\ r \in QueueState /\ r.head = w.head /\ r.tail = w.tail /\ r.free = w.free
      /\ r.next = w.next /\ r.data = w.data /\ r.entry = 0
  <2>1. r = [w EXCEPT !.entry = 0] BY <1>2 DEF w
  <2>2. 0 \in 0..MqMax BY <1>1
  <2> QED BY <1>7, <2>1, <2>2 DEF Loose, QueueState
<1>10. Null \notin ToSet(R) \cup ToSet(G) BY <1>7, LooseFacts, NodeFacts
<1>11. Loose(r, R, G) BY <1>7, <1>9, <1>10, WriteNode
<1>12. ToSet(<<>>) = {} BY DEF ToSet
<1>13. Split(r, <<>>, G) /\ ToSet(G) = ToSet(Q) \cup ToSet(F)
  BY <1>7, <1>8, <1>9, <1>11, <1>12 DEF Split
<1>14. Untouched(q, r, ToSet(Q)) BY <1>7, <1>9 DEF Untouched
<1> QED BY <1>9, <1>13, <1>14 DEF r

\* A new queue: all nodes are free.
LEMMA NewQueueOK ==
  \E G : Split(NewQueue, <<>>, G) /\ ToSet(G) = Node
<1> DEFINE G == [i \in 1..MqMax |-> MqMax + 1 - i]
           q == NewQueue
<1>1. MqMax \in Nat \ {0} /\ Null \notin Node BY NodeFacts
<1>2. \A i \in 1..MqMax : G[i] = MqMax + 1 - i /\ G[i] \in Node BY <1>1 DEF Node
<1>3. G \in Seq(Node) /\ Len(G) = MqMax /\ DOMAIN G = 1..MqMax BY <1>1, <1>2
<1> HIDE DEF G
<1>4. NoDup(G) BY <1>1, <1>2, <1>3 DEF NoDup
<1>5. ToSet(G) = Node
  <2>1. ToSet(G) \subseteq Node BY <1>3, InSet
  <2>2. ASSUME NEW n \in Node PROVE n \in ToSet(G)
    <3>1. MqMax + 1 - n \in 1..MqMax /\ MqMax + 1 - (MqMax + 1 - n) = n BY <1>1 DEF Node
    <3>2. G[MqMax + 1 - n] = n BY <1>2, <3>1
    <3> QED BY <1>3, <3>1, <3>2 DEF ToSet
  <2> QED BY <2>1, <2>2
<1>6. /\ q.next = [n \in Node |-> IF n = 1 THEN Null ELSE n - 1] /\ q.data = [n \in Node |-> Null]
      /\ q.head = Null /\ q.tail = Null /\ q.free = MqMax /\ q.entry = 0
  BY DEF NewQueue
<1>7. q \in QueueState
  <2>1. \A n \in Node : n # 1 => n - 1 \in Node BY <1>1 DEF Node
  <2>2. MqMax \in Node /\ 0 \in 0..MqMax BY <1>1 DEF Node
  <2> QED BY <2>1, <2>2 DEF NewQueue, QueueState
<1> HIDE DEF q
<1>8. Follows(q, q.free, G)
  <2>1. G # <<>> /\ G[1] = MqMax
    <3>1. 1 \in 1..MqMax /\ MqMax + 1 - 1 = MqMax BY <1>1
    <3> QED BY <1>1, <1>2, <1>3, <3>1
  <2>2. ASSUME NEW i \in 1..Len(G) PROVE q.next[G[i]] = IF i = Len(G) THEN Null ELSE G[i + 1]
    <3>1. G[i] = MqMax + 1 - i /\ G[i] \in Node BY <1>2, <1>3
    <3>2. q.next[G[i]] = IF G[i] = 1 THEN Null ELSE G[i] - 1 BY <1>6, <3>1
    <3>3. CASE i = MqMax BY <1>1, <1>3, <3>1, <3>2, <3>3
    <3>4. CASE i # MqMax
      <4>1. i + 1 \in 1..MqMax /\ MqMax + 1 - (i + 1) = MqMax + 1 - i - 1 /\ MqMax + 1 - i # 1
        BY <1>1, <1>3, <3>4
      <4>2. G[i + 1] = MqMax + 1 - (i + 1) BY <1>2, <4>1
      <4> QED BY <1>3, <3>1, <3>2, <3>4, <4>1, <4>2
    <3> QED BY <3>3, <3>4
  <2> QED BY <1>3, <1>4, <1>6, <2>1, <2>2 DEF Follows
<1>9. <<>> \in Seq(Node) /\ Len(<<>>) = 0 /\ NoDup(<<>>) /\ ToSet(<<>>) = {} BY DEF NoDup, ToSet
<1>10. Follows(q, q.head, <<>>) BY <1>6, <1>9 DEF Follows
<1>11. Split(q, <<>>, G) BY <1>6, <1>7, <1>8, <1>9, <1>10 DEF Split, Loose
<1> QED BY <1>5, <1>11 DEF q

-----------------------------------------------------------------------------
(* Messages and nodes in the hands of calls.                               *)

Label == {"run", "sched"} \cup MqLabel \cup EvLabel
LookPc == {"mq_copy_out", "mq_put_free"}
LinkPc == {"mq_link", "mq_link_urgent"}
FilledPc == {"mq_link", "mq_link_urgent"} \cup LookPc
HandPc == {"mq_copy", "mq_copy_urgent"} \cup FilledPc

\* The nodes of the chains Q and F and those in hands are all there are.
Owned(q, m, Q, F) ==
  /\ Split(q, Q, F)
  /\ \A t \in Thread : m[t] # Null => m[t] \notin ToSet(Q) \cup ToSet(F)
  /\ \A n \in Node : n \in ToSet(Q) \cup ToSet(F) \/ \E t \in Thread : m[t] = n
  /\ \A t, u \in Thread : m[t] = m[u] /\ m[t] # Null => t = u

\* What is in a hand fits the place of the call.
Hands ==
  \A t \in Thread :
    /\ msg[t] # Null <=> pc[t] \in HandPc
    /\ pc[t] \in FilledPc => mq.data[msg[t]] \in Msg
    /\ pc[t] = "mq_link" => mq.next[msg[t]] = Null

Pool ==
  /\ Owned(mq, msg, Queued, Free) /\ Hands
  /\ pc \in [Thread -> Label] /\ msg \in [Thread -> Node \cup {Null}]

LEMMA OwnedTake ==
  ASSUME NEW q, NEW m \in [Thread -> Node \cup {Null}], NEW Q, NEW F, Owned(q, m, Q, F),
         NEW t \in Thread, m[t] = Null, NEW n \in Node, n \in ToSet(Q) \cup ToSet(F),
         NEW r, NEW R, NEW G, Split(r, R, G),
         ToSet(R) \cup ToSet(G) = (ToSet(Q) \cup ToSet(F)) \ {n}
  PROVE  Owned(r, [m EXCEPT ![t] = n], R, G)
<1> DEFINE p == [m EXCEPT ![t] = n]
<1>1. p[t] = n /\ \A u \in Thread \ {t} : p[u] = m[u] OBVIOUS
<1> HIDE DEF p
<1>2. \A u \in Thread : p[u] # Null => p[u] \notin ToSet(R) \cup ToSet(G) BY <1>1 DEF Owned
<1>3. \A x \in Node : x \in ToSet(R) \cup ToSet(G) \/ \E u \in Thread : p[u] = x
  <2> TAKE x \in Node
  <2>1. CASE x = n BY <1>1, <2>1
  <2>2. CASE x # n
    <3>1. x \in ToSet(Q) \cup ToSet(F) \/ \E u \in Thread : m[u] = x BY DEF Owned
    <3>2. \A u \in Thread : m[u] = x => u # t BY NodeFacts
    <3> QED BY <1>1, <2>2, <3>1, <3>2
  <2> QED BY <2>1, <2>2
<1>4. \A u, v \in Thread : p[u] = p[v] /\ p[u] # Null => u = v
  <2>1. \A u \in Thread \ {t} : p[u] # n BY <1>1, NodeFacts DEF Owned
  <2> QED BY <1>1, <2>1 DEF Owned
<1> QED BY <1>2, <1>3, <1>4 DEF Owned, p

LEMMA OwnedGive ==
  ASSUME NEW q, NEW m \in [Thread -> Node \cup {Null}], NEW Q, NEW F, Owned(q, m, Q, F),
         NEW t \in Thread, m[t] # Null, NEW r, NEW R, NEW G, Split(r, R, G),
         ToSet(R) \cup ToSet(G) = (ToSet(Q) \cup ToSet(F)) \cup {m[t]}
  PROVE  Owned(r, [m EXCEPT ![t] = Null], R, G)
<1> DEFINE p == [m EXCEPT ![t] = Null]
<1>1. p[t] = Null /\ \A u \in Thread \ {t} : p[u] = m[u] OBVIOUS
<1> HIDE DEF p
<1>2. \A u \in Thread : p[u] # Null => p[u] \notin ToSet(R) \cup ToSet(G)
  <2> SUFFICES ASSUME NEW u \in Thread, p[u] # Null PROVE p[u] \notin ToSet(R) \cup ToSet(G)
    OBVIOUS
  <2>1. u # t /\ p[u] = m[u] BY <1>1
  <2>2. m[u] # m[t] BY <1>1, <2>1 DEF Owned
  <2>3. m[u] \notin ToSet(Q) \cup ToSet(F) BY <2>1 DEF Owned
  <2> QED BY <2>1, <2>2, <2>3
<1>3. \A x \in Node : x \in ToSet(R) \cup ToSet(G) \/ \E u \in Thread : p[u] = x
  <2> TAKE x \in Node
  <2>1. x \in ToSet(Q) \cup ToSet(F) \/ \E u \in Thread : m[u] = x BY DEF Owned
  <2> QED BY <1>1, <2>1
<1>4. \A u, v \in Thread : p[u] = p[v] /\ p[u] # Null => u = v BY <1>1 DEF Owned
<1> QED BY <1>2, <1>3, <1>4 DEF Owned, p

\* Every node in exactly one place, by counting.
LEMMA NodesCounted ==
  ASSUME Pool
  PROVE  NodesAccounted
<1>0. Loose(mq, Queued, Free) /\ mq.entry = Len(Queued) BY DEF Pool, Owned, Split
<1>1. /\ Queued \in Seq(Node) /\ NoDup(Queued) /\ Free \in Seq(Node) /\ NoDup(Free)
  BY <1>0, LooseFacts
<1>2. ASSUME NEW S \in Seq(Node), NoDup(S), NEW n
      PROVE  Cardinality({i \in DOMAIN S : S[i] = n}) = IF n \in ToSet(S) THEN 1 ELSE 0
  <2> DEFINE I == {i \in DOMAIN S : S[i] = n}
  <2>1. CASE n \in ToSet(S)
    <3>1. PICK i \in DOMAIN S : S[i] = n BY <2>1 DEF ToSet
    <3>2. I = {i} BY <1>2, <3>1 DEF NoDup
    <3> QED BY <2>1, <3>2, FS_Singleton
  <2>2. CASE n \notin ToSet(S)
    <3>1. I = {} BY <2>2 DEF ToSet
    <3> QED BY <2>2, <3>1, FS_EmptySet
  <2> QED BY <2>1, <2>2
<1>3. ASSUME NEW n \in Node
      PROVE  Cardinality({i \in DOMAIN Queued : Queued[i] = n})
             + Cardinality({i \in DOMAIN Free : Free[i] = n}) + Cardinality(InHands(n)) = 1
  <2>1. /\ Cardinality({i \in DOMAIN Queued : Queued[i] = n}) = IF n \in ToSet(Queued) THEN 1 ELSE 0
        /\ Cardinality({i \in DOMAIN Free : Free[i] = n}) = IF n \in ToSet(Free) THEN 1 ELSE 0
    BY <1>1, <1>2
  <2>2. n # Null BY NodeFacts
  <2>3. CASE \E t \in Thread : msg[t] = n
    <3>1. PICK t \in Thread : msg[t] = n BY <2>3
    <3>2. InHands(n) = {t} BY <2>2, <3>1 DEF InHands, Pool, Owned
    <3>3. Cardinality(InHands(n)) = 1 BY <3>2, FS_Singleton
    <3>4. n \notin ToSet(Queued) /\ n \notin ToSet(Free) BY <2>2, <3>1 DEF Pool, Owned
    <3> QED BY <2>1, <3>3, <3>4
  <2>4. CASE ~\E t \in Thread : msg[t] = n
    <3>1. InHands(n) = {} BY <2>4 DEF InHands
    <3>2. Cardinality(InHands(n)) = 0 BY <3>1, FS_EmptySet
    <3>3. n \in ToSet(Queued) \cup ToSet(Free) BY <2>4 DEF Pool, Owned
    <3>4. ~(n \in ToSet(Queued) /\ n \in ToSet(Free)) BY <1>0 DEF Loose
    <3> QED BY <2>1, <3>2, <3>3, <3>4
  <2> QED BY <2>3, <2>4
<1>4. mq.tail = IF Queued = <<>> THEN Null ELSE Last(Queued) BY <1>0 DEF Loose, Last
<1> QED BY <1>0, <1>3, <1>4 DEF NodesAccounted

-----------------------------------------------------------------------------
(* The chains as a queue of messages.                                      *)

Words(d, Q) == [i \in DOMAIN Q |-> d[Q[i]]]

LEMMA WordsAre ==
  ASSUME NEW d, NEW Q \in Seq(Node)
  PROVE  /\ Len(Words(d, Q)) = Len(Q) /\ (Q # <<>> => Words(d, Q) # <<>>)
         /\ Words(d, <<>>) = <<>>
         /\ \A n \in Node : /\ Words(d, Append(Q, n)) = Append(Words(d, Q), d[n])
                            /\ Words(d, <<n>> \o Q) = <<d[n]>> \o Words(d, Q)
         /\ Q # <<>> => /\ Words(d, Tail(Q)) = Tail(Words(d, Q))
                        /\ Head(Words(d, Q)) = d[Head(Q)]
         /\ \A e : (\A n \in ToSet(Q) : e[n] = d[n]) => Words(e, Q) = Words(d, Q)
<1> DEFINE w == Words(d, Q)
           X == {d[n] : n \in Node}
           len == Len(Q)
<1>1. DOMAIN Q = 1..len /\ len \in Nat /\ (Q = <<>> <=> len = 0) /\ \A i \in 1..len : Q[i] \in Node
  BY InSet
<1>2. /\ w = [i \in 1..len |-> d[Q[i]]] /\ w \in Seq(X) /\ Len(w) = len
      /\ \A i \in 1..len : w[i] = d[Q[i]]
  BY <1>1 DEF Words
<1>3. Words(d, <<>>) = <<>> BY DEF Words
<1> HIDE DEF w, X, len
<1>4. Q # <<>> => w # <<>> BY <1>1, <1>2
<1>9. w \in Seq(X) /\ Len(w) = len BY <1>2
<1>5. ASSUME NEW n \in Node PROVE Words(d, Append(Q, n)) = Append(w, d[n])
  <2> DEFINE R == Append(Q, n)
             v == Append(w, d[n])
  <2>1. /\ R \in Seq(Node) /\ Len(R) = len + 1 /\ R[len + 1] = n
        /\ \A i \in 1..len : R[i] = Q[i]
    BY AppendNode DEF len
  <2>2. PICK x \in X : x = d[n] BY DEF X
  <2>3. /\ v \in Seq(X) /\ Len(v) = len + 1 /\ v[len + 1] = d[n]
        /\ \A i \in 1..len : v[i] = w[i]
    <3>1. /\ Append(w, x) \in Seq(X) /\ Len(Append(w, x)) = Len(w) + 1
          /\ Append(w, x)[Len(w) + 1] = x /\ \A i \in 1..Len(w) : Append(w, x)[i] = w[i]
      BY <1>9, AppendNode
    <3> QED BY <1>9, <2>2, <3>1
  <2> HIDE DEF R, v
  <2>4. Words(d, R) = [i \in 1..(len + 1) |-> d[R[i]]] BY <2>1 DEF Words
  <2>5. \A i \in 1..(len + 1) : v[i] = d[R[i]]
    <3> TAKE i \in 1..(len + 1)
    <3>1. i = len + 1 \/ i \in 1..len BY <1>1
    <3> QED BY <1>2, <2>1, <2>3, <3>1
  <2>6. v = [i \in 1..(len + 1) |-> v[i]] BY <2>3
  <2> QED BY <2>4, <2>5, <2>6 DEF R, v
<1>6. ASSUME NEW n \in Node PROVE Words(d, <<n>> \o Q) = <<d[n]>> \o w
  <2> DEFINE R == <<n>> \o Q
             v == <<d[n]>> \o w
  <2>1. /\ R \in Seq(Node) /\ Len(R) = len + 1 /\ R[1] = n
        /\ \A i \in 1..len : R[i + 1] = Q[i]
    BY ConsList DEF len
  <2>2. PICK x \in X : x = d[n] BY DEF X
  <2>3. /\ v \in Seq(X) /\ Len(v) = len + 1 /\ v[1] = d[n]
        /\ \A i \in 1..len : v[i + 1] = w[i]
    <3>1. /\ <<x>> \o w \in Seq(X) /\ Len(<<x>> \o w) = Len(w) + 1
          /\ (<<x>> \o w)[1] = x /\ \A i \in 1..Len(w) : (<<x>> \o w)[i + 1] = w[i]
      BY <1>9, ConsList
    <3>2. v = <<x>> \o w BY <2>2
    <3> HIDE DEF v
    <3> QED BY <1>9, <2>2, <3>1, <3>2
  <2> HIDE DEF R, v
  <2>4. Words(d, R) = [i \in 1..(len + 1) |-> d[R[i]]] BY <2>1 DEF Words
  <2>5. \A i \in 1..(len + 1) : v[i] = d[R[i]]
    <3> TAKE i \in 1..(len + 1)
    <3>1. i = 1 \/ (i - 1 \in 1..len /\ (i - 1) + 1 = i) BY <1>1
    <3> QED BY <1>2, <2>1, <2>3, <3>1
  <2>6. v = [i \in 1..(len + 1) |-> v[i]] BY <2>3
  <2> QED BY <2>4, <2>5, <2>6 DEF R, v
<1>7. ASSUME Q # <<>> PROVE Words(d, Tail(Q)) = Tail(w) /\ Head(w) = d[Head(Q)]
  <2> DEFINE R == Tail(Q)
             v == Tail(w)
  <2>0. len \in Nat \ {0} /\ w # <<>> BY <1>1, <1>4, <1>7
  <2>1. R \in Seq(Node) /\ Len(R) = len - 1 /\ \A i \in 1..(len - 1) : R[i] = Q[i + 1]
    BY <1>7, HeadTailProperties DEF len
  <2>2. v \in Seq(X) /\ Len(v) = len - 1 /\ \A i \in 1..(len - 1) : v[i] = w[i + 1]
    <3>1. /\ v \in Seq(X) /\ Len(v) = Len(w) - 1 /\ \A i \in 1..Len(v) : v[i] = w[i + 1]
      BY <1>9, <2>0, HeadTailProperties
    <3> HIDE DEF v
    <3> QED BY <1>9, <3>1
  <2>3. Head(w) = w[1] /\ Head(Q) = Q[1] /\ 1 \in 1..len BY <1>1, <1>2, <2>0
  <2> HIDE DEF R, v
  <2>4. Words(d, R) = [i \in 1..(len - 1) |-> d[R[i]]] BY <2>1 DEF Words
  <2>5. \A i \in 1..(len - 1) : v[i] = d[R[i]]
    <3> TAKE i \in 1..(len - 1)
    <3>1. i + 1 \in 1..len BY <2>0
    <3> QED BY <1>2, <2>1, <2>2, <3>1
  <2>6. v = [i \in 1..(len - 1) |-> v[i]] BY <2>2
  <2> QED BY <1>2, <2>3, <2>4, <2>5, <2>6 DEF R, v
<1>8. ASSUME NEW e, \A n \in ToSet(Q) : e[n] = d[n] PROVE Words(e, Q) = w
  <2>1. \A i \in DOMAIN Q : e[Q[i]] = d[Q[i]] BY <1>8 DEF ToSet
  <2> QED BY <2>1 DEF Words, w
<1> QED BY <1>2, <1>3, <1>4, <1>5, <1>6, <1>7, <1>8 DEF w, len

Refines == MqAbstract!Next \/ UNCHANGED MqAbstract!vars

\* What a receiver looks at.
HeldBy(t) == IF pc[t] \in LookPc THEN mq.data[msg[t]] ELSE Null
Content == Words(mq.data, Queued)

\* What a sender has copied in, and whether it goes to the head.
Offered(t) == IF pc[t] \in LinkPc THEN mq.data[msg[t]] ELSE Null
Urgent(t) == pc[t] = "mq_link_urgent"
SameOffer(t) == Offered(t)' = Offered(t) /\ Urgent(t)' = Urgent(t)

LEMMA NoOffer ==
  ASSUME NEW t \in Thread, pc[t] \notin LinkPc, pc'[t] \notin LinkPc
  PROVE  SameOffer(t)
<1>1. Offered(t) = Null /\ Offered(t)' = Null BY DEF Offered
<1>2. Urgent(t) = FALSE /\ Urgent(t)' = FALSE BY DEF Urgent, LinkPc
<1> QED BY <1>1, <1>2 DEF SameOffer

LEMMA AbstractSteps ==
  ASSUME \A t \in Thread : HeldBy(t)' \in Msg \cup {Null}
  PROVE  LET Quiet == \A t \in Thread : HeldBy(t)' \in {HeldBy(t), Null}
             Steady == \A t \in Thread : SameOffer(t)
             Moves(t) == \A u \in Thread \ {t} : SameOffer(u)
         IN  /\ \A t \in Thread, m \in Msg, b \in BOOLEAN :
                  /\ Moves(t) /\ Offered(t) = Null /\ Urgent(t) = FALSE
                  /\ Offered(t)' = m /\ Urgent(t)' = b
                  /\ Content' = Content /\ Quiet
                  => Refines
             /\ \A t \in Thread :
                  /\ Moves(t) /\ Offered(t) \in Msg /\ Offered(t)' = Null /\ Urgent(t)' = FALSE
                  /\ Content' = IF Urgent(t) THEN <<Offered(t)>> \o Content ELSE Append(Content, Offered(t))
                  /\ Len(Content) < MqMax /\ Quiet
                  => Refines
             /\ \A m \in Msg : /\ Content' = Append(Content, m) /\ Len(Content) < MqMax
                               /\ Quiet /\ Steady
                               => Refines
             /\ \A t \in Thread : /\ Content # <<>> /\ Content' = Tail(Content)
                                  /\ HeldBy(t)' = Head(Content) /\ Steady
                                  /\ \A u \in Thread \ {t} : HeldBy(u)' \in {HeldBy(u), Null}
                                  => Refines
             /\ Content' = <<>> /\ Quiet /\ Steady => Refines
             /\ Content' = Content /\ Quiet /\ Steady => Refines
<1> DEFINE Quiet == \A t \in Thread : HeldBy(t)' \in {HeldBy(t), Null}
           Steady == \A t \in Thread : SameOffer(t)
           Moves(t) == \A u \in Thread \ {t} : SameOffer(u)
           held == [t \in Thread |-> IF pc[t] \in {"mq_copy_out", "mq_put_free"}
                                     THEN mq.data[msg[t]] ELSE Null]
           queue == [i \in DOMAIN Queued |-> mq.data[Queued[i]]]
           sending == [t \in Thread |->
             [message |-> IF pc[t] \in {"mq_link", "mq_link_urgent"} THEN mq.data[msg[t]] ELSE Null,
              urgent |-> pc[t] = "mq_link_urgent"]]
           Rec(t) == [message |-> Offered(t), urgent |-> Urgent(t)]
           none == [message |-> Null, urgent |-> FALSE]
<1>1. held = [t \in Thread |-> HeldBy(t)] /\ queue = Content BY DEF HeldBy, LookPc, Content, Words
<1>2. held' = [t \in Thread |-> HeldBy(t)'] /\ queue' = Content' BY DEF HeldBy, LookPc, Content, Words
<1>a. sending = [t \in Thread |-> Rec(t)] BY DEF Offered, Urgent, LinkPc
<1>b. sending' = [t \in Thread |-> Rec(t)'] BY DEF Offered, Urgent, LinkPc
<1> HIDE DEF held, queue, sending
<1>3. held' \in [Thread -> Msg \cup {Null}] /\ \A t \in Thread : held[t] = HeldBy(t) /\ held'[t] = HeldBy(t)'
  BY <1>1, <1>2
<1>4. ASSUME NEW S \in SUBSET Thread, \A t \in S : HeldBy(t)' \in {HeldBy(t), Null}
      PROVE  MqAbstract!Others(S)
  BY <1>3, <1>4 DEF MqAbstract!Others, MqAbstract!KeepOrDrop, held
<1>c. ASSUME Steady PROVE sending' = sending
  <2>1. \A t \in Thread : Rec(t)' = Rec(t) BY <1>c DEF SameOffer
  <2> HIDE DEF Rec
  <2> QED BY <1>a, <1>b, <2>1
<1>d. ASSUME NEW t \in Thread, Moves(t) PROVE sending' = [sending EXCEPT ![t] = Rec(t)']
  <2>1. \A u \in Thread \ {t} : Rec(u)' = Rec(u) BY <1>d DEF SameOffer
  <2> HIDE DEF Rec
  <2> QED BY <1>a, <1>b, <2>1
<1>e. \A t \in Thread : sending[t] = Rec(t) BY <1>a
<1>f. none = MqAbstract!NotSending BY DEF MqAbstract!NotSending
<1>g. Null \notin Msg BY MqAssumption
<1>5. ASSUME NEW t \in Thread, NEW m \in Msg, NEW b \in BOOLEAN, Moves(t),
             Offered(t) = Null, Urgent(t) = FALSE, Offered(t)' = m, Urgent(t)' = b,
             Content' = Content, Quiet
      PROVE  Refines
  <2>1. Rec(t) = none /\ Rec(t)' = [message |-> m, urgent |-> b] BY <1>5
  <2>2. sending' = [sending EXCEPT ![t] = Rec(t)'] BY <1>d, <1>5
  <2>3. sending[t] = none BY <1>e, <2>1
  <2>4. MqAbstract!Offer(t, m, b)
    BY <1>1, <1>2, <1>4, <1>5, <1>f, <2>1, <2>2, <2>3 DEF MqAbstract!Offer, queue, sending
  <2> QED BY <2>4 DEF Refines, MqAbstract!Next
<1>6. ASSUME NEW t \in Thread, Moves(t), Offered(t) \in Msg, Offered(t)' = Null, Urgent(t)' = FALSE,
             Content' = IF Urgent(t) THEN <<Offered(t)>> \o Content ELSE Append(Content, Offered(t)),
             Len(Content) < MqMax, Quiet
      PROVE  Refines
  <2>1. Rec(t)' = none /\ Rec(t).message = Offered(t) /\ Rec(t).urgent = Urgent(t) BY <1>6
  <2>2. sending' = [sending EXCEPT ![t] = Rec(t)'] BY <1>d, <1>6
  <2>3. Rec(t) # none BY <1>6, <1>g
  <2>4. sending[t] = Rec(t) BY <1>e
  <2> HIDE DEF Rec
  <2>5. /\ sending[t] # none /\ sending[t].message = Offered(t) /\ sending[t].urgent = Urgent(t)
        /\ sending' = [sending EXCEPT ![t] = none]
    BY <2>1, <2>2, <2>3, <2>4
  <2>6. MqAbstract!Put(t)
    BY <1>1, <1>2, <1>4, <1>6, <1>f, <2>5 DEF MqAbstract!Put, queue, sending
  <2> QED BY <2>6 DEF Refines, MqAbstract!Next
<1>7. ASSUME NEW m \in Msg, Content' = Append(Content, m), Len(Content) < MqMax, Quiet, Steady
      PROVE  Refines
  <2>1. MqAbstract!PutAtOnce(m)
    BY <1>1, <1>2, <1>4, <1>c, <1>7 DEF MqAbstract!PutAtOnce, queue, sending
  <2> QED BY <2>1 DEF Refines, MqAbstract!Next
<1>8. ASSUME NEW t \in Thread, Content # <<>>, Content' = Tail(Content), HeldBy(t)' = Head(Content),
             Steady, \A u \in Thread \ {t} : HeldBy(u)' \in {HeldBy(u), Null}
      PROVE  Refines
  <2>1. MqAbstract!Others(Thread \ {t}) BY <1>4, <1>8
  <2>2. MqAbstract!Get(t)
    BY <1>1, <1>2, <1>3, <1>c, <1>8, <2>1 DEF MqAbstract!Get, queue, held, sending
  <2> QED BY <2>2 DEF Refines, MqAbstract!Next
<1>9. ASSUME Content' = <<>>, Quiet, Steady PROVE Refines
  <2>1. MqAbstract!Clear BY <1>2, <1>4, <1>c, <1>9 DEF MqAbstract!Clear, queue, sending
  <2> QED BY <2>1 DEF Refines, MqAbstract!Next
<1>10. ASSUME Content' = Content, Quiet, Steady PROVE Refines
  <2>1. MqAbstract!Done BY <1>1, <1>2, <1>4, <1>c, <1>10 DEF MqAbstract!Done, queue, sending
  <2> QED BY <2>1 DEF Refines, MqAbstract!Next
<1> QED BY <1>5, <1>6, <1>7, <1>8, <1>9, <1>10

-----------------------------------------------------------------------------
(* What each call does to the nodes, and to the queue of messages.         *)

LEMMA PoolFacts ==
  ASSUME Pool
  PROVE  /\ Owned(mq, msg, Queued, Free) /\ Split(mq, Queued, Free) /\ Loose(mq, Queued, Free)
         /\ Hands /\ pc \in [Thread -> Label] /\ msg \in [Thread -> Node \cup {Null}]
         /\ Queued \in Seq(Node) /\ ToSet(Queued) \subseteq Node /\ mq.entry = Len(Queued)
         /\ mq \in QueueState
         /\ \A t \in Thread : HeldBy(t) \in Msg \cup {Null}
<1>1. Owned(mq, msg, Queued, Free) /\ Hands BY DEF Pool
<1>2. Split(mq, Queued, Free) /\ Loose(mq, Queued, Free) /\ mq.entry = Len(Queued)
  BY <1>1 DEF Owned, Split
<1>3. Queued \in Seq(Node) /\ ToSet(Queued) \subseteq Node /\ mq \in QueueState
  BY <1>2, LooseFacts DEF Loose
<1>4. \A t \in Thread : HeldBy(t) \in Msg \cup {Null} BY <1>1 DEF Hands, HeldBy, LookPc, FilledPc
<1> QED BY <1>1, <1>2, <1>3, <1>4 DEF Pool

LEMMA PoolNext ==
  ASSUME NEW R, NEW G, Owned(mq', msg', R, G), Hands',
         pc' \in [Thread -> Label], msg' \in [Thread -> Node \cup {Null}]
  PROVE  Pool' /\ Queued' = R /\ Free' = G
<1>1. Loose(mq', R, G) BY DEF Owned, Split
<1>2. Chain(mq', mq'.head) = R /\ Chain(mq', mq'.free) = G BY <1>1, SplitChains
<1>3. Queued' = R /\ Free' = G BY <1>2 DEF Queued, Free, Chain
<1> QED BY <1>3 DEF Pool, Owned, Split, Loose, Follows, Untouched

\* Nodes outside S are left alone, and with them all hands but those of T.
LEMMA HandsNext ==
  ASSUME Pool, NEW S, Untouched(mq, mq', S), NEW T \in SUBSET Thread,
         \A u \in Thread \ T : /\ msg'[u] = msg[u] /\ (msg[u] # Null => msg[u] \notin S)
                               /\ pc'[u] = pc[u] \/ {pc[u], pc'[u]} \cap HandPc = {},
         \A u \in T : /\ msg'[u] # Null <=> pc'[u] \in HandPc
                      /\ pc'[u] \in FilledPc => mq'.data[msg'[u]] \in Msg
                      /\ pc'[u] = "mq_link" => mq'.next[msg'[u]] = Null
  PROVE  /\ Hands' /\ \A u \in Thread \ T : HeldBy(u)' = HeldBy(u) /\ SameOffer(u)
         /\ \A u \in Thread : HeldBy(u)' \in Msg \cup {Null}
<1>1. /\ FilledPc \subseteq HandPc /\ LookPc \subseteq FilledPc /\ LinkPc \subseteq FilledPc
      /\ "mq_link" \in LinkPc /\ "mq_link_urgent" \in LinkPc
  BY DEF FilledPc, HandPc, LinkPc
<1>2. /\ \A u \in Thread : /\ msg[u] # Null <=> pc[u] \in HandPc
                           /\ pc[u] \in FilledPc => mq.data[msg[u]] \in Msg
                           /\ pc[u] = "mq_link" => mq.next[msg[u]] = Null
      /\ \A u \in Thread : msg[u] \in Node \cup {Null}
  BY PoolFacts DEF Hands
<1>3. ASSUME NEW u \in Thread \ T
      PROVE  /\ msg'[u] # Null <=> pc'[u] \in HandPc
             /\ pc'[u] \in FilledPc => mq'.data[msg'[u]] \in Msg
             /\ pc'[u] = "mq_link" => mq'.next[msg'[u]] = Null
             /\ HeldBy(u)' = HeldBy(u) /\ SameOffer(u)
  <2>1. msg[u] # Null => mq'.data[msg[u]] = mq.data[msg[u]] /\ mq'.next[msg[u]] = mq.next[msg[u]]
    BY <1>2 DEF Untouched
  <2>2. CASE pc'[u] = pc[u]
    <3>1. SameOffer(u)
      <4>1. Offered(u)' = Offered(u) BY <1>1, <1>2, <2>1, <2>2 DEF Offered
      <4>2. Urgent(u)' = Urgent(u) BY <2>2 DEF Urgent
      <4> QED BY <4>1, <4>2 DEF SameOffer
    <3> QED BY <1>1, <1>2, <2>1, <2>2, <3>1 DEF HeldBy
  <2>3. CASE pc[u] \notin HandPc /\ pc'[u] \notin HandPc
    <3>1. SameOffer(u) BY <1>1, <2>3, NoOffer
    <3> QED BY <1>1, <1>2, <2>3, <3>1 DEF HeldBy
  <2> QED BY <2>2, <2>3
<1>4. Hands' BY <1>3 DEF Hands
<1>5. \A u \in Thread : HeldBy(u)' \in Msg \cup {Null} BY <1>1, <1>4 DEF Hands, HeldBy
<1> QED BY <1>3, <1>4, <1>5

\* The same for a step of thread t.
LEMMA HandsOne ==
  ASSUME Pool, NEW S, Untouched(mq, mq', S), NEW t \in Thread,
         \A u \in Thread \ {t} : /\ msg'[u] = msg[u] /\ pc'[u] = pc[u]
                                 /\ msg[u] # Null => msg[u] \notin S,
         msg'[t] # Null <=> pc'[t] \in HandPc,
         pc'[t] \in FilledPc => mq'.data[msg'[t]] \in Msg,
         pc'[t] = "mq_link" => mq'.next[msg'[t]] = Null
  PROVE  /\ Hands' /\ \A u \in Thread \ {t} : HeldBy(u)' = HeldBy(u) /\ SameOffer(u)
         /\ \A u \in Thread : HeldBy(u)' \in Msg \cup {Null}
<1> DEFINE T == {t}
<1>1. /\ T \in SUBSET Thread
      /\ \A u \in Thread \ T : /\ msg'[u] = msg[u] /\ (msg[u] # Null => msg[u] \notin S)
                               /\ pc'[u] = pc[u] \/ {pc[u], pc'[u]} \cap HandPc = {}
      /\ \A u \in T : /\ msg'[u] # Null <=> pc'[u] \in HandPc
                      /\ pc'[u] \in FilledPc => mq'.data[msg'[u]] \in Msg
                      /\ pc'[u] = "mq_link" => mq'.next[msg'[u]] = Null
      /\ T = {t}
  OBVIOUS
<1> HIDE DEF T
<1> QED BY <1>1, HandsNext

LEMMA SameContent ==
  ASSUME Pool, Queued' = Queued, \A n \in ToSet(Queued) : mq'.data[n] = mq.data[n]
  PROVE  Content' = Content
  BY WordsAre, PoolFacts DEF Content

\* The queue is not touched, and calls move only outside the copies.
LEMMA NodesKept ==
  ASSUME Pool, UNCHANGED <<mq, msg>>, pc' \in [Thread -> Label],
         \A u \in Thread : pc'[u] = pc[u] \/ {pc[u], pc'[u]} \cap HandPc = {}
  PROVE  Pool' /\ Refines
<1> DEFINE T == {}
           S == {}
<1>1. /\ T \in SUBSET Thread /\ Untouched(mq, mq', S)
      /\ \A u \in Thread \ T : /\ msg'[u] = msg[u] /\ (msg[u] # Null => msg[u] \notin S)
                               /\ pc'[u] = pc[u] \/ {pc[u], pc'[u]} \cap HandPc = {}
      /\ \A u \in T : /\ msg'[u] # Null <=> pc'[u] \in HandPc
                      /\ pc'[u] \in FilledPc => mq'.data[msg'[u]] \in Msg
                      /\ pc'[u] = "mq_link" => mq'.next[msg'[u]] = Null
  BY DEF Untouched
<1>2. T = {} OBVIOUS
<1> HIDE DEF T, S
<1>3. /\ Hands' /\ \A u \in Thread : HeldBy(u)' = HeldBy(u) /\ SameOffer(u)
      /\ \A u \in Thread : HeldBy(u)' \in Msg \cup {Null}
  BY <1>1, <1>2, HandsNext
<1>4. Owned(mq', msg', Queued, Free) BY PoolFacts
<1>5. Pool' /\ Queued' = Queued BY <1>3, <1>4, PoolFacts, PoolNext
<1>6. Content' = Content BY <1>5, SameContent
<1> QED BY <1>3, <1>5, <1>6, AbstractSteps

LEMMA MqSendNodes ==
  ASSUME Pool, NEW t \in Thread, NEW urgent \in BOOLEAN, MqSend(t, urgent)
  PROVE  Pool' /\ Refines /\ mq'.entry = mq.entry
<1> USE DEF MqSend, Calls, Running
<1> DEFINE n == mq.free
           l == IF urgent THEN "mq_copy_urgent" ELSE "mq_copy"
<1>1. /\ Loose(mq', Queued, Tail(Free)) /\ n \in Node /\ n \in ToSet(Free)
      /\ ToSet(Tail(Free)) = ToSet(Free) \ {n}
      /\ mq'.entry = mq.entry /\ mq'.data = mq.data /\ mq'.next = mq.next
  <2>1. mq.free # Null /\ mq' = TakeFree(mq) OBVIOUS
  <2>2. Loose(mq, Queued, Free) BY PoolFacts
  <2> DEFINE r == TakeFree(mq)
  <2>3. /\ Loose(r, Queued, Tail(Free)) /\ mq.free \in Node /\ mq.free \in ToSet(Free)
        /\ ToSet(Tail(Free)) = ToSet(Free) \ {mq.free}
        /\ r.entry = mq.entry /\ r.data = mq.data /\ r.next = mq.next
    BY <2>1, <2>2, TakeFreeOK
  <2> HIDE DEF r, MqSend
  <2> QED BY <2>1, <2>3 DEF r
<1>2. /\ pc[t] = "run" /\ pc' \in [Thread -> Label] /\ pc'[t] = l
      /\ \A u \in Thread \ {t} : pc'[u] = pc[u]
  BY PoolFacts DEF Goto, Label, MqLabel
<1>3. /\ msg' = [msg EXCEPT ![t] = n] /\ msg' \in [Thread -> Node \cup {Null}] /\ msg'[t] = n
      /\ \A u \in Thread \ {t} : msg'[u] = msg[u]
  BY <1>1, PoolFacts DEF Takes
<1>4. l \in HandPc /\ l \notin FilledPc /\ pc[t] \notin HandPc BY <1>2 DEF HandPc, FilledPc, LookPc
<1> HIDE DEF n, l, MqSend
<1>5. msg[t] = Null BY <1>4, PoolFacts DEF Hands
<1>6. Split(mq', Queued, Tail(Free)) BY <1>1, PoolFacts DEF Split
<1>7. Owned(mq', msg', Queued, Tail(Free))
  <2>1. ToSet(Queued) \cup ToSet(Tail(Free)) = (ToSet(Queued) \cup ToSet(Free)) \ {n}
    BY <1>1, PoolFacts DEF Loose
  <2>2. Owned(mq, msg, Queued, Free) /\ msg \in [Thread -> Node \cup {Null}] BY PoolFacts
  <2>3. n \in Node /\ n \in ToSet(Queued) \cup ToSet(Free) BY <1>1
  <2>4. Owned(mq', [msg EXCEPT ![t] = n], Queued, Tail(Free))
    BY <1>5, <1>6, <2>1, <2>2, <2>3, OwnedTake
  <2> QED BY <1>3, <2>4
<1>8. /\ Hands' /\ \A u \in Thread \ {t} : HeldBy(u)' = HeldBy(u) /\ SameOffer(u)
      /\ \A u \in Thread : HeldBy(u)' \in Msg \cup {Null}
  <2>1. Untouched(mq, mq', {}) BY <1>1 DEF Untouched
  <2> QED BY <1>1, <1>2, <1>3, <1>4, <2>1, NodeFacts, HandsOne DEF FilledPc
<1>9. Pool' /\ Queued' = Queued BY <1>2, <1>3, <1>7, <1>8, PoolNext
<1>10. Content' = Content BY <1>1, <1>9, SameContent
<1>11. HeldBy(t)' = Null BY <1>2, <1>4 DEF HeldBy, FilledPc
<1>12. SameOffer(t) BY <1>2, <1>4, NoOffer DEF FilledPc, HandPc, LinkPc
<1> QED BY <1>1, <1>8, <1>9, <1>10, <1>11, <1>12, AbstractSteps

\* A call is at another place, with the node it has in hand.
LEMMA SameHand ==
  ASSUME Pool, NEW t \in Thread, NEW l \in Label, Goto(t, l)
  PROVE  /\ pc' \in [Thread -> Label] /\ pc'[t] = l
         /\ \A u \in Thread \ {t} : pc'[u] = pc[u]
         /\ pc[t] \in HandPc => /\ msg[t] \in Node /\ msg[t] \notin ToSet(Queued) \cup ToSet(Free)
                                /\ \A u \in Thread \ {t} : msg[u] # msg[t]
<1>1. pc' \in [Thread -> Label] /\ pc'[t] = l /\ \A u \in Thread \ {t} : pc'[u] = pc[u]
  BY PoolFacts DEF Goto
<1>2. ASSUME pc[t] \in HandPc
      PROVE  /\ msg[t] \in Node /\ msg[t] \notin ToSet(Queued) \cup ToSet(Free)
             /\ \A u \in Thread \ {t} : msg[u] # msg[t]
  <2>1. msg[t] # Null BY <1>2, PoolFacts DEF Hands
  <2> QED BY <2>1, PoolFacts DEF Owned
<1> QED BY <1>1, <1>2

LEMMA MqCopyNodes ==
  ASSUME Pool, NEW t \in Thread, NEW m \in Msg, MqCopy(t, m)
  PROVE  Pool' /\ Refines /\ mq'.entry = mq.entry
<1> USE DEF MqCopy
<1> DEFINE n == msg[t]
           S == {n}
<1>1. msg' = msg OBVIOUS
<1>2. PICK l \in {"mq_link", "mq_link_urgent"} : Goto(t, l) /\ pc[t] \in {"mq_copy", "mq_copy_urgent"}
                                                /\ (l = "mq_link" <=> pc[t] = "mq_copy")
  BY DEF Running
<1>3. /\ pc' \in [Thread -> Label] /\ pc'[t] = l /\ \A u \in Thread \ {t} : pc'[u] = pc[u]
      /\ n \in Node /\ n \notin ToSet(Queued) \cup ToSet(Free)
      /\ \A u \in Thread \ {t} : msg[u] # n
  BY <1>2, SameHand DEF Label, MqLabel, HandPc
<1>4. /\ mq' \in QueueState /\ mq'.head = mq.head /\ mq'.tail = mq.tail /\ mq'.free = mq.free
      /\ mq'.entry = mq.entry /\ mq'.data = [mq.data EXCEPT ![n] = m]
      /\ mq'.next = (IF l = "mq_link" THEN [mq.next EXCEPT ![n] = Null] ELSE mq.next)
  <2>1. /\ mq \in QueueState /\ mq.data \in [Node -> Msg \cup {Null}]
        /\ mq.next \in [Node -> Node \cup {Null}]
    BY PoolFacts, LooseFacts
  <2>2. CASE l = "mq_link"
    <3>1. mq' = [mq EXCEPT !.data = [mq.data EXCEPT ![n] = m], !.next = [mq.next EXCEPT ![n] = Null]]
      BY <1>2, <2>1, <2>2 DEF Filled, QueueState, Running
    <3> QED BY <1>3, <2>1, <2>2, <3>1 DEF QueueState
  <2>3. CASE l # "mq_link"
    <3>1. mq' = [mq EXCEPT !.data = [mq.data EXCEPT ![n] = m]]
      BY <1>2, <2>1, <2>3 DEF Filled, QueueState, Running
    <3> QED BY <1>3, <2>1, <2>3, <3>1 DEF QueueState
  <2> QED BY <2>2, <2>3
<1> HIDE DEF MqCopy, n
<1>5. /\ \A x \in Node \ {n} : mq'.next[x] = mq.next[x] /\ mq'.data[x] = mq.data[x]
      /\ mq'.data[n] = m /\ (l = "mq_link" => mq'.next[n] = Null)
  BY <1>3, <1>4, PoolFacts, LooseFacts
<1>6. Loose(mq', Queued, Free)
  <2>1. Loose(mq, Queued, Free) BY PoolFacts
  <2>2. PICK q \in QueueState : q = mq' BY <1>4
  <2>4. q.head = mq.head /\ q.tail = mq.tail /\ q.free = mq.free BY <1>4, <2>2
  <2>5. n \notin ToSet(Queued) \cup ToSet(Free) BY <1>3
  <2>6. \A x \in Node \ {n} : q.next[x] = mq.next[x] /\ q.data[x] = mq.data[x] BY <1>5, <2>2
  <2>3. Loose(q, Queued, Free) BY <2>1, <2>4, <2>5, <2>6, WriteNode
  <2> QED BY <2>2, <2>3
<1>7. Owned(mq', msg', Queued, Free) BY <1>1, <1>4, <1>6, PoolFacts DEF Owned, Split
<1>8. l \in FilledPc /\ l \in HandPc /\ l \notin LookPc /\ pc[t] \notin LookPc
  BY <1>2 DEF FilledPc, HandPc, LookPc
<1>9. /\ Hands' /\ \A u \in Thread \ {t} : HeldBy(u)' = HeldBy(u) /\ SameOffer(u)
      /\ \A u \in Thread : HeldBy(u)' \in Msg \cup {Null}
  <2>1. Untouched(mq, mq', S) BY <1>5 DEF Untouched
  <2>2. \A u \in Thread \ {t} : msg'[u] = msg[u] /\ pc'[u] = pc[u] /\ (msg[u] # Null => msg[u] \notin S)
    BY <1>1, <1>3
  <2>3. msg'[t] = n /\ n # Null /\ mq'.data[n] \in Msg BY <1>1, <1>3, <1>5, NodeFacts DEF n
  <2> HIDE DEF S
  <2> QED BY <1>3, <1>5, <1>8, <2>1, <2>2, <2>3, HandsOne
<1>10. Pool' /\ Queued' = Queued BY <1>1, <1>3, <1>7, <1>9, PoolFacts, PoolNext
<1>11. Content' = Content
  <2>1. \A x \in ToSet(Queued) : mq'.data[x] = mq.data[x] BY <1>3, <1>5, PoolFacts
  <2> QED BY <1>10, <2>1, SameContent
<1>12. HeldBy(t)' = Null BY <1>3, <1>8 DEF HeldBy
<1>13. Offered(t) = Null /\ Offered(t)' = m
  BY <1>1, <1>2, <1>3, <1>5 DEF Offered, LinkPc, n
<1>14. PICK b \in BOOLEAN : Urgent(t)' = b BY DEF Urgent
<1>15. Urgent(t) = FALSE BY <1>2 DEF Urgent
<1> QED BY <1>4, <1>9, <1>10, <1>11, <1>12, <1>13, <1>14, <1>15, AbstractSteps

LEMMA MqLinkNodes ==
  ASSUME Pool, NEW t \in Thread, MqLink(t)
  PROVE  Pool' /\ Refines /\ mq'.entry = mq.entry + 1
<1> USE DEF MqLink
<1> DEFINE n == msg[t]
<1>1. PICK l \in {"run", "sched"} : Goto(t, l) OBVIOUS
<1>2. \/ pc[t] = "mq_link" /\ mq' = LinkTail(mq, n)
      \/ pc[t] = "mq_link_urgent" /\ mq' = LinkHead(mq, n)
  BY DEF Running
<1>3. /\ pc' \in [Thread -> Label] /\ pc'[t] = l /\ \A u \in Thread \ {t} : pc'[u] = pc[u]
      /\ n \in Node /\ n \notin ToSet(Queued) \cup ToSet(Free)
      /\ \A u \in Thread \ {t} : msg[u] # n
  BY <1>1, <1>2, SameHand DEF Label, MqLabel, HandPc, FilledPc
<1>4. /\ msg' = [msg EXCEPT ![t] = Null] /\ msg' \in [Thread -> Node \cup {Null}] /\ msg'[t] = Null
      /\ \A u \in Thread \ {t} : msg'[u] = msg[u]
  BY PoolFacts DEF Takes
<1>5. mq.data[n] \in Msg /\ (pc[t] = "mq_link" => mq.next[n] = Null)
  BY <1>2, PoolFacts DEF Hands, FilledPc
<1> DEFINE m == mq.data[n]
           R == IF pc[t] = "mq_link" THEN Append(Queued, n) ELSE <<n>> \o Queued
<1> HIDE DEF MqLink, n
<1>6. /\ Split(mq', R, Free) /\ ToSet(R) = ToSet(Queued) \cup {n} /\ mq'.entry = mq.entry + 1
      /\ mq'.data = mq.data /\ Len(Queued) < MqMax /\ Untouched(mq, mq', ToSet(Queued) \cup {n})
  <2>1. CASE pc[t] = "mq_link"
    <3>1. mq' = LinkTail(mq, n) /\ R = Append(Queued, n) BY <1>2, <2>1
    <3> HIDE DEF R
    <3>2. Split(mq, Queued, Free) /\ mq.next[n] = Null /\ mq.data[n] \in Msg
      BY <1>5, <2>1, PoolFacts
    <3>3. n \in Node /\ n \notin ToSet(Queued) \cup ToSet(Free) BY <1>3
    <3> DEFINE r == LinkTail(mq, n)
    <3>4. /\ Split(r, Append(Queued, n), Free) /\ ToSet(Append(Queued, n)) = ToSet(Queued) \cup {n}
          /\ r.entry = mq.entry + 1 /\ r.data = mq.data /\ Len(Queued) < MqMax
          /\ Untouched(mq, r, ToSet(Queued) \cup {n})
      BY <3>2, <3>3, LinkTailOK
    <3>5. mq' = r BY <3>1
    <3> HIDE DEF r
    <3> QED BY <3>1, <3>4, <3>5
  <2>2. CASE pc[t] # "mq_link"
    <3>1. mq' = LinkHead(mq, n) /\ R = <<n>> \o Queued BY <1>2, <2>2
    <3> HIDE DEF R
    <3>2. /\ Split(mq', R, Free) /\ ToSet(R) = ToSet(Queued) \cup {n} /\ mq'.entry = mq.entry + 1
          /\ mq'.data = mq.data /\ Len(Queued) < MqMax /\ Untouched(mq, mq', {n})
      <4>1. Split(mq, Queued, Free) /\ mq.data[n] \in Msg BY <1>5, PoolFacts
      <4>2. n \in Node /\ n \notin ToSet(Queued) \cup ToSet(Free) BY <1>3
      <4> DEFINE r == LinkHead(mq, n)
      <4>3. /\ Split(r, <<n>> \o Queued, Free) /\ ToSet(<<n>> \o Queued) = ToSet(Queued) \cup {n}
            /\ r.entry = mq.entry + 1 /\ r.data = mq.data /\ Len(Queued) < MqMax
            /\ Untouched(mq, r, {n})
        BY <4>1, <4>2, LinkHeadOK
      <4>4. mq' = r BY <3>1
      <4> HIDE DEF r
      <4> QED BY <3>1, <4>3, <4>4
    <3> QED BY <3>2 DEF Untouched
  <2> QED BY <2>1, <2>2
<1>7. Words(mq.data, R) = IF pc[t] = "mq_link" THEN Append(Content, m) ELSE <<m>> \o Content
  BY <1>3, WordsAre, PoolFacts DEF Content
<1> HIDE DEF R, m
<1>8. Owned(mq', msg', R, Free)
  <2>1. ToSet(R) \cup ToSet(Free) = (ToSet(Queued) \cup ToSet(Free)) \cup {msg[t]} BY <1>6 DEF n
  <2>2. Owned(mq, msg, Queued, Free) /\ msg \in [Thread -> Node \cup {Null}] BY PoolFacts
  <2>3. msg[t] # Null BY <1>3, NodeFacts DEF n
  <2>4. Owned(mq', [msg EXCEPT ![t] = Null], R, Free) BY <1>6, <2>1, <2>2, <2>3, OwnedGive
  <2> QED BY <1>4, <2>4
<1>9. l \notin HandPc /\ l \notin FilledPc /\ l \notin LookPc /\ l # "mq_link"
  BY DEF FilledPc, HandPc, LookPc
<1>10. /\ Hands' /\ \A u \in Thread \ {t} : HeldBy(u)' = HeldBy(u) /\ SameOffer(u)
       /\ \A u \in Thread : HeldBy(u)' \in Msg \cup {Null}
  <2>1. \A u \in Thread \ {t} : /\ msg'[u] = msg[u] /\ pc'[u] = pc[u]
                               /\ msg[u] # Null => msg[u] \notin ToSet(Queued) \cup {n}
    BY <1>3, <1>4, PoolFacts DEF Owned
  <2> QED BY <1>3, <1>4, <1>6, <1>9, <2>1, HandsOne
<1>11. Pool' /\ Queued' = R BY <1>3, <1>4, <1>8, <1>10, PoolNext
<1>12. Content' = Words(mq.data, R) BY <1>6, <1>11 DEF Content
<1>13. HeldBy(t)' = Null BY <1>3, <1>9 DEF HeldBy
<1>14. Len(Content) < MqMax BY <1>6, WordsAre, PoolFacts DEF Content
<1>15. m \in Msg BY <1>5 DEF m
<1>16. Refines
  <2>1. \A u \in Thread : HeldBy(u)' \in {HeldBy(u), Null} BY <1>10, <1>13
  <2>2. Offered(t) = m /\ Offered(t)' = Null /\ Urgent(t)' = FALSE
    BY <1>2, <1>3 DEF Offered, Urgent, LinkPc, m, n
  <2>3. Content' = IF Urgent(t) THEN <<Offered(t)>> \o Content ELSE Append(Content, Offered(t))
    BY <1>2, <1>7, <1>12, <2>2 DEF Urgent
  <2> QED BY <1>10, <1>14, <1>15, <2>1, <2>2, <2>3, AbstractSteps
<1> QED BY <1>6, <1>11, <1>16

LEMMA MqIsrSendNodes ==
  ASSUME Pool, NEW m \in Msg, MqIsrSend(m)
  PROVE  Pool' /\ Refines /\ mq'.entry = mq.entry + 1
<1> USE DEF MqIsrSend
<1> DEFINE n == mq.free
           G == Tail(Free)
           a == TakeFree(mq)
           b == [Filled(a, n, m) EXCEPT !.next[n] = Null]
<1>1. mq' = LinkTail(b, n) /\ msg' = msg /\ pc' = pc OBVIOUS
<1>0. mq.free # Null OBVIOUS
<1> HIDE DEF MqIsrSend
<1>2. /\ Loose(a, Queued, G) /\ n \in Node /\ n \in ToSet(Free) /\ ToSet(G) = ToSet(Free) \ {n}
      /\ a.entry = mq.entry /\ a.data = mq.data /\ a.next = mq.next
  <2>1. Loose(mq, Queued, Free) BY PoolFacts
  <2> HIDE DEF a, G
  <2> QED BY <1>0, <2>1, TakeFreeOK DEF a, G
<1> HIDE DEF a, n, G
<1>3. /\ a \in QueueState /\ a.data \in [Node -> Msg \cup {Null}] /\ a.next \in [Node -> Node \cup {Null}]
  BY <1>2, LooseFacts DEF Loose
<1>4. /\ b \in QueueState /\ b.head = a.head /\ b.tail = a.tail /\ b.free = a.free
      /\ b.entry = a.entry /\ b.data = [a.data EXCEPT ![n] = m] /\ b.next = [a.next EXCEPT ![n] = Null]
  <2>1. b = [a EXCEPT !.data = [a.data EXCEPT ![n] = m], !.next = [a.next EXCEPT ![n] = Null]]
    BY <1>3 DEF Filled, QueueState
  <2>2. [a.data EXCEPT ![n] = m] \in [Node -> Msg \cup {Null}] BY <1>2, <1>3
  <2>3. [a.next EXCEPT ![n] = Null] \in [Node -> Node \cup {Null}] BY <1>2, <1>3
  <2> DEFINE d == [a.data EXCEPT ![n] = m]
             e == [a.next EXCEPT ![n] = Null]
  <2> HIDE DEF b, d, e
  <2>4. b = [a EXCEPT !.data = d, !.next = e] BY <2>1 DEF d, e
  <2>5. d \in [Node -> Msg \cup {Null}] /\ e \in [Node -> Node \cup {Null}] BY <2>2, <2>3 DEF d, e
  <2>6. /\ b \in QueueState /\ b.head = a.head /\ b.tail = a.tail /\ b.free = a.free
        /\ b.entry = a.entry /\ b.data = d /\ b.next = e
    BY <1>3, <2>4, <2>5 DEF QueueState
  <2> QED BY <2>6 DEF d, e
<1> HIDE DEF b
<1>5. /\ \A x \in Node \ {n} : b.next[x] = a.next[x] /\ b.data[x] = a.data[x]
      /\ b.data[n] = m /\ b.next[n] = Null
  BY <1>2, <1>3, <1>4
<1>6. n \notin ToSet(Queued) \cup ToSet(G) BY <1>2, PoolFacts DEF Loose
<1>7. Split(b, Queued, G)
  <2>1. PICK q \in QueueState : q = b BY <1>4
  <2>2. q.head = a.head /\ q.tail = a.tail /\ q.free = a.free BY <1>4, <2>1
  <2>3. \A x \in Node \ {n} : q.next[x] = a.next[x] /\ q.data[x] = a.data[x] BY <1>5, <2>1
  <2>4. Loose(a, Queued, G) BY <1>2
  <2>5. Loose(q, Queued, G) BY <1>6, <2>2, <2>3, <2>4, WriteNode
  <2> QED BY <1>2, <1>4, <2>1, <2>5, PoolFacts DEF Split
<1>8. /\ Split(mq', Append(Queued, n), G) /\ ToSet(Append(Queued, n)) = ToSet(Queued) \cup {n}
      /\ mq'.entry = b.entry + 1 /\ mq'.data = b.data /\ Len(Queued) < MqMax
      /\ Untouched(b, mq', ToSet(Queued) \cup {n})
  <2> DEFINE r == LinkTail(b, n)
  <2>1. b.next[n] = Null /\ b.data[n] \in Msg BY <1>5
  <2>2. n \in Node BY <1>2
  <2>3. /\ Split(r, Append(Queued, n), G) /\ ToSet(Append(Queued, n)) = ToSet(Queued) \cup {n}
        /\ r.entry = b.entry + 1 /\ r.data = b.data /\ Len(Queued) < MqMax
        /\ Untouched(b, r, ToSet(Queued) \cup {n})
    BY <1>6, <1>7, <2>1, <2>2, LinkTailOK
  <2>4. mq' = r BY <1>1
  <2> HIDE DEF r
  <2> QED BY <2>3, <2>4
<1>9. Untouched(mq, mq', ToSet(Queued) \cup ToSet(Free))
  <2>1. \A x \in Node \ {n} : b.next[x] = mq.next[x] /\ b.data[x] = mq.data[x] BY <1>2, <1>5
  <2> QED BY <1>2, <1>8, <2>1 DEF Untouched
<1>10. Owned(mq', msg', Append(Queued, n), G)
  <2>1. ToSet(Append(Queued, n)) \cup ToSet(G) = ToSet(Queued) \cup ToSet(Free) BY <1>2, <1>8
  <2> QED BY <1>1, <1>8, <2>1, PoolFacts DEF Owned
<1>11. /\ Hands' /\ \A u \in Thread : HeldBy(u)' = HeldBy(u) /\ SameOffer(u)
       /\ \A u \in Thread : HeldBy(u)' \in Msg \cup {Null}
  <2> DEFINE T == {}
             S == ToSet(Queued) \cup ToSet(Free)
  <2>1. /\ T \in SUBSET Thread /\ Untouched(mq, mq', S)
        /\ \A u \in Thread \ T : /\ msg'[u] = msg[u] /\ (msg[u] # Null => msg[u] \notin S)
                                 /\ pc'[u] = pc[u] \/ {pc[u], pc'[u]} \cap HandPc = {}
        /\ \A u \in T : /\ msg'[u] # Null <=> pc'[u] \in HandPc
                        /\ pc'[u] \in FilledPc => mq'.data[msg'[u]] \in Msg
                        /\ pc'[u] = "mq_link" => mq'.next[msg'[u]] = Null
        /\ T = {}
    BY <1>1, <1>9, PoolFacts DEF Owned
  <2> HIDE DEF T, S
  <2> QED BY <2>1, HandsNext
<1>12. Pool' /\ Queued' = Append(Queued, n) BY <1>1, <1>10, <1>11, PoolFacts, PoolNext
<1>13. Content' = Append(Content, m)
  <2>1. Words(b.data, Append(Queued, n)) = Append(Words(b.data, Queued), m)
    BY <1>2, <1>5, WordsAre, PoolFacts
  <2>2. \A x \in ToSet(Queued) : b.data[x] = mq.data[x] BY <1>2, <1>5, <1>6, PoolFacts
  <2>3. Words(b.data, Queued) = Words(mq.data, Queued) BY <2>2, WordsAre, PoolFacts
  <2> QED BY <1>8, <1>12, <2>1, <2>3 DEF Content
<1>14. Len(Content) < MqMax BY <1>8, WordsAre, PoolFacts DEF Content
<1>15. mq'.entry = mq.entry + 1 BY <1>2, <1>4, <1>8
<1> QED BY <1>11, <1>12, <1>13, <1>14, <1>15, AbstractSteps

\* A receiver takes the first message.
LEMMA MqTakeNodes ==
  ASSUME Pool, NEW t \in Thread, pc[t] \notin HandPc, mq.entry > 0,
         Takes(t, mq.head), mq' = Unlinked(mq), Goto(t, "mq_copy_out")
  PROVE  Pool' /\ Refines /\ mq'.entry = mq.entry - 1
<1> DEFINE n == mq.head
           R == Tail(Queued)
<1>1. /\ Split(mq', R, Free) /\ n = Head(Queued) /\ Queued # <<>>
      /\ n \in Node /\ n \in ToSet(Queued) /\ n \notin ToSet(Free) /\ ToSet(R) = ToSet(Queued) \ {n}
      /\ mq'.entry = mq.entry - 1 /\ mq'.data = mq.data /\ mq'.next = mq.next
  <2> DEFINE r == Unlinked(mq)
  <2>1. Split(mq, Queued, Free) BY PoolFacts
  <2>2. /\ Split(r, Tail(Queued), Free) /\ mq.head = Head(Queued) /\ Queued # <<>>
        /\ mq.head \in Node /\ mq.head \in ToSet(Queued) /\ mq.head \notin ToSet(Free)
        /\ ToSet(Tail(Queued)) = ToSet(Queued) \ {mq.head}
        /\ r.entry = mq.entry - 1 /\ r.data = mq.data /\ r.next = mq.next
    BY <2>1, UnlinkedOK
  <2>3. mq' = r OBVIOUS
  <2> HIDE DEF r
  <2> QED BY <2>2, <2>3
<1>2. pc' \in [Thread -> Label] /\ pc'[t] = "mq_copy_out" /\ \A u \in Thread \ {t} : pc'[u] = pc[u]
  BY SameHand DEF Label, MqLabel
<1>3. /\ msg' = [msg EXCEPT ![t] = n] /\ msg' \in [Thread -> Node \cup {Null}] /\ msg'[t] = n
      /\ \A u \in Thread \ {t} : msg'[u] = msg[u]
  BY <1>1, PoolFacts DEF Takes
<1>4. msg[t] = Null BY PoolFacts DEF Hands
<1>5. mq.data[n] \in Msg BY <1>1, PoolFacts DEF Loose
<1> HIDE DEF n, R
<1>6. Owned(mq', msg', R, Free)
  <2>1. ToSet(R) \cup ToSet(Free) = (ToSet(Queued) \cup ToSet(Free)) \ {n} BY <1>1
  <2>2. Owned(mq, msg, Queued, Free) /\ msg \in [Thread -> Node \cup {Null}] BY PoolFacts
  <2>3. n \in Node /\ n \in ToSet(Queued) \cup ToSet(Free) BY <1>1
  <2>4. Split(mq', R, Free) BY <1>1
  <2>5. Owned(mq', [msg EXCEPT ![t] = n], R, Free) BY <1>4, <2>1, <2>2, <2>3, <2>4, OwnedTake
  <2> QED BY <1>3, <2>5
<1>7. "mq_copy_out" \in HandPc /\ "mq_copy_out" \in LookPc BY DEF HandPc, FilledPc, LookPc
<1>8. /\ Hands' /\ \A u \in Thread \ {t} : HeldBy(u)' = HeldBy(u) /\ SameOffer(u)
      /\ \A u \in Thread : HeldBy(u)' \in Msg \cup {Null}
  <2>1. Untouched(mq, mq', {}) BY <1>1 DEF Untouched
  <2>2. msg'[t] # Null /\ mq'.data[msg'[t]] \in Msg BY <1>1, <1>3, <1>5, NodeFacts
  <2> QED BY <1>2, <1>3, <1>7, <2>1, <2>2, HandsOne
<1>9. Pool' /\ Queued' = R BY <1>2, <1>3, <1>6, <1>8, PoolNext
<1>10. Content # <<>> /\ Content' = Tail(Content) /\ HeldBy(t)' = Head(Content)
  <2>1. /\ Words(mq.data, Tail(Queued)) = Tail(Words(mq.data, Queued))
        /\ Head(Words(mq.data, Queued)) = mq.data[Head(Queued)]
        /\ Words(mq.data, Queued) # <<>>
    BY <1>1, WordsAre, PoolFacts
  <2>2. HeldBy(t)' = mq.data[n] BY <1>1, <1>2, <1>3, <1>7 DEF HeldBy
  <2> QED BY <1>1, <1>9, <2>1, <2>2 DEF Content, R
<1>11. SameOffer(t)
  <2>1. pc[t] \notin LinkPc /\ "mq_copy_out" \notin LinkPc BY DEF LinkPc, HandPc, FilledPc
  <2> QED BY <1>2, <2>1, NoOffer
<1> QED BY <1>1, <1>8, <1>9, <1>10, <1>11, AbstractSteps

LEMMA MqCopyOutNodes ==
  ASSUME Pool, NEW t \in Thread, MqCopyOut(t)
  PROVE  Pool' /\ Refines /\ mq' = mq
<1> USE DEF MqCopyOut, mqvars
<1>1. /\ pc' \in [Thread -> Label] /\ pc'[t] = "mq_put_free" /\ pc[t] = "mq_copy_out"
      /\ \A u \in Thread \ {t} : pc'[u] = pc[u]
  BY SameHand DEF Label, MqLabel, Running
<1>2. /\ {"mq_copy_out", "mq_put_free"} \subseteq HandPc /\ "mq_copy_out" \in FilledPc
      /\ {"mq_copy_out", "mq_put_free"} \subseteq LookPc
  BY DEF HandPc, FilledPc, LookPc
<1>3. msg[t] # Null /\ mq.data[msg[t]] \in Msg BY <1>1, <1>2, PoolFacts DEF Hands
<1>4. Untouched(mq, mq', {}) BY DEF Untouched
<1>5. mq' = mq /\ msg' = msg OBVIOUS
<1> HIDE DEF MqCopyOut
<1>6. /\ Hands' /\ \A u \in Thread \ {t} : HeldBy(u)' = HeldBy(u) /\ SameOffer(u)
      /\ \A u \in Thread : HeldBy(u)' \in Msg \cup {Null}
  BY <1>1, <1>2, <1>3, <1>4, <1>5, HandsOne
<1>7. HeldBy(t)' = HeldBy(t) BY <1>1, <1>2, <1>5 DEF HeldBy
<1>8. Pool' /\ Queued' = Queued BY <1>1, <1>5, <1>6, PoolFacts, PoolNext
<1>9. Content' = Content BY <1>5, <1>8, SameContent
<1>10. SameOffer(t)
  <2>1. {"mq_copy_out", "mq_put_free"} \cap LinkPc = {} BY DEF LinkPc
  <2> QED BY <1>1, <2>1, NoOffer
<1> QED BY <1>5, <1>6, <1>7, <1>8, <1>9, <1>10, AbstractSteps

LEMMA MqPutFreeNodes ==
  ASSUME Pool, NEW t \in Thread, MqPutFree(t)
  PROVE  Pool' /\ Refines /\ mq'.entry = mq.entry
<1> USE DEF MqPutFree
<1> DEFINE n == msg[t]
           G == <<n>> \o Free
           S == {n}
<1>1. pc[t] = "mq_put_free" /\ mq' = PutFree(mq, n) BY DEF Running
<1>2. /\ pc' \in [Thread -> Label] /\ pc'[t] = "run" /\ \A u \in Thread \ {t} : pc'[u] = pc[u]
      /\ n \in Node /\ n \notin ToSet(Queued) \cup ToSet(Free)
      /\ \A u \in Thread \ {t} : msg[u] # n
  BY <1>1, SameHand DEF Label, HandPc, FilledPc, LookPc
<1>3. /\ msg' = [msg EXCEPT ![t] = Null] /\ msg' \in [Thread -> Node \cup {Null}] /\ msg'[t] = Null
      /\ \A u \in Thread \ {t} : msg'[u] = msg[u]
  BY PoolFacts DEF Takes
<1> HIDE DEF MqPutFree, n
<1>4. /\ Loose(mq', Queued, G) /\ ToSet(G) = ToSet(Free) \cup {n}
      /\ mq'.entry = mq.entry /\ Untouched(mq, mq', {n})
  <2> DEFINE r == PutFree(mq, n)
  <2>1. Loose(mq, Queued, Free) BY PoolFacts
  <2>2. n \in Node /\ n \notin ToSet(Queued) \cup ToSet(Free) BY <1>2
  <2>3. /\ Loose(r, Queued, <<n>> \o Free) /\ ToSet(<<n>> \o Free) = ToSet(Free) \cup {n}
        /\ r.entry = mq.entry /\ Untouched(mq, r, {n})
    BY <2>1, <2>2, PutFreeOK
  <2>4. mq' = r BY <1>1
  <2> HIDE DEF r
  <2> QED BY <2>3, <2>4
<1> HIDE DEF G
<1>5. Owned(mq', msg', Queued, G)
  <2>1. ToSet(Queued) \cup ToSet(G) = (ToSet(Queued) \cup ToSet(Free)) \cup {msg[t]} BY <1>4 DEF n
  <2>2. Owned(mq, msg, Queued, Free) /\ msg \in [Thread -> Node \cup {Null}] BY PoolFacts
  <2>3. msg[t] # Null BY <1>2, NodeFacts DEF n
  <2>4. Split(mq', Queued, G) BY <1>4, PoolFacts DEF Split
  <2>5. Owned(mq', [msg EXCEPT ![t] = Null], Queued, G) BY <2>1, <2>2, <2>3, <2>4, OwnedGive
  <2> QED BY <1>3, <2>5
<1>6. "run" \notin HandPc /\ "run" \notin FilledPc /\ "run" \notin LookPc
  BY DEF HandPc, FilledPc, LookPc
<1>7. /\ Hands' /\ \A u \in Thread \ {t} : HeldBy(u)' = HeldBy(u) /\ SameOffer(u)
      /\ \A u \in Thread : HeldBy(u)' \in Msg \cup {Null}
  <2>1. Untouched(mq, mq', S) BY <1>4
  <2>2. \A u \in Thread \ {t} : msg'[u] = msg[u] /\ pc'[u] = pc[u] /\ (msg[u] # Null => msg[u] \notin S)
    BY <1>2, <1>3
  <2> HIDE DEF S
  <2> QED BY <1>2, <1>3, <1>6, <2>1, <2>2, HandsOne
<1>8. Pool' /\ Queued' = Queued BY <1>2, <1>3, <1>5, <1>7, PoolNext
<1>9. Content' = Content
  <2>1. \A x \in ToSet(Queued) : mq'.data[x] = mq.data[x] BY <1>2, <1>4, PoolFacts DEF Untouched
  <2> QED BY <1>8, <2>1, SameContent
<1>10. HeldBy(t)' = Null BY <1>2, <1>6 DEF HeldBy
<1>11. SameOffer(t)
  <2>1. {"mq_put_free", "run"} \cap LinkPc = {} BY DEF LinkPc
  <2> QED BY <1>1, <1>2, <2>1, NoOffer
<1> QED BY <1>4, <1>7, <1>8, <1>9, <1>10, <1>11, AbstractSteps

\* The queue is emptied, or made anew when no call has a node in hand.
LEMMA MqClearNodes ==
  ASSUME Pool, UNCHANGED msg, pc' \in [Thread -> Label],
         \A u \in Thread : pc'[u] = pc[u] \/ {pc[u], pc'[u]} \cap HandPc = {},
         mq' = Emptied(mq) \/ (mq' = NewQueue /\ \A u \in Thread : msg[u] = Null)
  PROVE  Pool' /\ Refines /\ mq'.entry = 0
<1>1. PICK G : Split(mq', <<>>, G) /\ ToSet(G) = ToSet(Queued) \cup ToSet(Free)
  <2>1. CASE mq' = Emptied(mq)
    <3>1. Loose(mq, Queued, Free) BY PoolFacts
    <3> QED BY <2>1, <3>1, EmptiedOK
  <2>2. CASE mq' = NewQueue /\ \A u \in Thread : msg[u] = Null
    <3>1. PICK G : Split(mq', <<>>, G) /\ ToSet(G) = Node BY <2>2, NewQueueOK
    <3>2. ToSet(Queued) \cup ToSet(Free) = Node
      <4>1. ToSet(Queued) \subseteq Node /\ ToSet(Free) \subseteq Node BY PoolFacts, LooseFacts
      <4>2. \A n \in Node : n \in ToSet(Queued) \cup ToSet(Free)
        BY <2>2, PoolFacts, NodeFacts DEF Owned
      <4> QED BY <4>1, <4>2
    <3> QED BY <3>1, <3>2
  <2> QED BY <2>1, <2>2
<1>2. ToSet(<<>>) = {} BY DEF ToSet
<1>3. Owned(mq', msg', <<>>, G) BY <1>1, <1>2, PoolFacts DEF Owned
<1> DEFINE T == {}
           S == ToSet(Queued) \cup ToSet(Free)
<1>4. Untouched(mq, mq', S) \/ \A u \in Thread : msg[u] = Null
  <2>1. CASE mq' = Emptied(mq)
    <3>1. Loose(mq, Queued, Free) BY PoolFacts
    <3>2. Untouched(mq, mq', ToSet(Queued)) BY <2>1, <3>1, EmptiedOK
    <3> QED BY <3>2 DEF Untouched
  <2> QED BY <2>1
<1>5. /\ Hands' /\ \A u \in Thread : HeldBy(u)' = HeldBy(u) /\ SameOffer(u)
      /\ \A u \in Thread : HeldBy(u)' \in Msg \cup {Null}
  <2>1. CASE Untouched(mq, mq', S)
    <3>1. /\ T \in SUBSET Thread
          /\ \A u \in Thread \ T : /\ msg'[u] = msg[u] /\ (msg[u] # Null => msg[u] \notin S)
                                   /\ pc'[u] = pc[u] \/ {pc[u], pc'[u]} \cap HandPc = {}
          /\ \A u \in T : /\ msg'[u] # Null <=> pc'[u] \in HandPc
                          /\ pc'[u] \in FilledPc => mq'.data[msg'[u]] \in Msg
                          /\ pc'[u] = "mq_link" => mq'.next[msg'[u]] = Null
          /\ T = {}
      BY PoolFacts DEF Owned
    <3> HIDE DEF T, S
    <3> QED BY <2>1, <3>1, HandsNext
  <2>2. CASE \A u \in Thread : msg[u] = Null
    <3>1. \A u \in Thread : pc[u] \notin HandPc BY <2>2, PoolFacts DEF Hands
    <3>2. \A u \in Thread : pc'[u] \notin HandPc /\ msg'[u] = Null BY <2>2, <3>1
    <3>3. FilledPc \subseteq HandPc /\ LookPc \subseteq HandPc /\ "mq_link" \in HandPc
      BY DEF HandPc, FilledPc
    <3>4. Hands' BY <3>2, <3>3 DEF Hands
    <3>5. \A u \in Thread : HeldBy(u)' = Null /\ HeldBy(u) = Null BY <3>1, <3>2, <3>3 DEF HeldBy
    <3>6. \A u \in Thread : SameOffer(u)
      <4>1. LinkPc \subseteq HandPc BY DEF HandPc, FilledPc, LinkPc
      <4> QED BY <3>1, <3>2, <4>1, NoOffer
    <3> QED BY <3>4, <3>5, <3>6
  <2> QED BY <1>4, <2>1, <2>2
<1>6. Pool' /\ Queued' = <<>> BY <1>3, <1>5, PoolFacts, PoolNext
<1>7. Content' = <<>> BY <1>6 DEF Content, Words
<1>8. mq'.entry = 0
  <2>1. Len(<<>>) = 0 OBVIOUS
  <2> QED BY <1>1, <2>1 DEF Split
<1> QED BY <1>5, <1>6, <1>7, <1>8, AbstractSteps

-----------------------------------------------------------------------------
(* The queue and the event together.                                       *)

RecvPc == {"mq_recv_sched", "mq_recv_back"}
WaitPc == {"ev_sched", "ev_back"}
MqClosePc == {"mq_close", "mq_resume", "mq_free"}
EvClosePc == {"ev_close", "ev_resume", "ev_free"}

\* A thread that goes on is ready, but for one on its way into rt_schedule.
Runner ==
  k.cur \in Thread /\ (pc[k.cur] \in {"mq_recv_sched", "ev_sched"} \/ k.stat[k.cur] = "READY")

\* Who is suspended is in a call that sleeps, with a code that only those who
\* wake it change.
Waits ==
  /\ \A t \in Thread :
       /\ k.stat[t] = "SUSPEND" => t \in On(k, MqList) \cup On(k, EvList)
       /\ t \in On(k, MqList) => pc[t] \in RecvPc /\ k.err[t] = "EOK"
       /\ t \in On(k, EvList) => pc[t] \in WaitPc /\ k.err[t] = "EOK"
  /\ pc[Idle] \notin RecvPc \cup WaitPc

\* One thread at a time deletes the queue, when no call has a node in hand
\* and no receiver has been woken; nobody waits for what is gone.
MqClosing ==
  /\ mqalive # "alive" => MqWoken = {} /\ \A t \in Thread : msg[t] = Null
  /\ mqalive = "gone" => On(k, MqList) = {}
  /\ \A t \in Thread : pc[t] \in MqClosePc =>
       /\ mqalive = "dying"
       /\ \A u \in Thread : pc[u] \in MqClosePc => u = t
       /\ pc[t] = "mq_free" => On(k, MqList) = {}

EvClosing ==
  /\ evalive = "gone" => On(k, EvList) = {}
  /\ \A t \in Thread : pc[t] \in EvClosePc =>
       /\ evalive = "dying"
       /\ \A u \in Thread : pc[u] \in EvClosePc => u = t
       /\ pc[t] = "ev_free" => On(k, EvList) = {}

MessInv ==
  /\ TypeOK /\ Settled(k)
  /\ Runner /\ (isr = "timer" => k.timers # <<>>)
  /\ Waits
  /\ Pool /\ MqNoStrandedReceiver /\ MqClosing
  /\ NoSatisfiedWaiter /\ EvClosing

\* The steps ClearedOnce allows.
Once ==
  \A t, u \in WokenNow :
    event_info[t].clear =>
      /\ event_set'[t] \cap set' = {}
      /\ t # u /\ event_info[u].clear => event_set'[t] \cap event_set'[u] = {}

\* What a step has to keep of either object.
MqKeeps == Pool' /\ MqNoStrandedReceiver' /\ MqClosing' /\ Refines /\ mqalive' \in {"alive", "dying", "gone"}
EvKeeps == NoSatisfiedWaiter' /\ EvClosing' /\ Once /\ EvTypeOK'
Goes == MessInv' /\ Refines /\ Once

LEMMA MessFacts ==
  ASSUME MessInv
  PROVE  /\ Settled(k) /\ Waits /\ Pool /\ k.err \in [Thread -> Error]
         /\ pc \in [Thread -> Label] /\ mq.entry \in Nat
         /\ timeout \in [Thread -> Timeout] /\ isr \in {"none", "timer"}
         /\ mqalive \in {"alive", "dying", "gone"} /\ EvTypeOK
         /\ MqList \in WaitList /\ EvList \in WaitList /\ MqList # EvList
         /\ \A w \in {MqList, EvList} :
              /\ k.list[w] = <<>> <=> On(k, w) = {}
              /\ On(k, w) \subseteq Thread
              /\ \A t \in On(k, w) : k.stat[t] = "SUSPEND" /\ OnlyOn(k, t, w)
         /\ MqWoken \in SUBSET Thread
<1>1. MqList \in WaitList /\ EvList \in WaitList /\ MqList # EvList
  BY MqAssumption, EvAssumption, MessagingAssumption
<1>2. Settled(k) BY DEF MessInv
<1>3. k.err \in [Thread -> Error] BY <1>2, SettledFields
<1>4. \A w \in {MqList, EvList} :
        /\ k.list[w] = <<>> <=> On(k, w) = {}
        /\ On(k, w) \subseteq Thread
        /\ \A t \in On(k, w) : k.stat[t] = "SUSPEND" /\ OnlyOn(k, t, w)
  BY <1>1, <1>2, SettledFields
<1>5. mq.entry \in Nat
  <2>1. Queued \in Seq(Node) /\ mq.entry = Len(Queued) BY PoolFacts DEF MessInv
  <2> QED BY <2>1
<1>6. MqWoken \in SUBSET Thread BY DEF MqWoken
<1>7. pc \in [Thread -> Label] BY PoolFacts DEF MessInv
<1> QED BY <1>1, <1>2, <1>3, <1>4, <1>5, <1>6, <1>7 DEF MessInv, TypeOK, IpcTypeOK, MqTypeOK

LEMMA Together ==
  ASSUME Settled(k'), isr' \in {"none", "timer"}, isr' = "timer" => k'.timers # <<>>,
         timeout' \in [Thread -> Timeout], Runner', Waits', MqKeeps, EvKeeps
  PROVE  Goes
<1>1. k' \in KernelState BY DEF Settled, Resting, KernelOK
<1>2. pc' \in [Thread -> Label] /\ msg' \in [Thread -> Node \cup {Null}] BY DEF MqKeeps, Pool
<1>3. mq' \in QueueState BY DEF MqKeeps, Pool, Owned, Split, Loose
<1>4. TypeOK' BY <1>1, <1>2, <1>3 DEF TypeOK, IpcTypeOK, MqTypeOK, QueueState, Label, MqKeeps, EvKeeps
<1> QED BY <1>4 DEF MessInv, MqKeeps, EvKeeps, Goes

LEMMA MoveTo ==
  ASSUME MessInv, NEW t \in Thread, NEW l \in Label, Goto(t, l)
  PROVE  pc' \in [Thread -> Label] /\ \A u \in Thread : pc'[u] = IF u = t THEN l ELSE pc[u]
  BY MessFacts DEF Goto

\* A thread that runs is ready, and one that slept is not the idle thread.
LEMMA OnProcessor ==
  ASSUME MessInv, NEW t \in Thread, NEW l, Running(t, l), l \notin {"mq_recv_sched", "ev_sched"}
  PROVE  /\ isr = "none" /\ k.cur = t /\ pc[t] = l /\ k.stat[t] = "READY"
         /\ t \notin On(k, MqList) /\ t \notin On(k, EvList)
         /\ l \in RecvPc \cup WaitPc => t # Idle
  BY MessFacts DEF Running, MessInv, Runner, Waits

\* Who was woken, thread by thread; nobody who sleeps.
LEMMA WokenAre ==
  /\ \A t : t \in MqWoken <=> t \in Thread /\ pc[t] \in RecvPc
                              /\ t \notin On(k, MqList) /\ k.err[t] = "EOK"
  /\ \A t : t \in MqWoken' <=> t \in Thread /\ pc'[t] \in RecvPc
                               /\ t \notin On(k', MqList) /\ k'.err[t] = "EOK"
  BY DEF MqWoken, On, RecvPc

LEMMA AsleepNotWoken ==
  ASSUME MessInv, NEW t \in Thread, k.stat[t] = "SUSPEND"
  PROVE  t \notin MqWoken
  BY WokenAre, MessFacts DEF Waits, RecvPc, WaitPc

-----------------------------------------------------------------------------
(* Threads that are made ready, or return, leave the lists.                *)

LEMMA StillWait ==
  ASSUME MessInv, NEW M \in SUBSET Thread, Settled(k'), Same(k, k', M),
         \A u \in M : k'.stat[u] = "READY",
         \A u \in Thread : k'.stat[u] = "SUSPEND" =>
           /\ pc[u] \in RecvPc => pc'[u] \in RecvPc
           /\ pc[u] \in WaitPc => pc'[u] \in WaitPc,
         pc'[Idle] \notin RecvPc \cup WaitPc
  PROVE  /\ Waits'
         /\ \A w \in {MqList, EvList} : On(k', w) = On(k, w) \ M
         /\ \A u \in M : OnNone(k', u)
<1>1. \A u \in M : OnNone(k', u) BY ReadyOnNone
<1>2. \A w \in {MqList, EvList} : On(k', w) \subseteq Thread /\ On(k, w) \subseteq Thread /\ w \in WaitList
  BY SettledFields, MessFacts
<1>3. \A w \in {MqList, EvList} : On(k', w) = On(k, w) \ M
  BY <1>1, <1>2 DEF Same, OnNone
<1>4. ASSUME NEW u \in Thread
      PROVE  /\ k'.stat[u] = "SUSPEND" => u \in On(k', MqList) \cup On(k', EvList)
             /\ u \in On(k', MqList) => pc'[u] \in RecvPc /\ k'.err[u] = "EOK"
             /\ u \in On(k', EvList) => pc'[u] \in WaitPc /\ k'.err[u] = "EOK"
  <2>1. CASE u \in M BY <1>1, <1>2, <2>1 DEF OnNone
  <2>2. CASE u \notin M
    <3>1. /\ k'.stat[u] = k.stat[u] /\ k'.err[u] = k.err[u]
          /\ \A w \in {MqList, EvList} : u \in On(k', w) <=> u \in On(k, w)
      BY <1>3, <2>2 DEF Same
    <3>2. \A w \in {MqList, EvList} : u \in On(k, w) => k.stat[u] = "SUSPEND" BY MessFacts
    <3> QED BY <3>1, <3>2, MessFacts DEF Waits
  <2> QED BY <2>1, <2>2
<1> QED BY <1>1, <1>3, <1>4 DEF Waits

\* The number of messages against the receivers woken for them.
LEMMA Enough ==
  ASSUME MessInv
  PROVE  On(k, MqList) # {} => mq.entry <= Cardinality(MqWoken)
  BY MessFacts DEF MessInv, MqNoStrandedReceiver

LEMMA EnoughNext ==
  ASSUME Settled(k')
  PROVE  /\ MqWoken' \in SUBSET Thread
         /\ (On(k', MqList) # {} => mq'.entry <= Cardinality(MqWoken')) => MqNoStrandedReceiver'
<1>1. k'.list[MqList] = <<>> <=> On(k', MqList) = {} BY SettledFields, MqAssumption
<1>2. MqWoken' \in SUBSET Thread BY WokenAre
<1> QED BY <1>1, <1>2 DEF MqNoStrandedReceiver

-----------------------------------------------------------------------------
(* Steps that leave one of the objects alone.                              *)

\* The queue: threads are made ready, but none is woken for a message, and
\* one that was woken goes on in its loop unless there is none.
LEMMA MqCalm ==
  ASSUME MessInv, NEW M \in SUBSET Thread, Settled(k'), Same(k, k', M), UNCHANGED mqvars,
         pc' \in [Thread -> Label],
         \A u \in Thread : /\ pc'[u] = pc[u] \/ {pc[u], pc'[u]} \cap HandPc = {}
                           /\ pc'[u] \in RecvPc => pc[u] \in RecvPc,
         \A u \in M : u \notin On(k', MqList) /\ (pc'[u] \in RecvPc => k'.err[u] # "EOK"),
         \/ \A u \in MqWoken : u \notin M /\ pc'[u] \in RecvPc
         \/ mq.entry = 0
  PROVE  /\ Pool' /\ Refines /\ MqNoStrandedReceiver'
         /\ On(k', MqList) \subseteq On(k, MqList) /\ MqWoken' \subseteq MqWoken
<1> USE DEF mqvars
<1>1. Pool' /\ Refines BY MessFacts, NodesKept
<1>2. On(k', MqList) \subseteq On(k, MqList)
  <2>1. On(k', MqList) \subseteq Thread BY SettledFields, MessFacts
  <2> QED BY <2>1, MessFacts DEF Same
<1>3. \A u \in Thread \ M : /\ u \in On(k', MqList) <=> u \in On(k, MqList)
                            /\ k'.err[u] = k.err[u]
  BY MessFacts DEF Same
<1>4. MqWoken' \subseteq MqWoken BY <1>3, WokenAre
<1>5. MqWoken \subseteq MqWoken' \/ mq.entry = 0 BY <1>3, WokenAre
<1>6. MqNoStrandedReceiver'
  <2>1. MqWoken' \in SUBSET Thread /\ MqWoken \in SUBSET Thread BY EnoughNext, MessFacts
  <2>2. Cardinality(MqWoken') \in Nat BY <2>1, IpcAssumption, FS_Subset, FS_CardinalityType
  <2>3. CASE mq.entry = 0 BY <2>2, <2>3, EnoughNext
  <2>4. CASE MqWoken \subseteq MqWoken'
    <3>1. MqWoken' = MqWoken BY <1>4, <2>4
    <3> QED BY <1>2, <3>1, Enough, EnoughNext
  <2> QED BY <1>5, <2>3, <2>4
<1> QED BY <1>1, <1>2, <1>4, <1>6

LEMMA MqAside ==
  ASSUME MessInv, NEW M \in SUBSET Thread, Settled(k'), Same(k, k', M), UNCHANGED mqvars,
         pc' \in [Thread -> Label],
         \A u \in Thread : /\ pc'[u] = pc[u] \/ {pc[u], pc'[u]} \cap HandPc = {}
                           /\ pc'[u] \in RecvPc => pc[u] \in RecvPc
                           /\ pc'[u] \in MqClosePc => pc'[u] = pc[u],
         \A u \in M : u \notin On(k', MqList) /\ (pc'[u] \in RecvPc => k'.err[u] # "EOK"),
         \/ \A u \in MqWoken : u \notin M /\ pc'[u] \in RecvPc
         \/ mq.entry = 0
  PROVE  MqKeeps
<1>1. /\ Pool' /\ Refines /\ MqNoStrandedReceiver'
      /\ On(k', MqList) \subseteq On(k, MqList) /\ MqWoken' \subseteq MqWoken
  BY MqCalm
<1>2. MqClosing'
  <2>1. MqClosing BY DEF MessInv
  <2>2. MqWoken = {} => MqWoken' = {} BY <1>1
  <2>3. On(k, MqList) = {} => On(k', MqList) = {} BY <1>1
  <2> QED BY <2>1, <2>2, <2>3 DEF MqClosing, mqvars
<1> QED BY <1>1, <1>2, MessFacts DEF MqKeeps, mqvars

\* The event: those who leave its list do so with an error.
LEMMA EvCalm ==
  ASSUME MessInv, NEW M \in SUBSET Thread, Settled(k'), Same(k, k', M), UNCHANGED set,
         \A u \in M : u \notin On(k', EvList) /\ (u \in On(k, EvList) => k'.err[u] # "EOK"),
         \A u \in On(k', EvList) : event_set'[u] = event_set[u] /\ event_info'[u] = event_info[u]
  PROVE  NoSatisfiedWaiter' /\ Once /\ On(k', EvList) \subseteq On(k, EvList)
<1>1. On(k', EvList) \subseteq Thread BY SettledFields, MessFacts
<1>2. \A u \in Thread \ M : u \in On(k', EvList) <=> u \in On(k, EvList) BY MessFacts DEF Same
<1>3. On(k', EvList) \subseteq On(k, EvList) BY <1>1, <1>2
<1>4. NoSatisfiedWaiter' BY <1>3 DEF MessInv, NoSatisfiedWaiter, Satisfies, On
<1>5. WokenNow = {} BY <1>2, MessFacts DEF WokenNow, On
<1>6. Once BY <1>5 DEF Once
<1> QED BY <1>3, <1>4, <1>6

LEMMA EvAside ==
  ASSUME MessInv, NEW M \in SUBSET Thread, Settled(k'), Same(k, k', M), UNCHANGED <<set, evalive>>,
         EvTypeOK',
         \A u \in Thread : pc'[u] \in EvClosePc => pc'[u] = pc[u],
         \A u \in M : u \notin On(k', EvList) /\ (u \in On(k, EvList) => k'.err[u] # "EOK"),
         \A u \in On(k', EvList) : event_set'[u] = event_set[u] /\ event_info'[u] = event_info[u]
  PROVE  EvKeeps
<1>1. NoSatisfiedWaiter' /\ Once /\ On(k', EvList) \subseteq On(k, EvList) BY EvCalm
<1>2. EvClosing'
  <2>1. EvClosing BY DEF MessInv
  <2>2. On(k, EvList) = {} => On(k', EvList) = {} BY <1>1
  <2> QED BY <2>1, <2>2 DEF EvClosing
<1> QED BY <1>1, <1>2 DEF EvKeeps

\* Steps that touch neither object: threads are failed, or none is moved.
LEMMA BothAside ==
  ASSUME MessInv, NEW M \in SUBSET Thread, Settled(k'), Same(k, k', M),
         \A u \in M : k.stat[u] = "SUSPEND" /\ k'.stat[u] = "READY" /\ k'.err[u] # "EOK",
         UNCHANGED <<mqvars, evvars>>, pc' \in [Thread -> Label],
         \A u \in Thread : /\ pc'[u] = pc[u] \/ {pc[u], pc'[u]} \cap HandPc = {}
                           /\ pc'[u] \in RecvPc <=> pc[u] \in RecvPc
                           /\ pc'[u] \in WaitPc <=> pc[u] \in WaitPc
                           /\ pc'[u] \in MqClosePc \cup EvClosePc => pc'[u] = pc[u]
  PROVE  Waits' /\ MqKeeps /\ EvKeeps
<1>1. MqList \in WaitList /\ EvList \in WaitList BY MessFacts
<1>2. Waits' /\ \A u \in M : OnNone(k', u)
  <2>1. pc'[Idle] \notin RecvPc \cup WaitPc BY ThreadAssumption, MessFacts DEF Waits
  <2> QED BY <2>1, StillWait
<1>3. \A u \in M : u \notin On(k', MqList) /\ u \notin On(k', EvList) BY <1>1, <1>2 DEF OnNone
<1>4. \A u \in MqWoken : u \notin M /\ pc'[u] \in RecvPc
  BY AsleepNotWoken, WokenAre
<1>5. MqKeeps BY <1>3, <1>4, MqAside
<1>6. EvTypeOK' BY MessFacts DEF evvars, EvTypeOK
<1>7. EvKeeps BY <1>3, <1>6, EvAside DEF evvars
<1> QED BY <1>2, <1>5, <1>7

-----------------------------------------------------------------------------
(* The scheduler, the tick and the timers.                                 *)

LEMMA ScheduleTo ==
  ASSUME MessInv, NEW t \in Thread, NEW from \in Label, NEW to \in Label,
         {from, to} \cap HandPc = {}, to \notin MqClosePc \cup EvClosePc,
         from \in RecvPc <=> to \in RecvPc, from \in WaitPc <=> to \in WaitPc,
         IpcSchedule(t, from, to), UNCHANGED <<mqvars, evvars>>
  PROVE  Goes
<1> USE DEF IpcSchedule, ScheduleStep, Running
<1>1. Settled(k') /\ Same(k, k', {}) /\ Serves(k') /\ k'.timers = k.timers
  BY MessFacts, ScheduleOK
<1>2. pc' \in [Thread -> Label] /\ \A u \in Thread : pc'[u] = IF u = t THEN to ELSE pc[u]
  BY MoveTo
<1>3. Waits' /\ MqKeeps /\ EvKeeps
  <2>1. \A u \in Thread : /\ pc'[u] = pc[u] \/ {pc[u], pc'[u]} \cap HandPc = {}
                          /\ pc'[u] \in RecvPc <=> pc[u] \in RecvPc
                          /\ pc'[u] \in WaitPc <=> pc[u] \in WaitPc
                          /\ pc'[u] \in MqClosePc \cup EvClosePc => pc'[u] = pc[u]
    BY <1>2
  <2> QED BY <1>1, <1>2, <2>1, BothAside
<1>4. Runner' BY <1>1 DEF Runner, Serves
<1>5. isr' = "none" /\ timeout' \in [Thread -> Timeout] BY MessFacts
<1> QED BY <1>1, <1>3, <1>4, <1>5, Together

LEMMA TickStep ==
  ASSUME MessInv, Tick
  PROVE  Goes
<1> USE DEF Tick, IpcTick, rt_tick_increase
<1>1. /\ Settled(k') /\ Same(k, k', {}) /\ (k'.cur = k.cur \/ Serves(k'))
  BY MessFacts, TickOK DEF MessInv, Runner
<1>2. Waits' /\ MqKeeps /\ EvKeeps BY <1>1, BothAside, MessFacts
<1>3. Runner' BY <1>1 DEF MessInv, Runner, Serves, Same
<1>4. isr' \in {"none", "timer"} /\ (isr' = "timer" => k'.timers # <<>>)
  BY DEF IsrAfter, TimerExpired
<1>5. timeout' \in [Thread -> Timeout]
  BY MessFacts, BoundAssumption DEF Elapsed, Timeout, Forever
<1> QED BY <1>1, <1>2, <1>3, <1>4, <1>5, Together

LEMMA TimerCheckStep ==
  ASSUME MessInv, TimerCheck
  PROVE  Goes
<1> USE DEF TimerCheck, IpcTimerCheck, rt_timer_check
<1> DEFINE h == Head(k.timers)
           M == {h}
<1>1. /\ h \in Thread /\ k.stat[h] = "SUSPEND"
      /\ Settled(k') /\ Same(k, k', {h}) /\ Serves(k')
      /\ k'.stat[h] = "READY" /\ k'.err[h] = "ETIMEOUT" /\ OnNone(k', h)
  BY MessFacts, FireOK DEF MessInv
<1> HIDE DEF h
<1>2. Waits' /\ MqKeeps /\ EvKeeps
  <2>1. /\ M \in SUBSET Thread /\ Same(k, k', M)
        /\ \A u \in M : k.stat[u] = "SUSPEND" /\ k'.stat[u] = "READY" /\ k'.err[u] # "EOK"
    BY <1>1
  <2> HIDE DEF M
  <2> QED BY <1>1, <2>1, BothAside, MessFacts
<1>3. Runner' BY <1>1 DEF Runner, Serves
<1>4. isr' \in {"none", "timer"} /\ (isr' = "timer" => k'.timers # <<>>)
  BY DEF IsrAfter, TimerExpired
<1>5. timeout' \in [Thread -> Timeout] BY MessFacts
<1> QED BY <1>1, <1>2, <1>3, <1>4, <1>5, Together

-----------------------------------------------------------------------------
(* Sending to the queue.                                                   *)

\* A call with a node in hand, or that takes one, finds the queue alive.
LEMMA HandAlive ==
  ASSUME MessInv, NEW t \in Thread, pc[t] \in HandPc
  PROVE  mqalive = "alive"
  BY MessFacts DEF MessInv, MqClosing, Pool, Hands

\* Nobody deletes what is alive.
LEMMA MqOpen ==
  ASSUME MessInv, mqalive = "alive", UNCHANGED mqalive,
         \A u \in Thread : pc'[u] \in MqClosePc => pc[u] \in MqClosePc
  PROVE  MqClosing'
<1>1. \A u \in Thread : pc[u] \notin MqClosePc BY DEF MessInv, MqClosing
<1> QED BY <1>1 DEF MqClosing

LEMMA EvOpen ==
  ASSUME MessInv, evalive = "alive", UNCHANGED evalive,
         \A u \in Thread : pc'[u] \in EvClosePc => pc[u] \in EvClosePc
  PROVE  EvClosing'
<1>1. \A u \in Thread : pc[u] \notin EvClosePc BY DEF MessInv, EvClosing
<1> QED BY <1>1 DEF EvClosing

\* A step in which no thread is moved and no message comes or goes.
LEMMA NodeStep ==
  ASSUME MessInv, NEW t \in Thread, NEW from \in {"run"} \cup HandPc, NEW l \in {"run"} \cup HandPc,
         Running(t, from), Goto(t, l), mqalive = "alive",
         UNCHANGED <<k, isr, timeout, mqalive, evvars>>,
         Pool', Refines, mq'.entry = mq.entry
  PROVE  Goes
<1>1. /\ {"run"} \cup HandPc \subseteq Label
      /\ ({"run"} \cup HandPc) \cap (RecvPc \cup WaitPc \cup MqClosePc \cup EvClosePc) = {}
      /\ from \notin {"mq_recv_sched", "ev_sched"}
  BY DEF Label, MqLabel, HandPc, FilledPc, LookPc, RecvPc, WaitPc, MqClosePc, EvClosePc
<1>2. isr = "none" /\ k.cur = t /\ pc[t] = from /\ k.stat[t] = "READY" BY <1>1, OnProcessor
<1>3. pc' \in [Thread -> Label] /\ \A u \in Thread : pc'[u] = IF u = t THEN l ELSE pc[u]
  BY <1>1, MoveTo
<1>4. Settled(k') /\ Same(k, k', {}) BY MessFacts DEF Same
<1>5. \A u \in Thread : /\ pc'[u] \in RecvPc <=> pc[u] \in RecvPc
                        /\ pc'[u] \in WaitPc <=> pc[u] \in WaitPc
                        /\ pc'[u] \in MqClosePc => pc[u] \in MqClosePc
                        /\ pc'[u] \in EvClosePc => pc'[u] = pc[u]
  BY <1>1, <1>2, <1>3
<1>6. Waits'
  <2>1. pc'[Idle] \notin RecvPc \cup WaitPc BY <1>5, ThreadAssumption, MessFacts DEF Waits
  <2> QED BY <1>4, <1>5, <2>1, StillWait
<1>7. MqKeeps
  <2>1. MqWoken' = MqWoken
    <3>1. \A u : u \in MqWoken' <=> u \in MqWoken BY <1>5, WokenAre
    <3> QED BY <3>1
  <2>2. MqNoStrandedReceiver' BY <2>1 DEF MessInv, MqNoStrandedReceiver
  <2>3. MqClosing' BY <1>5, MqOpen
  <2> QED BY <2>2, <2>3, MessFacts DEF MqKeeps
<1>8. EvKeeps
  <2>1. EvTypeOK' BY MessFacts DEF evvars, EvTypeOK
  <2> QED BY <1>4, <1>5, <2>1, EvAside DEF evvars
<1>9. Runner' BY <1>2 DEF Runner
<1> QED BY <1>2, <1>4, <1>6, <1>7, <1>8, <1>9, Together, MessFacts

LEMMA MqSendStep ==
  ASSUME MessInv, NEW t \in Thread, NEW urgent \in BOOLEAN, MqSend(t, urgent), UNCHANGED evvars
  PROVE  Goes
<1>1. Pool' /\ Refines /\ mq'.entry = mq.entry BY MqSendNodes, MessFacts
<1>2. {"mq_copy", "mq_copy_urgent"} \subseteq HandPc BY DEF HandPc
<1> QED BY <1>1, <1>2, NodeStep DEF MqSend, Calls

LEMMA MqCopyStep ==
  ASSUME MessInv, NEW t \in Thread, NEW m \in Msg, MqCopy(t, m), UNCHANGED evvars
  PROVE  Goes
<1>1. Pool' /\ Refines /\ mq'.entry = mq.entry BY MqCopyNodes, MessFacts
<1>2. {"mq_copy", "mq_copy_urgent", "mq_link", "mq_link_urgent"} \subseteq HandPc
  BY DEF HandPc, FilledPc
<1>3. mqalive = "alive" BY <1>2, HandAlive DEF MqCopy, Running
<1> QED BY <1>1, <1>2, <1>3, NodeStep DEF MqCopy

LEMMA MqCopyOutStep ==
  ASSUME MessInv, NEW t \in Thread, MqCopyOut(t), UNCHANGED evvars
  PROVE  Goes
<1>1. Pool' /\ Refines /\ mq' = mq BY MqCopyOutNodes, MessFacts
<1>2. {"mq_copy_out", "mq_put_free"} \subseteq HandPc BY DEF HandPc, FilledPc, LookPc
<1>3. mqalive = "alive" BY <1>2, HandAlive DEF MqCopyOut, Running
<1> QED BY <1>1, <1>2, <1>3, NodeStep DEF MqCopyOut, mqvars

LEMMA MqPutFreeStep ==
  ASSUME MessInv, NEW t \in Thread, MqPutFree(t), UNCHANGED evvars
  PROVE  Goes
<1>1. Pool' /\ Refines /\ mq'.entry = mq.entry BY MqPutFreeNodes, MessFacts
<1>2. "mq_put_free" \in HandPc BY DEF HandPc, FilledPc, LookPc
<1>3. mqalive = "alive" BY <1>2, HandAlive DEF MqPutFree, Running
<1> QED BY <1>1, <1>2, <1>3, NodeStep DEF MqPutFree

\* One more message: the first receiver is woken for it.
LEMMA AfterWake ==
  ASSUME MessInv, NEW M, M = Firsts(k, MqList), Settled(k'), Same(k, k', M),
         \A u \in M : k'.stat[u] = "READY" /\ k'.err[u] = k.err[u],
         Pool', Refines, mq'.entry = mq.entry + 1, mqalive = "alive", UNCHANGED <<mqalive, evvars>>,
         \A u \in Thread : /\ pc'[u] \in RecvPc <=> pc[u] \in RecvPc
                           /\ pc'[u] \in WaitPc <=> pc[u] \in WaitPc
                           /\ pc'[u] \in MqClosePc => pc[u] \in MqClosePc
                           /\ pc'[u] \in EvClosePc => pc'[u] = pc[u]
  PROVE  Waits' /\ MqKeeps /\ EvKeeps
<1>1. M \subseteq On(k, MqList) /\ (M = {} <=> On(k, MqList) = {}) /\ \E h : M \subseteq {h}
  BY FirstOK, MessFacts
<1>2. M \in SUBSET Thread BY <1>1, MessFacts
<1>3. /\ Waits' /\ On(k', MqList) = On(k, MqList) \ M /\ On(k', EvList) = On(k, EvList) \ M
  <2>1. pc'[Idle] \notin RecvPc \cup WaitPc BY ThreadAssumption, MessFacts DEF Waits
  <2> QED BY <1>2, <2>1, StillWait
<1>4. \A u \in M : u \in Thread /\ u \notin On(k, EvList) /\ pc[u] \in RecvPc /\ k.err[u] = "EOK"
  BY <1>1, <1>2, MessFacts DEF OnlyOn, Waits
<1>5. MqWoken' = MqWoken \cup M /\ M \cap MqWoken = {}
  <2>1. \A u \in M : u \in MqWoken' /\ u \notin MqWoken BY <1>1, <1>3, <1>4, WokenAre
  <2>2. \A u \in Thread \ M : u \in MqWoken' <=> u \in MqWoken BY <1>3, WokenAre DEF Same
  <2> QED BY <2>1, <2>2, WokenAre
<1>6. MqNoStrandedReceiver'
  <2>1. SUFFICES ASSUME On(k', MqList) # {} PROVE mq'.entry <= Cardinality(MqWoken') BY EnoughNext
  <2>2. PICK h : M = {h}
    <3>1. M # {} BY <1>1, <1>3, <2>1
    <3>2. PICK g : M \subseteq {g} BY <1>1
    <3> QED BY <3>1, <3>2
  <2>3. h \in Thread \ MqWoken /\ MqWoken' = MqWoken \cup {h} BY <1>4, <1>5, <2>2
  <2>4. mq.entry <= Cardinality(MqWoken) BY <1>3, <2>1, Enough
  <2>5. MqWoken \in SUBSET Thread /\ MqWoken' \in SUBSET Thread /\ mq.entry \in Nat
    BY MessFacts, EnoughNext
  <2> QED BY <2>3, <2>4, <2>5, IpcAssumption, WokenCount
<1>7. MqKeeps BY <1>6, MqOpen, MessFacts DEF MqKeeps
<1>8. EvKeeps
  <2>1. EvTypeOK' BY MessFacts DEF evvars, EvTypeOK
  <2>2. \A u \in M : u \notin On(k', EvList) /\ u \notin On(k, EvList) BY <1>3, <1>4
  <2> QED BY <1>2, <2>1, <2>2, EvAside DEF evvars
<1> QED BY <1>3, <1>7, <1>8

LEMMA MqLinkStep ==
  ASSUME MessInv, NEW t \in Thread, MqLink(t), UNCHANGED evvars
  PROVE  Goes
<1> DEFINE M == Firsts(k, MqList)
<1>1. Pool' /\ Refines /\ mq'.entry = mq.entry + 1 BY MqLinkNodes, MessFacts
<1> USE DEF MqLink, WakeReceiver
<1>2. PICK from \in {"mq_link", "mq_link_urgent"} : Running(t, from) OBVIOUS
<1>3. isr = "none" /\ k.cur = t /\ pc[t] = from /\ k.stat[t] = "READY" BY <1>2, OnProcessor
<1>4. PICK l \in {"run", "sched"} : Goto(t, l) OBVIOUS
<1>5. pc' \in [Thread -> Label] /\ \A u \in Thread : pc'[u] = IF u = t THEN l ELSE pc[u]
  BY <1>4, MoveTo DEF Label
<1>6. mqalive = "alive" BY <1>3, HandAlive DEF HandPc, FilledPc
<1>7. /\ M \subseteq On(k, MqList) /\ Settled(k') /\ Same(k, k', M)
      /\ k'.cur = k.cur /\ k'.err = k.err /\ \A u \in M : k'.stat[u] = "READY"
  BY FirstOK, MessFacts
<1>8. \A u \in Thread : /\ pc'[u] \in RecvPc <=> pc[u] \in RecvPc
                        /\ pc'[u] \in WaitPc <=> pc[u] \in WaitPc
                        /\ pc'[u] \in MqClosePc => pc[u] \in MqClosePc
                        /\ pc'[u] \in EvClosePc => pc'[u] = pc[u]
  BY <1>3, <1>5 DEF RecvPc, WaitPc, MqClosePc, EvClosePc
<1>9. UNCHANGED <<isr, timeout, mqalive, evvars>> OBVIOUS
<1> HIDE DEF M, MqLink
<1>10. Waits' /\ MqKeeps /\ EvKeeps
  <2>1. \A u \in M : k'.stat[u] = "READY" /\ k'.err[u] = k.err[u] BY <1>7
  <2>2. M = Firsts(k, MqList) BY DEF M
  <2> QED BY <1>1, <1>6, <1>7, <1>8, <1>9, <2>1, <2>2, AfterWake
<1>11. Runner'
  <2>1. t \notin M BY <1>3, <1>7, MessFacts
  <2> QED BY <1>3, <1>7, <2>1 DEF Runner, Same
<1> QED BY <1>3, <1>7, <1>9, <1>10, <1>11, Together, MessFacts

LEMMA MqIsrSendStep ==
  ASSUME MessInv, NEW m \in Msg, MqIsrSend(m), UNCHANGED evvars
  PROVE  Goes
<1> DEFINE M == Firsts(k, MqList)
<1>1. Pool' /\ Refines /\ mq'.entry = mq.entry + 1 BY MqIsrSendNodes, MessFacts
<1>2. /\ isr = "none" /\ mqalive = "alive" /\ UNCHANGED <<isr, pc, timeout, mqalive, evvars>>
      /\ k' = IF k.list[MqList] # <<>> THEN rt_schedule(ResumeFirst(k, MqList)) ELSE k
  BY DEF MqIsrSend, WakeReceiver
<1>3. /\ Settled(k') /\ Same(k, k', M) /\ (k' = k \/ Serves(k'))
      /\ \A u \in M : k'.stat[u] = "READY" /\ k'.err[u] = k.err[u]
  BY <1>2, FirstThenSchedule, MessFacts
<1>4. M = Firsts(k, MqList) OBVIOUS
<1> HIDE DEF M
<1>5. Waits' /\ MqKeeps /\ EvKeeps BY <1>1, <1>2, <1>3, <1>4, AfterWake
<1>6. Runner' BY <1>2, <1>3 DEF MessInv, Runner, Serves
<1> QED BY <1>2, <1>3, <1>5, <1>6, Together, MessFacts

-----------------------------------------------------------------------------
(* Receiving from the queue.                                               *)

\* A caller goes to sleep on w.
LEMMA AfterSleep ==
  ASSUME MessInv, NEW t \in Thread \ {Idle}, k.stat[t] = "READY",
         NEW w \in {MqList, EvList}, Settled(k'), Same(k, k', {t}),
         k'.stat[t] = "SUSPEND", k'.err[t] = "EOK", OnlyOn(k', t, w),
         \A u \in Thread \ {t} : pc'[u] = pc[u],
         pc'[t] \in IF w = MqList THEN RecvPc ELSE WaitPc
  PROVE  /\ Waits'
         /\ \A v \in {MqList, EvList} : On(k', v) = IF v = w THEN On(k, v) \cup {t} ELSE On(k, v)
<1>1. MqList \in WaitList /\ EvList \in WaitList /\ w \in WaitList /\ MqList # EvList BY MessFacts
<1>2. OnNone(k, t) BY ReadyOnNone, MessFacts
<1>3. \A v \in {MqList, EvList} : On(k', v) = IF v = w THEN On(k, v) \cup {t} ELSE On(k, v)
  <2> TAKE v \in {MqList, EvList}
  <2>1. v \in WaitList BY <1>1
  <2>2. t \notin On(k, v) /\ (t \in On(k', v) <=> v = w) BY <1>2, <2>1 DEF OnlyOn, OnNone
  <2>3. \A u \in Thread \ {t} : u \in On(k', v) <=> u \in On(k, v) BY <2>1 DEF Same
  <2>4. On(k', v) \subseteq Thread /\ On(k, v) \subseteq Thread BY <2>1, SettledFields, MessFacts
  <2> QED BY <2>2, <2>3, <2>4
<1>4. Waits' BY <1>1, <1>3, MessFacts, ThreadAssumption DEF Waits, Same
<1> QED BY <1>3, <1>4

\* A call returns: no thread moves.
LEMMA AfterReturn ==
  ASSUME MessInv, NEW t \in Thread, k.stat[t] = "READY", Return(t)
  PROVE  /\ Settled(k') /\ Same(k, k', {t}) /\ k'.stat = k.stat /\ k'.cur = k.cur
         /\ timeout' \in [Thread -> Timeout]
         /\ pc' \in [Thread -> Label] /\ \A u \in Thread : pc'[u] = IF u = t THEN "run" ELSE pc[u]
         /\ OnNone(k', t) /\ Waits'
         /\ On(k', MqList) = On(k, MqList) /\ On(k', EvList) = On(k, EvList)
<1>1. Settled(k) BY MessFacts
<1>2. /\ KernelOK(k') /\ Still(k, k') /\ Kept(k, k') /\ k'.list = k.list /\ k'.stat = k.stat
      /\ k'.err = [k.err EXCEPT ![t] = "EOK"]
  BY <1>1, SetError DEF Return, Settled, Resting, Error
<1>3. Same(k, k', {t}) BY <1>1, ErrorSame DEF Return, Settled, Resting, Error
<1>4. pc' \in [Thread -> Label] /\ \A u \in Thread : pc'[u] = IF u = t THEN "run" ELSE pc[u]
  BY MoveTo DEF Return, Label
<1>5. Settled(k')
  <2>1. ~Off(k', t) BY <1>1, <1>2 DEF Still, Settled, Resting
  <2> QED BY <1>1, <1>2, <1>3, <2>1, OneReady DEF Kept, Settled, Resting
<1>6. \A w : On(k', w) = On(k, w) BY <1>2 DEF On
<1>7. OnNone(k', t) BY <1>2, <1>5, ReadyOnNone
<1>8. Waits'
  <2> DEFINE M == {t}
  <2>1. M \in SUBSET Thread /\ Same(k, k', M) /\ \A u \in M : k'.stat[u] = "READY" BY <1>2, <1>3
  <2>2. \A u \in Thread : k'.stat[u] = "SUSPEND" => pc'[u] = pc[u] BY <1>2, <1>4
  <2>3. pc'[Idle] \notin RecvPc \cup WaitPc
    BY <1>4, ThreadAssumption, MessFacts DEF Waits, RecvPc, WaitPc
  <2> HIDE DEF M
  <2> QED BY <1>5, <2>1, <2>2, <2>3, StillWait
<1>9. timeout' \in [Thread -> Timeout]
  BY MessFacts, BoundAssumption DEF Return, WaitsFor, Timeout
<1> QED BY <1>2, <1>3, <1>4, <1>5, <1>6, <1>7, <1>8, <1>9 DEF Kept

\* rt_mq_recv returns an error: nothing was there, or the caller was failed.
LEMMA MqReturnStep ==
  ASSUME MessInv, NEW t \in Thread, isr = "none", k.cur = t, k.stat[t] = "READY",
         pc[t] \in {"run", "mq_recv_back"}, mq.entry = 0 \/ t \notin MqWoken,
         Return(t), UNCHANGED <<isr, mqvars, evvars>>
  PROVE  Goes
<1> DEFINE M == {t}
<1>1. /\ Settled(k') /\ Same(k, k', M) /\ k'.stat = k.stat /\ k'.cur = k.cur
      /\ timeout' \in [Thread -> Timeout]
      /\ pc' \in [Thread -> Label] /\ \A u \in Thread : pc'[u] = IF u = t THEN "run" ELSE pc[u]
      /\ OnNone(k', t) /\ Waits'
      /\ On(k', MqList) = On(k, MqList) /\ On(k', EvList) = On(k, EvList)
  BY AfterReturn
<1>2. t \notin On(k', MqList) /\ t \notin On(k', EvList) BY <1>1, MessFacts DEF OnNone
<1>3. M \in SUBSET Thread OBVIOUS
<1>4. /\ \A u \in M : u = t
      /\ \A u \in MqWoken : u # t => u \notin M
  OBVIOUS
<1> HIDE DEF M
<1>5. MqKeeps
  <2>1. \A u \in Thread : /\ pc'[u] = pc[u] \/ {pc[u], pc'[u]} \cap HandPc = {}
                          /\ pc'[u] \in RecvPc => pc[u] \in RecvPc
                          /\ pc'[u] \in MqClosePc => pc'[u] = pc[u]
    BY <1>1 DEF HandPc, FilledPc, LookPc, RecvPc, MqClosePc
  <2>2. \A u \in M : u \notin On(k', MqList) /\ (pc'[u] \in RecvPc => k'.err[u] # "EOK")
    BY <1>1, <1>2, <1>4 DEF RecvPc
  <2>3. \/ \A u \in MqWoken : u \notin M /\ pc'[u] \in RecvPc
        \/ mq.entry = 0
    BY <1>1, <1>4, WokenAre
  <2> QED BY <1>1, <1>3, <2>1, <2>2, <2>3, MqAside
<1>6. EvKeeps
  <2>1. EvTypeOK' BY MessFacts DEF evvars, EvTypeOK
  <2>2. \A u \in Thread : pc'[u] \in EvClosePc => pc'[u] = pc[u] BY <1>1 DEF EvClosePc
  <2>3. \A u \in M : u \notin On(k', EvList) /\ u \notin On(k, EvList) BY <1>1, <1>2, <1>4
  <2> QED BY <1>1, <1>3, <2>1, <2>2, <2>3, EvAside DEF evvars
<1>7. Runner' BY <1>1 DEF Runner
<1> QED BY <1>1, <1>5, <1>6, <1>7, Together

\* It takes the first message.
LEMMA MqTakeStep ==
  ASSUME MessInv, NEW t \in Thread, isr = "none", k.cur = t, k.stat[t] = "READY", mqalive = "alive",
         pc[t] \in {"run", "mq_recv_back"}, mq.entry > 0, Takes(t, mq.head), mq' = Unlinked(mq),
         Goto(t, "mq_copy_out"), WaitsFor(t, 0), UNCHANGED <<k, isr, mqalive, evvars>>
  PROVE  Goes
<1>1. pc[t] \notin HandPc BY DEF HandPc, FilledPc, LookPc
<1>2. Pool' /\ Refines /\ mq'.entry = mq.entry - 1 BY <1>1, MqTakeNodes, MessFacts
<1>3. pc' \in [Thread -> Label] /\ \A u \in Thread : pc'[u] = IF u = t THEN "mq_copy_out" ELSE pc[u]
  BY MoveTo DEF Label, MqLabel
<1>4. timeout' \in [Thread -> Timeout] BY MessFacts, BoundAssumption DEF WaitsFor, Timeout
<1>5. Settled(k') /\ Same(k, k', {}) BY MessFacts DEF Same
<1>6. Waits'
  <2>1. \A u \in Thread : k'.stat[u] = "SUSPEND" => pc'[u] = pc[u] BY <1>3
  <2>2. pc'[Idle] \notin RecvPc \cup WaitPc
    BY <1>3, ThreadAssumption, MessFacts DEF Waits, RecvPc, WaitPc
  <2> QED BY <1>5, <2>1, <2>2, StillWait
<1>7. MqKeeps
  <2>1. \A u \in Thread \ {t} : u \in MqWoken' <=> u \in MqWoken BY <1>3, WokenAre
  <2>2. MqWoken \ {t} \subseteq MqWoken' /\ MqWoken' \subseteq Thread /\ MqWoken \subseteq Thread
    BY <2>1, WokenAre
  <2>3. On(k, MqList) # {} => mq'.entry <= Cardinality(MqWoken')
    <3>1. SUFFICES ASSUME On(k, MqList) # {} PROVE mq.entry - 1 <= Cardinality(MqWoken') BY <1>2
    <3>2. mq.entry <= Cardinality(MqWoken) BY <3>1, Enough
    <3>3. MqWoken \in SUBSET Thread /\ MqWoken' \in SUBSET Thread /\ mq.entry \in Nat
      BY <2>2, MessFacts
    <3> QED BY <2>2, <3>2, <3>3, IpcAssumption, WokenCount
  <2>4. MqNoStrandedReceiver' BY <1>5, <2>3, EnoughNext
  <2>5. MqClosing' BY <1>3, MqOpen DEF MqClosePc
  <2> QED BY <1>2, <2>4, <2>5, MessFacts DEF MqKeeps
<1>8. EvKeeps
  <2>1. EvTypeOK' BY MessFacts DEF evvars, EvTypeOK
  <2>2. \A u \in Thread : pc'[u] \in EvClosePc => pc'[u] = pc[u] BY <1>3 DEF EvClosePc
  <2> QED BY <1>5, <2>1, <2>2, EvAside DEF evvars
<1>9. Runner' BY DEF Runner
<1> QED BY <1>4, <1>5, <1>6, <1>7, <1>8, <1>9, Together, MessFacts

\* It goes to sleep.
LEMMA MqSleepStep ==
  ASSUME MessInv, NEW t \in Thread, t # Idle, isr = "none", k.cur = t, k.stat[t] = "READY",
         mqalive = "alive", pc[t] \in {"run", "mq_recv_back"}, mq.entry = 0, NEW time \in Timeout,
         k' = BlockOn(k, MqList, t, MqFlag, time), Goto(t, "mq_recv_sched"), WaitsFor(t, time),
         UNCHANGED <<isr, mqvars, evvars>>
  PROVE  Goes
<1>1. pc' \in [Thread -> Label] /\ \A u \in Thread : pc'[u] = IF u = t THEN "mq_recv_sched" ELSE pc[u]
  BY MoveTo DEF Label, MqLabel
<1>2. timeout' \in [Thread -> Timeout] BY MessFacts DEF WaitsFor
<1>3. /\ Settled(k') /\ Same(k, k', {t}) /\ k'.cur = k.cur
      /\ k'.stat[t] = "SUSPEND" /\ k'.err[t] = "EOK" /\ OnlyOn(k', t, MqList)
  <2>1. t \in Thread \ {Idle} /\ MqList \in WaitList /\ Settled(k) BY MessFacts
  <2> QED BY <2>1, BlockOK
<1>4. /\ Waits'
      /\ On(k', EvList) = On(k, EvList) /\ On(k', MqList) = On(k, MqList) \cup {t}
  <2>1. \A u \in Thread \ {t} : pc'[u] = pc[u] BY <1>1
  <2>2. pc'[t] \in RecvPc BY <1>1 DEF RecvPc
  <2>3. t \in Thread \ {Idle} /\ MqList # EvList BY MessFacts
  <2> QED BY <1>3, <2>1, <2>2, <2>3, AfterSleep
<1>5. MqKeeps
  <2>1. \A u \in Thread : pc'[u] = pc[u] \/ {pc[u], pc'[u]} \cap HandPc = {}
    BY <1>1 DEF HandPc, FilledPc, LookPc
  <2>2. Pool' /\ Refines BY <1>1, <2>1, NodesKept, MessFacts DEF mqvars
  <2>3. MqNoStrandedReceiver'
    <3>1. MqWoken' \in SUBSET Thread BY <1>3, EnoughNext
    <3>2. mq'.entry = 0 /\ Cardinality(MqWoken') \in Nat
      BY <3>1, IpcAssumption, FS_Subset, FS_CardinalityType DEF mqvars
    <3> QED BY <1>3, <3>2, EnoughNext
  <2>4. MqClosing' BY <1>1, MqOpen DEF MqClosePc, mqvars
  <2> QED BY <2>2, <2>3, <2>4, MessFacts DEF MqKeeps, mqvars
<1>6. EvKeeps
  <2> DEFINE M == {t}
  <2>1. EvTypeOK' BY MessFacts DEF evvars, EvTypeOK
  <2>2. \A u \in Thread : pc'[u] \in EvClosePc => pc'[u] = pc[u] BY <1>1 DEF EvClosePc
  <2>3. t \notin On(k', EvList) BY <1>3, MessFacts DEF OnlyOn
  <2>4. \A u \in M : u \notin On(k', EvList) /\ u \notin On(k, EvList) BY <1>4, <2>3
  <2>5. M \in SUBSET Thread /\ Same(k, k', M) BY <1>3
  <2> HIDE DEF M
  <2> QED BY <1>3, <2>1, <2>2, <2>4, <2>5, EvAside DEF evvars
<1>7. Runner' BY <1>1, <1>3 DEF Runner
<1> QED BY <1>2, <1>3, <1>4, <1>5, <1>6, <1>7, Together

LEMMA RecvBodyStep ==
  ASSUME MessInv, NEW t \in Thread, isr = "none", k.cur = t, k.stat[t] = "READY", mqalive = "alive",
         pc[t] \in {"run", "mq_recv_back"}, NEW time \in Timeout, time # 0 => t # Idle,
         RecvBody(t, time), UNCHANGED <<isr, mqalive, evvars>>
  PROVE  Goes
<1>1. CASE mq.entry > 0
  <2>1. /\ Takes(t, mq.head) /\ mq' = Unlinked(mq) /\ Goto(t, "mq_copy_out") /\ WaitsFor(t, 0)
        /\ UNCHANGED k
    BY <1>1 DEF RecvBody
  <2> QED BY <1>1, <2>1, MqTakeStep
<1>2. CASE ~(mq.entry > 0)
  <2>1. mq.entry = 0 BY <1>2, MessFacts
  <2>2. CASE time = 0
    <3>1. Return(t) /\ UNCHANGED <<mq, msg>> BY <1>2, <2>2 DEF RecvBody
    <3> QED BY <2>1, <3>1, MqReturnStep DEF mqvars
  <2>3. CASE time # 0
    <3>1. /\ k' = BlockOn(k, MqList, t, MqFlag, time) /\ Goto(t, "mq_recv_sched")
          /\ WaitsFor(t, time) /\ UNCHANGED <<mq, msg>>
      BY <1>2, <2>3 DEF RecvBody
    <3> QED BY <2>1, <2>3, <3>1, MqSleepStep DEF mqvars
  <2> QED BY <2>2, <2>3
<1> QED BY <1>1, <1>2

LEMMA MqRecvStep ==
  ASSUME MessInv, NEW t \in Thread, NEW time \in Timeout, MqRecv(t, time), UNCHANGED evvars
  PROVE  Goes
<1> USE DEF MqRecv
<1>1. isr = "none" /\ k.cur = t /\ pc[t] = "run" /\ k.stat[t] = "READY" BY OnProcessor DEF Calls
<1>2. time # 0 => t # Idle BY MqAssumption DEF Calls
<1> QED BY <1>1, <1>2, RecvBodyStep

LEMMA MqRecvBackStep ==
  ASSUME MessInv, NEW t \in Thread, MqRecvBack(t), UNCHANGED evvars
  PROVE  Goes
<1> USE DEF MqRecvBack
<1>1. /\ isr = "none" /\ k.cur = t /\ pc[t] = "mq_recv_back" /\ k.stat[t] = "READY" /\ t # Idle
      /\ t \notin On(k, MqList)
  BY OnProcessor DEF RecvPc
<1>2. CASE k.err[t] = "EOK"
  <2>1. timeout[t] \in Timeout BY MessFacts
  <2>2. mqalive = "alive"
    <3>1. t \in MqWoken BY <1>1, <1>2, WokenAre DEF RecvPc
    <3> QED BY <3>1 DEF MessInv, MqClosing
  <2> QED BY <1>1, <1>2, <2>1, <2>2, RecvBodyStep
<1>3. CASE k.err[t] # "EOK"
  <2>1. t \notin MqWoken BY <1>3, WokenAre
  <2>2. Return(t) /\ UNCHANGED <<isr, mqvars>> BY <1>3 DEF mqvars
  <2> QED BY <1>1, <2>1, <2>2, MqReturnStep
<1> QED BY <1>2, <1>3

-----------------------------------------------------------------------------
(* Reset, deletion and creation of the queue.                              *)

LEMMA MqResetStep ==
  ASSUME MessInv, NEW t \in Thread, MqReset(t), UNCHANGED evvars
  PROVE  Goes
<1> DEFINE M == On(k, MqList)
<1> USE DEF MqReset
<1>1. isr = "none" /\ k.cur = t /\ pc[t] = "run" /\ k.stat[t] = "READY" /\ t \notin M
  BY OnProcessor DEF Calls
<1>2. Cleared(k, k', MqList) BY ResumeAllOK, MessFacts
<1>3. /\ Settled(k') /\ Same(k, k', M) /\ k'.cur = k.cur /\ On(k', MqList) = {}
      /\ \A u \in M : k'.stat[u] = "READY" /\ k'.err[u] = "ERROR" /\ OnNone(k', u)
  BY <1>2 DEF Cleared
<1>4. M \in SUBSET Thread /\ \A u \in M : u \notin On(k, EvList) BY MessFacts DEF OnlyOn
<1>5. pc' \in [Thread -> Label] /\ \A u \in Thread : pc'[u] = IF u = t THEN "sched" ELSE pc[u]
  BY MoveTo DEF Label
<1>6. /\ mqalive = "alive" /\ mq' = Emptied(mq) /\ UNCHANGED <<isr, timeout, mqalive, msg, evvars>>
  OBVIOUS
<1> HIDE DEF M, MqReset
<1>7. \A u \in Thread : /\ pc'[u] = pc[u] \/ {pc[u], pc'[u]} \cap HandPc = {}
                        /\ pc'[u] \in RecvPc <=> pc[u] \in RecvPc
                        /\ pc'[u] \in WaitPc <=> pc[u] \in WaitPc
                        /\ pc'[u] \in MqClosePc => pc[u] \in MqClosePc
                        /\ pc'[u] \in EvClosePc => pc'[u] = pc[u]
  BY <1>1, <1>5 DEF HandPc, FilledPc, LookPc, RecvPc, WaitPc, MqClosePc, EvClosePc
<1>8. Waits'
  <2>1. pc'[Idle] \notin RecvPc \cup WaitPc BY <1>7, ThreadAssumption, MessFacts DEF Waits
  <2> QED BY <1>3, <1>4, <1>7, <2>1, StillWait
<1>9. MqKeeps
  <2>1. Pool' /\ Refines BY <1>5, <1>6, <1>7, MqClearNodes, MessFacts
  <2>2. MqNoStrandedReceiver' BY <1>3, EnoughNext
  <2>3. MqClosing' BY <1>6, <1>7, MqOpen
  <2> QED BY <1>6, <2>1, <2>2, <2>3 DEF MqKeeps
<1>10. EvKeeps
  <2>1. EvTypeOK' BY <1>6, MessFacts DEF evvars, EvTypeOK
  <2>2. \A u \in M : u \notin On(k', EvList) /\ u \notin On(k, EvList) BY <1>3, <1>4, MessFacts DEF OnNone
  <2>3. /\ UNCHANGED <<set, evalive>>
        /\ \A u \in On(k', EvList) : event_set'[u] = event_set[u] /\ event_info'[u] = event_info[u]
    BY <1>6 DEF evvars
  <2> QED BY <1>3, <1>4, <1>7, <2>1, <2>2, <2>3, EvAside
<1>11. Runner' BY <1>1, <1>3 DEF Runner, Same
<1> QED BY <1>1, <1>3, <1>6, <1>8, <1>9, <1>10, <1>11, Together, MessFacts

\* A step of a deletion moves the deleting thread, and may fail one waiter.
LEMMA CloseMoves ==
  ASSUME MessInv, NEW t \in Thread, NEW l \in MqClosePc \cup EvClosePc \cup {"run"}, Goto(t, l),
         NEW M \in SUBSET Thread, Settled(k'), Same(k, k', M), k'.cur = t,
         isr = "none", k.stat[t] = "READY", pc[t] \in MqClosePc \cup EvClosePc \cup {"run"},
         \A u \in M : k.stat[u] = "SUSPEND" /\ k'.stat[u] = "READY" /\ k'.err[u] # "EOK",
         UNCHANGED <<isr, timeout>>
  PROVE  /\ pc' \in [Thread -> Label] /\ \A u \in Thread : pc'[u] = IF u = t THEN l ELSE pc[u]
         /\ \A u \in Thread : /\ pc'[u] = pc[u] \/ {pc[u], pc'[u]} \cap HandPc = {}
                              /\ pc'[u] \in RecvPc <=> pc[u] \in RecvPc
         /\ Waits' /\ Runner' /\ timeout' \in [Thread -> Timeout]
         /\ \A u \in M : /\ u \notin On(k', MqList) /\ u \notin On(k', EvList) /\ k'.err[u] # "EOK"
         /\ \A u \in MqWoken : u \notin M /\ pc'[u] \in RecvPc
         /\ isr' \in {"none", "timer"} /\ (isr' = "timer" => k'.timers # <<>>)
<1>1. pc' \in [Thread -> Label] /\ \A u \in Thread : pc'[u] = IF u = t THEN l ELSE pc[u]
  BY MoveTo DEF Label, MqLabel, EvLabel, MqClosePc, EvClosePc
<1>2. (MqClosePc \cup EvClosePc \cup {"run"}) \cap (HandPc \cup RecvPc \cup WaitPc) = {}
  BY DEF MqClosePc, EvClosePc, HandPc, FilledPc, LookPc, RecvPc, WaitPc
<1>3. \A u \in Thread : /\ pc'[u] = pc[u] \/ {pc[u], pc'[u]} \cap HandPc = {}
                        /\ pc'[u] \in RecvPc <=> pc[u] \in RecvPc
                        /\ pc'[u] \in WaitPc <=> pc[u] \in WaitPc
  BY <1>1, <1>2
<1>4. Waits' /\ \A u \in M : OnNone(k', u)
  <2>1. pc'[Idle] \notin RecvPc \cup WaitPc BY <1>3, ThreadAssumption, MessFacts DEF Waits
  <2> QED BY <1>3, <2>1, StillWait
<1>5. \A u \in M : u \notin On(k', MqList) /\ u \notin On(k', EvList) BY <1>4, MessFacts DEF OnNone
<1>6. \A u \in MqWoken : u \notin M /\ pc'[u] \in RecvPc BY <1>3, AsleepNotWoken, WokenAre
<1>7. Runner' BY DEF Runner, Same
<1> QED BY <1>1, <1>3, <1>4, <1>5, <1>6, <1>7, MessFacts

LEMMA MqCloseStep ==
  ASSUME MessInv, NEW t \in Thread, NEW from \in MqClosePc, NEW l \in MqClosePc,
         Running(t, from), Goto(t, l), k'.cur = t,
         NEW M \in SUBSET Thread, Settled(k'), Same(k, k', M),
         \A u \in M : k.stat[u] = "SUSPEND" /\ k'.stat[u] = "READY" /\ k'.err[u] # "EOK",
         l = "mq_free" => On(k, MqList) = {},
         UNCHANGED <<isr, timeout, mqvars, evvars>>
  PROVE  Goes
<1>1. isr = "none" /\ k.cur = t /\ pc[t] = from /\ k.stat[t] = "READY"
  BY OnProcessor DEF MqClosePc
<1>2. /\ pc' \in [Thread -> Label] /\ \A u \in Thread : pc'[u] = IF u = t THEN l ELSE pc[u]
      /\ \A u \in Thread : /\ pc'[u] = pc[u] \/ {pc[u], pc'[u]} \cap HandPc = {}
                           /\ pc'[u] \in RecvPc <=> pc[u] \in RecvPc
      /\ Waits' /\ Runner' /\ timeout' \in [Thread -> Timeout]
      /\ \A u \in M : /\ u \notin On(k', MqList) /\ u \notin On(k', EvList) /\ k'.err[u] # "EOK"
      /\ \A u \in MqWoken : u \notin M /\ pc'[u] \in RecvPc
      /\ isr' \in {"none", "timer"} /\ (isr' = "timer" => k'.timers # <<>>)
  BY <1>1, CloseMoves
<1>3. MqKeeps
  <2>1. /\ Pool' /\ Refines /\ MqNoStrandedReceiver'
        /\ On(k', MqList) \subseteq On(k, MqList) /\ MqWoken' \subseteq MqWoken
    BY <1>2, MqCalm
  <2>2. MqClosing'
    <3>1. MqClosing BY DEF MessInv
    <3>2. /\ mqalive = "dying" /\ \A u \in Thread : pc[u] \in MqClosePc => u = t
          /\ MqWoken = {} /\ \A u \in Thread : msg[u] = Null
      BY <1>1, <3>1 DEF MqClosing
    <3>3. \A u \in Thread : pc'[u] \in MqClosePc => u = t /\ pc'[u] = l BY <1>2, <3>2
    <3>4. MqWoken' = {} /\ (On(k, MqList) = {} => On(k', MqList) = {}) BY <2>1, <3>2
    <3> QED BY <3>2, <3>3, <3>4 DEF MqClosing, mqvars
  <2> QED BY <2>1, <2>2, MessFacts DEF MqKeeps, mqvars
<1>4. EvKeeps
  <2>1. EvTypeOK' /\ UNCHANGED <<set, evalive, event_set, event_info>> BY MessFacts DEF evvars, EvTypeOK
  <2>2. \A u \in Thread : pc'[u] \in EvClosePc => pc'[u] = pc[u]
    BY <1>2 DEF MqClosePc, EvClosePc
  <2> QED BY <1>2, <2>1, <2>2, EvAside
<1> QED BY <1>2, <1>3, <1>4, Together

LEMMA EvCloseStep ==
  ASSUME MessInv, NEW t \in Thread, NEW from \in EvClosePc, NEW l \in EvClosePc,
         Running(t, from), Goto(t, l), k'.cur = t,
         NEW M \in SUBSET Thread, Settled(k'), Same(k, k', M),
         \A u \in M : k.stat[u] = "SUSPEND" /\ k'.stat[u] = "READY" /\ k'.err[u] # "EOK",
         l = "ev_free" => On(k, EvList) = {},
         UNCHANGED <<isr, timeout, mqvars, evvars>>
  PROVE  Goes
<1>1. isr = "none" /\ k.cur = t /\ pc[t] = from /\ k.stat[t] = "READY"
  BY OnProcessor DEF EvClosePc
<1>2. /\ pc' \in [Thread -> Label] /\ \A u \in Thread : pc'[u] = IF u = t THEN l ELSE pc[u]
      /\ \A u \in Thread : /\ pc'[u] = pc[u] \/ {pc[u], pc'[u]} \cap HandPc = {}
                           /\ pc'[u] \in RecvPc <=> pc[u] \in RecvPc
      /\ Waits' /\ Runner' /\ timeout' \in [Thread -> Timeout]
      /\ \A u \in M : /\ u \notin On(k', MqList) /\ u \notin On(k', EvList) /\ k'.err[u] # "EOK"
      /\ \A u \in MqWoken : u \notin M /\ pc'[u] \in RecvPc
      /\ isr' \in {"none", "timer"} /\ (isr' = "timer" => k'.timers # <<>>)
  BY <1>1, CloseMoves
<1>3. MqKeeps
  <2>1. \A u \in Thread : pc'[u] \in MqClosePc => pc'[u] = pc[u]
    BY <1>2 DEF MqClosePc, EvClosePc
  <2> QED BY <1>2, <2>1, MqAside
<1>4. EvKeeps
  <2>1. EvTypeOK' /\ UNCHANGED <<set, evalive, event_set, event_info>> BY MessFacts DEF evvars, EvTypeOK
  <2>2. NoSatisfiedWaiter' /\ Once /\ On(k', EvList) \subseteq On(k, EvList) BY <1>2, <2>1, EvCalm
  <2>3. EvClosing'
    <3>1. EvClosing BY DEF MessInv
    <3>2. evalive = "dying" /\ \A u \in Thread : pc[u] \in EvClosePc => u = t
      BY <1>1, <3>1 DEF EvClosing
    <3>3. \A u \in Thread : pc'[u] \in EvClosePc => u = t /\ pc'[u] = l BY <1>2, <3>2
    <3>4. On(k, EvList) = {} => On(k', EvList) = {} BY <2>2
    <3> QED BY <2>1, <3>2, <3>3, <3>4 DEF EvClosing
  <2> QED BY <2>1, <2>2, <2>3 DEF EvKeeps
<1> QED BY <1>2, <1>3, <1>4, Together

\* One step of the loop that fails the waiters of w.
LEMMA CloseListMoves ==
  ASSUME MessInv, NEW t \in Thread, NEW w \in {MqList, EvList}, NEW loop, NEW resume, NEW next,
         next # resume, next # loop, CloseList(t, w, loop, resume, next)
  PROVE  \E from \in {loop, resume}, l \in {loop, resume, next}, M \in SUBSET Thread :
           /\ Running(t, from) /\ Goto(t, l) /\ k'.cur = t /\ Settled(k') /\ Same(k, k', M)
           /\ \A u \in M : k.stat[u] = "SUSPEND" /\ k'.stat[u] = "READY" /\ k'.err[u] # "EOK"
           /\ l = next => On(k, w) = {}
<1>1. Settled(k) /\ w \in WaitList /\ (k.list[w] = <<>> <=> On(k, w) = {}) BY MessFacts
<1>2. CASE /\ Running(t, loop)
           /\ Goto(t, IF k.list[w] # <<>> THEN resume ELSE next)
           /\ UNCHANGED k
  <2> DEFINE M == {}
  <2>1. PICK l \in {resume, next} : Goto(t, l) /\ (l = next => k.list[w] = <<>>) BY <1>2
  <2>2. M \in SUBSET Thread /\ Settled(k') /\ Same(k, k', M) BY <1>1, <1>2 DEF Same
  <2>3. \A u \in M : k.stat[u] = "SUSPEND" /\ k'.stat[u] = "READY" /\ k'.err[u] # "EOK" OBVIOUS
  <2>4. k'.cur = t /\ Running(t, loop) BY <1>2 DEF Running
  <2> HIDE DEF M
  <2> QED BY <1>1, <2>1, <2>2, <2>3, <2>4
<1>3. CASE Running(t, resume) /\ k.list[w] # <<>> /\ k' = ResumeWithError(k, w) /\ Goto(t, loop)
  <2> DEFINE h == Head(k.list[w])
             M == {h}
  <2>1. /\ h \in Thread /\ k.stat[h] = "SUSPEND" /\ Settled(k') /\ Same(k, k', {h}) /\ k'.cur = k.cur
        /\ k'.stat[h] = "READY" /\ k'.err[h] = "ERROR"
    BY <1>1, <1>3, ErrorOK
  <2> HIDE DEF h
  <2>2. /\ M \in SUBSET Thread /\ Same(k, k', M)
        /\ \A u \in M : k.stat[u] = "SUSPEND" /\ k'.stat[u] = "READY" /\ k'.err[u] # "EOK"
    BY <2>1
  <2>3. k'.cur = t /\ Running(t, resume) /\ Goto(t, loop) BY <1>3, <2>1 DEF Running
  <2> HIDE DEF M
  <2> QED BY <2>1, <2>2, <2>3
<1> QED BY <1>2, <1>3 DEF CloseList

LEMMA MqDeleteResumeStep ==
  ASSUME MessInv, NEW t \in Thread, MqDeleteResume(t), UNCHANGED evvars
  PROVE  Goes
<1>1. CloseList(t, MqList, "mq_close", "mq_resume", "mq_free") /\ UNCHANGED <<isr, timeout, mqvars>>
  BY DEF MqDeleteResume
<1>2. PICK from \in {"mq_close", "mq_resume"}, l \in {"mq_close", "mq_resume", "mq_free"},
           M \in SUBSET Thread :
        /\ Running(t, from) /\ Goto(t, l) /\ k'.cur = t /\ Settled(k') /\ Same(k, k', M)
        /\ \A u \in M : k.stat[u] = "SUSPEND" /\ k'.stat[u] = "READY" /\ k'.err[u] # "EOK"
        /\ l = "mq_free" => On(k, MqList) = {}
  BY <1>1, CloseListMoves
<1>3. from \in MqClosePc /\ l \in MqClosePc BY DEF MqClosePc
<1> QED BY <1>1, <1>2, <1>3, MqCloseStep

LEMMA EvDeleteResumeStep ==
  ASSUME MessInv, NEW t \in Thread, EvDeleteResume(t), UNCHANGED mqvars
  PROVE  Goes
<1>1. CloseList(t, EvList, "ev_close", "ev_resume", "ev_free") /\ UNCHANGED <<isr, timeout, evvars>>
  BY DEF EvDeleteResume
<1>2. PICK from \in {"ev_close", "ev_resume"}, l \in {"ev_close", "ev_resume", "ev_free"},
           M \in SUBSET Thread :
        /\ Running(t, from) /\ Goto(t, l) /\ k'.cur = t /\ Settled(k') /\ Same(k, k', M)
        /\ \A u \in M : k.stat[u] = "SUSPEND" /\ k'.stat[u] = "READY" /\ k'.err[u] # "EOK"
        /\ l = "ev_free" => On(k, EvList) = {}
  BY <1>1, CloseListMoves
<1>3. from \in EvClosePc /\ l \in EvClosePc BY DEF EvClosePc
<1> QED BY <1>1, <1>2, <1>3, EvCloseStep

\* The first and the last step of a deletion.
LEMMA MqDeleteStep ==
  ASSUME MessInv, NEW t \in Thread, MqDelete(t), UNCHANGED evvars
  PROVE  Goes
<1>1. isr = "none" /\ k.cur = t /\ pc[t] = "run" /\ k.stat[t] = "READY"
  BY OnProcessor DEF MqDelete, Calls
<1>2. /\ mqalive = "alive" /\ MqWoken = {} /\ \A u \in Thread : msg[u] = Null
      /\ mqalive' = "dying" /\ Goto(t, "mq_close")
      /\ UNCHANGED <<k, isr, timeout, mq, msg, evvars>>
  BY DEF MqDelete
<1> DEFINE M == {}
<1>3. Settled(k') /\ Same(k, k', M) /\ k'.cur = t /\ M \in SUBSET Thread
  BY <1>1, <1>2, MessFacts DEF Same
<1>4. \A u \in M : k.stat[u] = "SUSPEND" /\ k'.stat[u] = "READY" /\ k'.err[u] # "EOK" OBVIOUS
<1>5. "mq_close" \in MqClosePc BY DEF MqClosePc
<1> HIDE DEF M
<1>6. /\ pc' \in [Thread -> Label] /\ \A u \in Thread : pc'[u] = IF u = t THEN "mq_close" ELSE pc[u]
      /\ \A u \in Thread : /\ pc'[u] = pc[u] \/ {pc[u], pc'[u]} \cap HandPc = {}
                           /\ pc'[u] \in RecvPc <=> pc[u] \in RecvPc
      /\ Waits' /\ Runner' /\ timeout' \in [Thread -> Timeout]
      /\ \A u \in M : /\ u \notin On(k', MqList) /\ u \notin On(k', EvList) /\ k'.err[u] # "EOK"
      /\ isr' \in {"none", "timer"} /\ (isr' = "timer" => k'.timers # <<>>)
  BY <1>1, <1>2, <1>3, <1>4, <1>5, CloseMoves
<1>7. MqKeeps
  <2>1. Pool' /\ Refines BY <1>2, <1>6, NodesKept, MessFacts
  <2>2. MqWoken' = {}
    <3>1. \A u \in Thread : u \in MqWoken' <=> u \in MqWoken BY <1>2, <1>6, WokenAre
    <3> QED BY <1>2, <3>1, WokenAre
  <2>3. MqNoStrandedReceiver'
    <3>1. On(k, MqList) # {} => mq'.entry <= Cardinality(MqWoken') BY <1>2, <2>2, Enough
    <3> QED BY <1>2, <1>3, <3>1, EnoughNext
  <2>4. MqClosing'
    <3>1. \A u \in Thread : pc[u] \notin MqClosePc BY <1>2 DEF MessInv, MqClosing
    <3>2. \A u \in Thread : pc'[u] \in MqClosePc => u = t /\ pc'[u] = "mq_close" BY <1>6, <3>1
    <3> QED BY <1>2, <2>2, <3>2 DEF MqClosing
  <2> QED BY <1>2, <2>1, <2>3, <2>4 DEF MqKeeps
<1>8. EvKeeps
  <2>1. EvTypeOK' /\ UNCHANGED <<set, evalive, event_set, event_info>>
    BY <1>2, MessFacts DEF evvars, EvTypeOK
  <2>2. \A u \in Thread : pc'[u] \in EvClosePc => pc'[u] = pc[u] BY <1>6 DEF EvClosePc
  <2> QED BY <1>3, <1>6, <2>1, <2>2, EvAside
<1> QED BY <1>3, <1>6, <1>7, <1>8, Together

LEMMA EvDeleteStep ==
  ASSUME MessInv, NEW t \in Thread, EvDelete(t), UNCHANGED mqvars
  PROVE  Goes
<1>1. isr = "none" /\ k.cur = t /\ pc[t] = "run" /\ k.stat[t] = "READY"
  BY OnProcessor DEF EvDelete, Calls
<1>2. /\ evalive = "alive" /\ evalive' = "dying" /\ Goto(t, "ev_close")
      /\ UNCHANGED <<k, isr, timeout, mqvars, set, event_set, event_info>>
  BY DEF EvDelete
<1> DEFINE M == {}
<1>3. Settled(k') /\ Same(k, k', M) /\ k'.cur = t /\ M \in SUBSET Thread
  BY <1>1, <1>2, MessFacts DEF Same
<1>4. \A u \in M : k.stat[u] = "SUSPEND" /\ k'.stat[u] = "READY" /\ k'.err[u] # "EOK" OBVIOUS
<1>5. "ev_close" \in EvClosePc BY DEF EvClosePc
<1> HIDE DEF M
<1>6. /\ pc' \in [Thread -> Label] /\ \A u \in Thread : pc'[u] = IF u = t THEN "ev_close" ELSE pc[u]
      /\ \A u \in Thread : /\ pc'[u] = pc[u] \/ {pc[u], pc'[u]} \cap HandPc = {}
                           /\ pc'[u] \in RecvPc <=> pc[u] \in RecvPc
      /\ Waits' /\ Runner' /\ timeout' \in [Thread -> Timeout]
      /\ \A u \in M : /\ u \notin On(k', MqList) /\ u \notin On(k', EvList) /\ k'.err[u] # "EOK"
      /\ \A u \in MqWoken : u \notin M /\ pc'[u] \in RecvPc
      /\ isr' \in {"none", "timer"} /\ (isr' = "timer" => k'.timers # <<>>)
  BY <1>1, <1>2, <1>3, <1>4, <1>5, CloseMoves
<1>7. MqKeeps
  <2>1. \A u \in Thread : pc'[u] \in MqClosePc => pc'[u] = pc[u] BY <1>6 DEF MqClosePc
  <2> QED BY <1>2, <1>3, <1>6, <2>1, MqAside
<1>8. EvKeeps
  <2>1. EvTypeOK' BY <1>2, MessFacts DEF EvTypeOK
  <2>2. NoSatisfiedWaiter' /\ Once BY <1>2, <1>3, <1>6, EvCalm
  <2>3. EvClosing'
    <3>1. \A u \in Thread : pc[u] \notin EvClosePc BY <1>2 DEF MessInv, EvClosing
    <3>2. \A u \in Thread : pc'[u] \in EvClosePc => u = t /\ pc'[u] = "ev_close" BY <1>6, <3>1
    <3> QED BY <1>2, <3>2 DEF EvClosing
  <2> QED BY <2>1, <2>2, <2>3 DEF EvKeeps
<1> QED BY <1>3, <1>6, <1>7, <1>8, Together

LEMMA MqDeleteObjectStep ==
  ASSUME MessInv, NEW t \in Thread, MqDeleteObject(t), UNCHANGED evvars
  PROVE  Goes
<1>1. isr = "none" /\ k.cur = t /\ pc[t] = "mq_free" /\ k.stat[t] = "READY"
  BY OnProcessor DEF MqDeleteObject
<1>2. /\ mqalive' = "gone" /\ mq' = NewQueue /\ Goto(t, "run")
      /\ UNCHANGED <<k, isr, timeout, msg, evvars>>
  BY DEF MqDeleteObject
<1>3. /\ mqalive = "dying" /\ \A u \in Thread : pc[u] \in MqClosePc => u = t
      /\ On(k, MqList) = {} /\ MqWoken = {} /\ \A u \in Thread : msg[u] = Null
  <2>1. MqClosing BY DEF MessInv
  <2>2. pc[t] \in MqClosePc BY <1>1 DEF MqClosePc
  <2> QED BY <1>1, <2>1, <2>2 DEF MqClosing
<1> DEFINE M == {}
<1>4. Settled(k') /\ Same(k, k', M) /\ k'.cur = t /\ M \in SUBSET Thread
  BY <1>1, <1>2, MessFacts DEF Same
<1>5. \A u \in M : k.stat[u] = "SUSPEND" /\ k'.stat[u] = "READY" /\ k'.err[u] # "EOK" OBVIOUS
<1>6. pc[t] \in MqClosePc BY <1>1 DEF MqClosePc
<1> HIDE DEF M
<1>7. /\ pc' \in [Thread -> Label] /\ \A u \in Thread : pc'[u] = IF u = t THEN "run" ELSE pc[u]
      /\ \A u \in Thread : /\ pc'[u] = pc[u] \/ {pc[u], pc'[u]} \cap HandPc = {}
                           /\ pc'[u] \in RecvPc <=> pc[u] \in RecvPc
      /\ Waits' /\ Runner' /\ timeout' \in [Thread -> Timeout]
      /\ \A u \in M : /\ u \notin On(k', MqList) /\ u \notin On(k', EvList) /\ k'.err[u] # "EOK"
      /\ isr' \in {"none", "timer"} /\ (isr' = "timer" => k'.timers # <<>>)
  BY <1>1, <1>2, <1>4, <1>5, <1>6, CloseMoves
<1>8. MqKeeps
  <2>1. Pool' /\ Refines BY <1>2, <1>3, <1>7, MqClearNodes, MessFacts
  <2>2. On(k', MqList) = {} BY <1>2, <1>3
  <2>3. MqNoStrandedReceiver' BY <1>4, <2>2, EnoughNext
  <2>4. MqWoken' = {}
    <3>1. \A u \in Thread : u \in MqWoken' <=> u \in MqWoken BY <1>2, <1>7, WokenAre
    <3> QED BY <1>3, <3>1, WokenAre
  <2>5. MqClosing'
    <3>1. \A u \in Thread : pc'[u] \notin MqClosePc BY <1>3, <1>7 DEF MqClosePc
    <3> QED BY <1>2, <1>3, <2>2, <2>4, <3>1 DEF MqClosing
  <2> QED BY <1>2, <2>1, <2>3, <2>5 DEF MqKeeps
<1>9. EvKeeps
  <2>1. EvTypeOK' /\ UNCHANGED <<set, evalive, event_set, event_info>>
    BY <1>2, MessFacts DEF evvars, EvTypeOK
  <2>2. \A u \in Thread : pc'[u] \in EvClosePc => pc'[u] = pc[u] BY <1>7 DEF EvClosePc
  <2> QED BY <1>4, <1>7, <2>1, <2>2, EvAside
<1> QED BY <1>4, <1>7, <1>8, <1>9, Together

\* Nobody is left on the list whose flags change.
LEMMA NobodyWaits ==
  ASSUME MessInv, Settled(k'), On(k', EvList) = {}, On(k, EvList) = {}
  PROVE  NoSatisfiedWaiter' /\ Once
<1>1. NoSatisfiedWaiter' BY DEF NoSatisfiedWaiter, On
<1>2. WokenNow = {} BY DEF WokenNow, On
<1> QED BY <1>1, <1>2 DEF Once

LEMMA EvDeleteObjectStep ==
  ASSUME MessInv, NEW t \in Thread, EvDeleteObject(t), UNCHANGED mqvars
  PROVE  Goes
<1>1. isr = "none" /\ k.cur = t /\ pc[t] = "ev_free" /\ k.stat[t] = "READY"
  BY OnProcessor DEF EvDeleteObject
<1>2. /\ evalive' = "gone" /\ set' = {} /\ Goto(t, "run")
      /\ UNCHANGED <<k, isr, timeout, mqvars, event_set, event_info>>
  BY DEF EvDeleteObject
<1>3. /\ evalive = "dying" /\ \A u \in Thread : pc[u] \in EvClosePc => u = t
      /\ On(k, EvList) = {}
  <2>1. EvClosing BY DEF MessInv
  <2>2. pc[t] \in EvClosePc BY <1>1 DEF EvClosePc
  <2> QED BY <1>1, <2>1, <2>2 DEF EvClosing
<1> DEFINE M == {}
<1>4. Settled(k') /\ Same(k, k', M) /\ k'.cur = t /\ M \in SUBSET Thread
  BY <1>1, <1>2, MessFacts DEF Same
<1>5. \A u \in M : k.stat[u] = "SUSPEND" /\ k'.stat[u] = "READY" /\ k'.err[u] # "EOK" OBVIOUS
<1>6. pc[t] \in EvClosePc BY <1>1 DEF EvClosePc
<1> HIDE DEF M
<1>7. /\ pc' \in [Thread -> Label] /\ \A u \in Thread : pc'[u] = IF u = t THEN "run" ELSE pc[u]
      /\ \A u \in Thread : /\ pc'[u] = pc[u] \/ {pc[u], pc'[u]} \cap HandPc = {}
                           /\ pc'[u] \in RecvPc <=> pc[u] \in RecvPc
      /\ Waits' /\ Runner' /\ timeout' \in [Thread -> Timeout]
      /\ \A u \in M : /\ u \notin On(k', MqList) /\ u \notin On(k', EvList) /\ k'.err[u] # "EOK"
      /\ \A u \in MqWoken : u \notin M /\ pc'[u] \in RecvPc
      /\ isr' \in {"none", "timer"} /\ (isr' = "timer" => k'.timers # <<>>)
  BY <1>1, <1>2, <1>4, <1>5, <1>6, CloseMoves
<1>8. MqKeeps
  <2>1. \A u \in Thread : pc'[u] \in MqClosePc => pc'[u] = pc[u] BY <1>7 DEF MqClosePc
  <2> QED BY <1>2, <1>4, <1>7, <2>1, MqAside
<1>9. EvKeeps
  <2>1. EvTypeOK' BY <1>2, MessFacts DEF EvTypeOK
  <2>2. On(k', EvList) = {} BY <1>2, <1>3
  <2>3. NoSatisfiedWaiter' /\ Once BY <1>3, <1>4, <2>2, NobodyWaits
  <2>4. EvClosing'
    <3>1. \A u \in Thread : pc'[u] \notin EvClosePc BY <1>3, <1>7 DEF EvClosePc
    <3> QED BY <1>2, <2>2, <3>1 DEF EvClosing
  <2> QED BY <2>1, <2>3, <2>4 DEF EvKeeps
<1> QED BY <1>4, <1>7, <1>8, <1>9, Together

\* A new object finds its list as empty as the old one left it.
LEMMA ListAnew ==
  ASSUME MessInv, NEW w \in {MqList, EvList}, On(k, w) = {}, k' = [k EXCEPT !.list[w] = <<>>]
  PROVE  k' = k
<1>1. k \in KernelState BY DEF MessInv, TypeOK, IpcTypeOK
<1>2. w \in ListHead /\ k.list \in [ListHead -> Seq(Thread)] /\ k.list[w] = <<>>
  BY <1>1, KernelFields, MessFacts DEF ListHead
<1>3. [k.list EXCEPT ![w] = <<>>] = k.list BY <1>2
<1>4. k' = [k EXCEPT !.list = [k.list EXCEPT ![w] = <<>>]] BY <1>1 DEF KernelState
<1>5. [k EXCEPT !.list = k.list] = k BY <1>1 DEF KernelState
<1> QED BY <1>3, <1>4, <1>5

LEMMA MqCreateStep ==
  ASSUME MessInv, NEW t \in Thread, MqCreate(t), UNCHANGED evvars
  PROVE  Goes
<1>1. /\ mqalive = "gone" /\ mqalive' = "alive" /\ mq' = NewQueue
      /\ k' = [k EXCEPT !.list[MqList] = <<>>]
      /\ UNCHANGED <<isr, pc, timeout, msg, evvars>>
  BY DEF MqCreate
<1>2. On(k, MqList) = {} /\ \A u \in Thread : msg[u] = Null /\ pc[u] \notin MqClosePc
  BY <1>1 DEF MessInv, MqClosing
<1>3. k' = k BY <1>1, <1>2, ListAnew
<1>4. Settled(k') /\ Same(k, k', {}) BY <1>3, MessFacts DEF Same
<1>5. Waits' BY <1>1, <1>3, MessFacts DEF Waits
<1>6. MqKeeps
  <2>1. Pool' /\ Refines BY <1>1, <1>2, MqClearNodes, MessFacts
  <2>2. MqNoStrandedReceiver' BY <1>2, <1>3, <1>4, EnoughNext
  <2>3. MqClosing' BY <1>1, <1>2 DEF MqClosing
  <2> QED BY <1>1, <2>1, <2>2, <2>3 DEF MqKeeps
<1>7. EvKeeps
  <2> DEFINE M == {}
  <2>1. EvTypeOK' /\ UNCHANGED <<set, evalive, event_set, event_info>>
    BY <1>1, MessFacts DEF evvars, EvTypeOK
  <2>2. /\ M \in SUBSET Thread /\ Same(k, k', M)
        /\ \A u \in M : u \notin On(k', EvList) /\ (u \in On(k, EvList) => k'.err[u] # "EOK")
        /\ \A u \in Thread : pc'[u] \in EvClosePc => pc'[u] = pc[u]
    BY <1>1, <1>4
  <2> HIDE DEF M
  <2> QED BY <1>4, <2>1, <2>2, EvAside
<1>8. Runner' BY <1>1, <1>3 DEF MessInv, Runner
<1>9. isr' = "timer" => k'.timers # <<>> BY <1>1, <1>3 DEF MessInv
<1> QED BY <1>1, <1>4, <1>5, <1>6, <1>7, <1>8, <1>9, Together, MessFacts

LEMMA EvCreateStep ==
  ASSUME MessInv, NEW t \in Thread, EvCreate(t), UNCHANGED mqvars
  PROVE  Goes
<1>1. /\ evalive = "gone" /\ evalive' = "alive" /\ set' = {}
      /\ k' = [k EXCEPT !.list[EvList] = <<>>]
      /\ UNCHANGED <<isr, pc, timeout, event_set, event_info, mqvars>>
  BY DEF EvCreate
<1>2. On(k, EvList) = {} /\ \A u \in Thread : pc[u] \notin EvClosePc
  BY <1>1 DEF MessInv, EvClosing
<1>3. k' = k BY <1>1, <1>2, ListAnew
<1>4. Settled(k') /\ Same(k, k', {}) BY <1>3, MessFacts DEF Same
<1>5. Waits' BY <1>1, <1>3, MessFacts DEF Waits
<1>6. MqKeeps
  <2> DEFINE M == {}
  <2>1. /\ M \in SUBSET Thread /\ Same(k, k', M)
        /\ \A u \in M : u \notin On(k', MqList) /\ (pc'[u] \in RecvPc => k'.err[u] # "EOK")
        /\ \A u \in MqWoken : u \notin M /\ pc'[u] \in RecvPc
        /\ \A u \in Thread : /\ pc'[u] = pc[u] \/ {pc[u], pc'[u]} \cap HandPc = {}
                             /\ pc'[u] \in RecvPc => pc[u] \in RecvPc
                             /\ pc'[u] \in MqClosePc => pc'[u] = pc[u]
    BY <1>1, <1>4, WokenAre
  <2> HIDE DEF M
  <2> QED BY <1>1, <1>4, <2>1, MqAside, MessFacts
<1>7. EvKeeps
  <2>1. EvTypeOK' BY <1>1, MessFacts DEF EvTypeOK
  <2>2. NoSatisfiedWaiter' /\ Once BY <1>2, <1>3, <1>4, NobodyWaits
  <2>3. EvClosing' BY <1>1, <1>2 DEF EvClosing
  <2> QED BY <2>1, <2>2, <2>3 DEF EvKeeps
<1>8. Runner' BY <1>1, <1>3 DEF MessInv, Runner
<1>9. isr' = "timer" => k'.timers # <<>> BY <1>1, <1>3 DEF MessInv
<1> QED BY <1>1, <1>4, <1>5, <1>6, <1>7, <1>8, <1>9, Together, MessFacts

-----------------------------------------------------------------------------
(* Waiting for flags.                                                      *)

\* Who is not satisfied by some flags is not by fewer.
LEMMA Fewer ==
  ASSUME NEW has, NEW less \in SUBSET has, NEW wants, NEW option,
         Satisfies(less, wants, option)
  PROVE  Satisfies(has, wants, option)
  BY DEF Satisfies

LEMMA EvTakeStep ==
  ASSUME MessInv, NEW t \in Thread, NEW wants \in Named, NEW option \in Option,
         EvTake(t, wants, option), UNCHANGED mqvars
  PROVE  Goes
<1>1. /\ evalive = "alive" /\ set' \subseteq set
      /\ UNCHANGED <<k, isr, pc, timeout, event_set, event_info, evalive, mqvars>>
  BY DEF EvTake
<1>2. Settled(k') /\ Same(k, k', {}) /\ Waits' BY <1>1, MessFacts DEF Same, Waits
<1>3. MqKeeps
  <2> DEFINE M == {}
  <2>1. /\ M \in SUBSET Thread /\ Same(k, k', M)
        /\ \A u \in M : u \notin On(k', MqList) /\ (pc'[u] \in RecvPc => k'.err[u] # "EOK")
        /\ \A u \in MqWoken : u \notin M /\ pc'[u] \in RecvPc
        /\ \A u \in Thread : /\ pc'[u] = pc[u] \/ {pc[u], pc'[u]} \cap HandPc = {}
                             /\ pc'[u] \in RecvPc => pc[u] \in RecvPc
                             /\ pc'[u] \in MqClosePc => pc'[u] = pc[u]
    BY <1>1, <1>2, WokenAre
  <2> HIDE DEF M
  <2> QED BY <1>1, <1>2, <2>1, MqAside, MessFacts
<1>4. EvKeeps
  <2>1. EvTypeOK' BY <1>1, MessFacts DEF EvTypeOK
  <2>2. NoSatisfiedWaiter'
    <3>1. ASSUME NEW u \in On(k, EvList), Satisfies(set', event_set[u], event_info[u]) PROVE FALSE
      <4>1. Satisfies(set, event_set[u], event_info[u]) BY <1>1, <3>1, Fewer
      <4> QED BY <4>1 DEF MessInv, NoSatisfiedWaiter, On
    <3> QED BY <1>1, <3>1 DEF NoSatisfiedWaiter, On, Satisfies
  <2>3. Once
    <3>1. WokenNow = {} BY <1>1 DEF WokenNow
    <3> QED BY <3>1 DEF Once
  <2>4. EvClosing' BY <1>1, EvOpen
  <2> QED BY <2>1, <2>2, <2>3, <2>4 DEF EvKeeps
<1>5. Runner' BY <1>1 DEF MessInv, Runner
<1>6. isr' = "timer" => k'.timers # <<>> BY <1>1 DEF MessInv
<1> QED BY <1>1, <1>2, <1>3, <1>4, <1>5, <1>6, Together, MessFacts

LEMMA EvWaitStep ==
  ASSUME MessInv, NEW t \in Thread, NEW wants \in Named, NEW option \in Option,
         NEW time \in Timeout \ {0}, EvWait(t, wants, option, time), UNCHANGED mqvars
  PROVE  Goes
<1>1. isr = "none" /\ k.cur = t /\ pc[t] = "run" /\ k.stat[t] = "READY"
  BY OnProcessor DEF EvWait, Calls
<1>2. /\ evalive = "alive" /\ ~Satisfies(set, wants, option)
      /\ event_set' = [event_set EXCEPT ![t] = wants]
      /\ event_info' = [event_info EXCEPT ![t] = option]
      /\ k' = BlockOn(k, EvList, t, EvFlag, time) /\ Goto(t, "ev_sched")
      /\ UNCHANGED <<isr, timeout, set, evalive, mqvars>>
  BY DEF EvWait
<1>3. t # Idle BY EvAssumption DEF EvWait, Calls
<1>4. pc' \in [Thread -> Label] /\ \A u \in Thread : pc'[u] = IF u = t THEN "ev_sched" ELSE pc[u]
  BY <1>2, MoveTo DEF Label, EvLabel
<1>5. /\ Settled(k') /\ Same(k, k', {t}) /\ k'.cur = k.cur
      /\ k'.stat[t] = "SUSPEND" /\ k'.err[t] = "EOK" /\ OnlyOn(k', t, EvList)
  <2>1. t \in Thread \ {Idle} /\ EvList \in WaitList /\ Settled(k) BY <1>3, MessFacts
  <2> QED BY <1>1, <1>2, <2>1, BlockOK
<1>6. /\ Waits'
      /\ On(k', MqList) = On(k, MqList) /\ On(k', EvList) = On(k, EvList) \cup {t}
  <2>1. \A u \in Thread \ {t} : pc'[u] = pc[u] BY <1>4
  <2>2. pc'[t] \in WaitPc BY <1>4 DEF WaitPc
  <2>3. t \in Thread \ {Idle} /\ MqList # EvList BY <1>3, MessFacts
  <2> QED BY <1>1, <1>5, <2>1, <2>2, <2>3, AfterSleep
<1>7. MqKeeps
  <2> DEFINE M == {t}
  <2>1. M \in SUBSET Thread /\ Same(k, k', M) BY <1>5
  <2>2. \A u \in Thread : /\ pc'[u] = pc[u] \/ {pc[u], pc'[u]} \cap HandPc = {}
                          /\ pc'[u] \in RecvPc => pc[u] \in RecvPc
                          /\ pc'[u] \in MqClosePc => pc'[u] = pc[u]
    BY <1>1, <1>4 DEF HandPc, FilledPc, LookPc, RecvPc, MqClosePc
  <2>3. t \notin On(k', MqList) BY <1>1, <1>6, MessFacts
  <2>4. \A u \in M : u \notin On(k', MqList) /\ (pc'[u] \in RecvPc => k'.err[u] # "EOK")
    BY <1>4, <2>3 DEF RecvPc
  <2>5. \A u \in MqWoken : u \notin M /\ pc'[u] \in RecvPc BY <1>1, <1>4, WokenAre DEF RecvPc
  <2> HIDE DEF M
  <2> QED BY <1>2, <1>4, <1>5, <2>1, <2>2, <2>4, <2>5, MqAside
<1>8. EvKeeps
  <2>1. EvTypeOK' BY <1>2, MessFacts DEF EvTypeOK, Named
  <2>2. NoSatisfiedWaiter'
    <3>1. ASSUME NEW u \in On(k', EvList) PROVE ~Satisfies(set, event_set'[u], event_info'[u])
      <4>1. CASE u = t BY <1>2, <4>1, MessFacts DEF EvTypeOK
      <4>2. CASE u # t
        <5>1. u \in On(k, EvList) BY <1>6, <4>2
        <5>2. event_set'[u] = event_set[u] /\ event_info'[u] = event_info[u]
          BY <1>2, <4>2, MessFacts DEF EvTypeOK
        <5>3. ~Satisfies(set, event_set[u], event_info[u])
          BY <5>1 DEF MessInv, NoSatisfiedWaiter, On
        <5> QED BY <5>2, <5>3
      <4> QED BY <4>1, <4>2
    <3> QED BY <1>2, <3>1 DEF NoSatisfiedWaiter, On, Satisfies
  <2>3. Once
    <3>1. WokenNow = {} BY <1>6 DEF WokenNow, On
    <3> QED BY <3>1 DEF Once
  <2>4. EvClosing'
    <3>1. \A u \in Thread : pc'[u] \in EvClosePc => pc[u] \in EvClosePc BY <1>4 DEF EvClosePc
    <3> QED BY <1>2, <3>1, EvOpen
  <2> QED BY <2>1, <2>2, <2>3, <2>4 DEF EvKeeps
<1>9. Runner' BY <1>1, <1>4, <1>5 DEF Runner
<1> QED BY <1>1, <1>2, <1>5, <1>6, <1>7, <1>8, <1>9, Together, MessFacts

LEMMA EvBackStep ==
  ASSUME MessInv, NEW t \in Thread, EvBack(t), UNCHANGED mqvars
  PROVE  Goes
<1> DEFINE M == {t}
<1>1. isr = "none" /\ k.cur = t /\ pc[t] = "ev_back" /\ k.stat[t] = "READY"
  BY OnProcessor DEF EvBack
<1>2. /\ Return(t) /\ UNCHANGED <<isr, set, evalive, mqvars>>
      /\ event_set' = [event_set EXCEPT ![t] = {}]
      /\ event_info' = [event_info EXCEPT ![t] = NoOption]
  BY DEF EvBack
<1>3. /\ Settled(k') /\ Same(k, k', M) /\ k'.stat = k.stat /\ k'.cur = k.cur
      /\ timeout' \in [Thread -> Timeout]
      /\ pc' \in [Thread -> Label] /\ \A u \in Thread : pc'[u] = IF u = t THEN "run" ELSE pc[u]
      /\ OnNone(k', t) /\ Waits'
      /\ On(k', MqList) = On(k, MqList) /\ On(k', EvList) = On(k, EvList)
  BY <1>1, <1>2, AfterReturn
<1>4. t \notin On(k', MqList) /\ t \notin On(k', EvList) BY <1>3, MessFacts DEF OnNone
<1>5. M \in SUBSET Thread /\ \A u \in M : u = t OBVIOUS
<1>6. MqKeeps
  <2>1. \A u \in Thread : /\ pc'[u] = pc[u] \/ {pc[u], pc'[u]} \cap HandPc = {}
                          /\ pc'[u] \in RecvPc => pc[u] \in RecvPc
                          /\ pc'[u] \in MqClosePc => pc'[u] = pc[u]
    BY <1>1, <1>3 DEF HandPc, FilledPc, LookPc, RecvPc, MqClosePc
  <2>2. \A u \in M : u \notin On(k', MqList) /\ (pc'[u] \in RecvPc => k'.err[u] # "EOK")
    BY <1>3, <1>4, <1>5 DEF RecvPc
  <2>3. \A u \in MqWoken : u \notin M /\ pc'[u] \in RecvPc
    BY <1>1, <1>3, WokenAre DEF RecvPc
  <2> HIDE DEF M
  <2> QED BY <1>2, <1>3, <1>5, <2>1, <2>2, <2>3, MqAside
<1>7. EvKeeps
  <2>1. EvTypeOK' BY <1>2, MessFacts DEF EvTypeOK, Option, NoOption
  <2>2. \A u \in Thread : pc'[u] \in EvClosePc => pc'[u] = pc[u] BY <1>3 DEF EvClosePc
  <2>3. \A u \in M : u \notin On(k', EvList) /\ u \notin On(k, EvList) BY <1>3, <1>4, <1>5
  <2>4. \A u \in On(k', EvList) : event_set'[u] = event_set[u] /\ event_info'[u] = event_info[u]
    BY <1>2, <1>3, <1>4, MessFacts DEF EvTypeOK
  <2> HIDE DEF M
  <2> QED BY <1>2, <1>3, <1>5, <2>1, <2>2, <2>3, <2>4, EvAside
<1>8. Runner' BY <1>1, <1>3 DEF Runner
<1> QED BY <1>1, <1>2, <1>3, <1>6, <1>7, <1>8, Together

LEMMA EvResetStep ==
  ASSUME MessInv, NEW t \in Thread, EvReset(t), UNCHANGED mqvars
  PROVE  Goes
<1> DEFINE M == On(k, EvList)
<1>1. isr = "none" /\ k.cur = t /\ pc[t] = "run" /\ k.stat[t] = "READY" /\ t \notin M
  BY OnProcessor DEF EvReset, Calls
<1>2. /\ evalive = "alive" /\ k' = rt_ipc_list_resume_all(k, EvList) /\ set' = {} /\ Goto(t, "sched")
      /\ UNCHANGED <<isr, timeout, event_set, event_info, evalive, mqvars>>
  BY DEF EvReset
<1>3. Cleared(k, k', EvList) BY <1>2, ResumeAllOK, MessFacts
<1>4. /\ Settled(k') /\ Same(k, k', M) /\ k'.cur = k.cur /\ On(k', EvList) = {}
      /\ \A u \in M : k'.stat[u] = "READY" /\ k'.err[u] = "ERROR" /\ OnNone(k', u)
  BY <1>3 DEF Cleared
<1>5. M \in SUBSET Thread /\ \A u \in M : k.stat[u] = "SUSPEND" BY MessFacts
<1>6. pc' \in [Thread -> Label] /\ \A u \in Thread : pc'[u] = IF u = t THEN "sched" ELSE pc[u]
  BY <1>2, MoveTo DEF Label
<1> HIDE DEF M
<1>7. \A u \in Thread : /\ pc'[u] = pc[u] \/ {pc[u], pc'[u]} \cap HandPc = {}
                        /\ pc'[u] \in RecvPc <=> pc[u] \in RecvPc
                        /\ pc'[u] \in WaitPc <=> pc[u] \in WaitPc
                        /\ pc'[u] \in MqClosePc => pc'[u] = pc[u]
                        /\ pc'[u] \in EvClosePc => pc[u] \in EvClosePc
  BY <1>1, <1>6 DEF HandPc, FilledPc, LookPc, RecvPc, WaitPc, MqClosePc, EvClosePc
<1>8. Waits'
  <2>1. pc'[Idle] \notin RecvPc \cup WaitPc BY <1>7, ThreadAssumption, MessFacts DEF Waits
  <2> QED BY <1>4, <1>5, <1>7, <2>1, StillWait
<1>9. MqKeeps
  <2>1. \A u \in M : u \notin On(k', MqList) /\ (pc'[u] \in RecvPc => k'.err[u] # "EOK")
    BY <1>4, MessFacts DEF OnNone
  <2>2. \A u \in MqWoken : u \notin M /\ pc'[u] \in RecvPc
    BY <1>5, <1>7, AsleepNotWoken, WokenAre
  <2> QED BY <1>2, <1>4, <1>5, <1>6, <1>7, <2>1, <2>2, MqAside
<1>10. EvKeeps
  <2>1. EvTypeOK' BY <1>2, MessFacts DEF EvTypeOK
  <2>2. NoSatisfiedWaiter' BY <1>4 DEF NoSatisfiedWaiter, On
  <2>3. Once
    <3>1. WokenNow = {} BY <1>4 DEF WokenNow, M, On
    <3> QED BY <3>1 DEF Once
  <2>4. EvClosing' BY <1>2, <1>7, EvOpen
  <2> QED BY <2>1, <2>2, <2>3, <2>4 DEF EvKeeps
<1>11. Runner' BY <1>1, <1>4 DEF Runner, Same
<1> QED BY <1>1, <1>2, <1>4, <1>8, <1>9, <1>10, <1>11, Together, MessFacts

-----------------------------------------------------------------------------
(* rt_event_send: the walk over the waiters.                               *)

Start(new) == [k |-> k, set |-> set \cup new, event_set |-> event_set]
Waiter(i) == k.list[EvList][i]
Waiters == Len(k.list[EvList])

\* The waiters are the threads of the list, each in its place.
LEMMA WaitersAre ==
  ASSUME MessInv
  PROVE  /\ Waiters \in Nat
         /\ \A i \in 1..Waiters : /\ Waiter(i) \in On(k, EvList) /\ Waiter(i) \in Thread
                                  /\ k.stat[Waiter(i)] = "SUSPEND" /\ pc[Waiter(i)] \in WaitPc
         /\ \A i, j \in 1..Waiters : Waiter(i) = Waiter(j) => i = j
         /\ \A u \in On(k, EvList) : \E i \in 1..Waiters : u = Waiter(i)
<1>1. EvList \in ListHead /\ k.list[EvList] \in Seq(Thread) /\ NoDup(k.list[EvList])
  BY MessFacts, SettledFields DEF Settled, Resting, KernelOK, Apart
<1>2. Waiters \in Nat /\ DOMAIN k.list[EvList] = 1..Waiters BY <1>1 DEF Waiters
<1>3. \A i \in 1..Waiters : Waiter(i) \in On(k, EvList) BY <1>2 DEF Waiter, On, ToSet
<1>4. \A u \in On(k, EvList) : u \in Thread /\ k.stat[u] = "SUSPEND" /\ pc[u] \in WaitPc
  BY MessFacts DEF Waits
<1>5. \A u \in On(k, EvList) : \E i \in 1..Waiters : u = Waiter(i)
  BY <1>2 DEF Waiter, On, ToSet
<1>6. \A i, j \in 1..Waiters : Waiter(i) = Waiter(j) => i = j BY <1>1, <1>2 DEF NoDup, Waiter
<1> QED BY <1>2, <1>3, <1>4, <1>5, <1>6

\* Its recursion has a solution.
LEMMA WalkSteps ==
  ASSUME NEW new, NEW n \in Nat, n = Waiters
  PROVE  \E f : /\ f = [i \in 0..n |-> IF i = 0 THEN Start(new) ELSE Deliver(f[i - 1], Waiter(i))]
                /\ SendTo(new) = f[n]
<1> DEFINE D(m) == \E f : f = [i \in 0..m |-> IF i = 0 THEN Start(new)
                                              ELSE Deliver(f[i - 1], Waiter(i))]
           T == {m \in Nat : ~D(m)}
           Q(f) == f = [i \in 0..n |-> IF i = 0 THEN Start(new) ELSE Deliver(f[i - 1], Waiter(i))]
           walk == CHOOSE f : Q(f)
<1>1. SendTo(new) = walk[n] BY DEF SendTo, Start, Waiter, Waiters
<1>2. T = {}
  <2>1. SUFFICES ASSUME T # {} PROVE FALSE OBVIOUS
  <2>2. PICK x \in T : \A y \in T : x <= y BY <2>1, Minimum
  <2>3. CASE x = 0
    <3> DEFINE g == [i \in 0..0 |-> Start(new)]
    <3>1. g = [i \in 0..0 |-> IF i = 0 THEN Start(new) ELSE Deliver(g[i - 1], Waiter(i))]
      <4>1. \A i \in 0..0 : i = 0 OBVIOUS
      <4> QED BY <4>1
    <3>2. D(0) BY <3>1
    <3> QED BY <2>2, <2>3, <3>2
  <2>4. CASE x # 0
    <3>1. x \in Nat /\ x - 1 \in Nat /\ x - 1 \notin T
      <4> HIDE DEF D, Q, walk
      <4> QED BY <2>2, <2>4
    <3>2. PICK g : g = [i \in 0..(x - 1) |-> IF i = 0 THEN Start(new)
                                             ELSE Deliver(g[i - 1], Waiter(i))]
      BY <3>1
    <3> DEFINE h == [i \in 0..x |-> IF i = 0 THEN Start(new) ELSE Deliver(g[i - 1], Waiter(i))]
    <3>3. \A i \in 0..(x - 1) : h[i] = g[i] BY <3>1, <3>2
    <3>4. \A i \in 1..x : i - 1 \in 0..(x - 1) /\ h[i - 1] = g[i - 1]
      <4> TAKE i \in 1..x
      <4>1. i - 1 \in 0..(x - 1) BY <3>1
      <4> HIDE DEF h
      <4> QED BY <4>1, <3>3
    <3>5. h = [i \in 0..x |-> IF i = 0 THEN Start(new) ELSE Deliver(h[i - 1], Waiter(i))]
      <4> DEFINE j == [i \in 0..x |-> IF i = 0 THEN Start(new) ELSE Deliver(h[i - 1], Waiter(i))]
      <4>1. \A i \in 0..x : j[i] = h[i]
        <5> TAKE i \in 0..x
        <5>1. CASE i = 0 BY <5>1
        <5>2. CASE i # 0
          <6>1. i \in 1..x BY <5>2, <3>1
          <6>2. h[i - 1] = g[i - 1] BY <6>1, <3>4
          <6> HIDE DEF h
          <6>3. j[i] = Deliver(h[i - 1], Waiter(i)) BY <5>2
          <6>4. h[i] = Deliver(g[i - 1], Waiter(i)) BY <5>2 DEF h
          <6> QED BY <6>2, <6>3, <6>4
        <5> QED BY <5>1, <5>2
      <4>2. DOMAIN j = 0..x /\ DOMAIN h = 0..x OBVIOUS
      <4> QED BY <4>1, <4>2
    <3>6. D(x) BY <3>5
    <3> QED BY <2>2, <3>6
  <2> QED BY <2>3, <2>4
<1>3. D(n)
  <2> HIDE DEF D, Q, walk
  <2> QED BY <1>2
<1>4. \E f : Q(f)
  <2>1. PICK f : f = [i \in 0..n |-> IF i = 0 THEN Start(new) ELSE Deliver(f[i - 1], Waiter(i))]
    BY <1>3
  <2>2. Q(f) BY <2>1
  <2> HIDE DEF Q
  <2> QED BY <2>2
<1>5. Q(walk)
  <2> HIDE DEF Q
  <2> QED BY <1>4, Zenon
<1> QED BY <1>1, <1>5

\* The waiters the walk has woken, and what holds when it has looked at i:
\* they have their flags, and those it passed by are still not satisfied.
Served(w) == {u \in On(k, EvList) : w.k.stat[u] = "READY"}

Walked(w, i) ==
  /\ Settled(w.k) /\ Same(k, w.k, Served(w)) /\ w.k.cur = k.cur /\ w.k.err = k.err
  /\ w.set \subseteq Bit /\ w.event_set \in [Thread -> SUBSET Bit]
  /\ \A j \in 1..Waiters : j > i => Waiter(j) \notin Served(w)
  /\ \A u \in Thread \ Served(w) : w.event_set[u] = event_set[u]
  /\ \A j \in 1..i : Waiter(j) \notin Served(w) =>
       ~Satisfies(w.set, event_set[Waiter(j)], event_info[Waiter(j)])
  /\ \A u \in Served(w) : event_info[u].clear => w.event_set[u] \cap w.set = {}
  /\ \A u, v \in Served(w) : u # v /\ event_info[u].clear /\ event_info[v].clear =>
       w.event_set[u] \cap w.event_set[v] = {}

LEMMA StartWalked ==
  ASSUME MessInv, NEW new \in Named
  PROVE  Walked(Start(new), 0)
<1> DEFINE w == Start(new)
<1>1. w.k = k /\ w.set = set \cup new /\ w.event_set = event_set BY DEF Start
<1> HIDE DEF w
<1>2. Served(w) = {} BY <1>1, MessFacts DEF Served
<1>3. Same(k, k, Served(w)) BY <1>2 DEF Same
<1>4. set \cup new \subseteq Bit /\ event_set \in [Thread -> SUBSET Bit]
  BY MessFacts DEF EvTypeOK, Named
<1> QED BY <1>1, <1>2, <1>3, <1>4, MessFacts DEF Walked, w

LEMMA DeliverWalked ==
  ASSUME MessInv, NEW w, NEW i \in 0..Waiters, i # Waiters, Walked(w, i)
  PROVE  Walked(Deliver(w, Waiter(i + 1)), i + 1)
<1> DEFINE t == Waiter(i + 1)
           gets == Received(w.set, w.event_set[t], event_info[t])
           r == Deliver(w, t)
<1>1. /\ i + 1 \in 1..Waiters /\ i + 1 > i /\ Waiters \in Nat
      /\ 1..(i + 1) = 1..i \cup {i + 1} /\ 1..i \subseteq 1..Waiters
      /\ \A j \in 1..Waiters : j > i + 1 => j > i /\ j # i + 1
      /\ \A j \in 1..i : j # i + 1
  BY WaitersAre
<1>2. /\ t \in Thread /\ t \in On(k, EvList) /\ k.stat[t] = "SUSPEND"
      /\ \A j \in 1..Waiters : j # i + 1 => Waiter(j) # t
  BY <1>1, WaitersAre
<1>3. t \notin Served(w) BY <1>1 DEF Walked
<1>4. w.event_set[t] = event_set[t] BY <1>2, <1>3 DEF Walked
<1>5. CASE ~Satisfies(w.set, event_set[t], event_info[t])
  <2>1. r = w BY <1>4, <1>5 DEF Deliver
  <2>2. \A j \in 1..(i + 1) : Waiter(j) \notin Served(w) =>
          ~Satisfies(w.set, event_set[Waiter(j)], event_info[Waiter(j)])
    BY <1>1, <1>5 DEF Walked
  <2>3. \A j \in 1..Waiters : j > i + 1 => Waiter(j) \notin Served(w) BY <1>1 DEF Walked
  <2> HIDE DEF r, t
  <2> QED BY <2>1, <2>2, <2>3 DEF Walked, r, t
<1>6. CASE Satisfies(w.set, event_set[t], event_info[t])
  <2>1. /\ r.k = rt_thread_resume(w.k, t)
        /\ r.set = IF event_info[t].clear THEN w.set \ gets ELSE w.set
        /\ r.event_set = [w.event_set EXCEPT ![t] = gets]
    BY <1>4, <1>6 DEF Deliver
  <2>2. gets \subseteq w.set BY <1>4, <1>6 DEF Satisfies, Received
  <2> HIDE DEF gets, r, t
  <2>3. w.k.stat[t] = "SUSPEND" BY <1>2, <1>3 DEF Walked, Same
  <2>4. /\ Settled(r.k) /\ Same(w.k, r.k, {t}) /\ r.k.cur = w.k.cur
        /\ r.k.stat[t] = "READY" /\ r.k.err = w.k.err
    <3> DEFINE s == w.k
               q == rt_thread_resume(s, t)
    <3>1. /\ Settled(q) /\ Same(s, q, {t}) /\ q.cur = s.cur
          /\ q.stat[t] = "READY" /\ q.err = s.err
      <4>1. Settled(s) /\ t \in Thread /\ s.stat[t] = "SUSPEND" BY <1>2, <2>3 DEF Walked
      <4> HIDE DEF s
      <4> QED BY <4>1, ResumeOne
    <3>2. r.k = q BY <2>1
    <3> HIDE DEF q
    <3> QED BY <3>1, <3>2
  <2>5. Served(r) = Served(w) \cup {t}
    <3>1. \A u \in On(k, EvList) \ {t} : r.k.stat[u] = w.k.stat[u] BY <2>4, MessFacts DEF Same
    <3> QED BY <1>2, <2>4, <3>1 DEF Served
  <2>6. Same(k, r.k, Served(r)) BY <2>4, <2>5 DEF Walked, Same
  <2>7. r.set \subseteq w.set /\ r.set \subseteq Bit /\ r.event_set \in [Thread -> SUBSET Bit]
    BY <2>1, <2>2 DEF Walked
  <2>8. /\ r.event_set[t] = gets
        /\ \A u \in Thread \ {t} : r.event_set[u] = w.event_set[u]
    BY <1>2, <2>1 DEF Walked
  <2>9. \A j \in 1..Waiters : j > i + 1 => Waiter(j) \notin Served(r)
    BY <1>1, <1>2, <2>5 DEF Walked
  <2>10. \A j \in 1..(i + 1) : Waiter(j) \notin Served(r) =>
           ~Satisfies(r.set, event_set[Waiter(j)], event_info[Waiter(j)])
    <3> SUFFICES ASSUME NEW j \in 1..(i + 1), Waiter(j) \notin Served(r),
                        Satisfies(r.set, event_set[Waiter(j)], event_info[Waiter(j)])
                 PROVE  FALSE
      OBVIOUS
    <3>1. j # i + 1 /\ Waiter(j) \notin Served(w) BY <2>5 DEF t
    <3>2. j \in 1..i BY <1>1, <3>1
    <3>3. Satisfies(w.set, event_set[Waiter(j)], event_info[Waiter(j)]) BY <2>7, Fewer
    <3> QED BY <3>1, <3>2, <3>3 DEF Walked
  <2>11. \A u \in Served(w) : u \in Thread \ {t} BY <1>3, MessFacts DEF Served
  <2>12. \A u \in Served(r) : event_info[u].clear => r.event_set[u] \cap r.set = {}
    <3> TAKE u \in Served(r)
    <3>1. CASE u = t BY <2>1, <2>8, <3>1
    <3>2. CASE u # t
      <4>1. u \in Served(w) /\ r.event_set[u] = w.event_set[u] BY <2>5, <2>8, <2>11, <3>2
      <4> QED BY <2>7, <4>1 DEF Walked
    <3> QED BY <3>1, <3>2
  <2>13. \A u, v \in Served(r) : u # v /\ event_info[u].clear /\ event_info[v].clear =>
           r.event_set[u] \cap r.event_set[v] = {}
    <3>1. ASSUME NEW u \in Served(w), event_info[u].clear PROVE r.event_set[u] \cap gets = {}
      <4>1. r.event_set[u] = w.event_set[u] BY <2>8, <2>11
      <4>2. w.event_set[u] \cap w.set = {} BY <3>1 DEF Walked
      <4> QED BY <2>2, <4>1, <4>2
    <3>2. ASSUME NEW u \in Served(w), NEW v \in Served(w), u # v, event_info[u].clear, event_info[v].clear
          PROVE  r.event_set[u] \cap r.event_set[v] = {}
      BY <2>8, <2>11, <3>2 DEF Walked
    <3> QED BY <2>5, <2>8, <3>1, <3>2
  <2>14. \A u \in Thread \ Served(r) : r.event_set[u] = event_set[u] BY <2>5, <2>8 DEF Walked
  <2>15. r.k.cur = k.cur /\ r.k.err = k.err BY <2>4 DEF Walked
  <2>16. Walked(r, i + 1)
    BY <2>4, <2>6, <2>7, <2>9, <2>10, <2>12, <2>13, <2>14, <2>15 DEF Walked
  <2> QED BY <2>16 DEF r, t
<1> QED BY <1>5, <1>6

LEMMA SendWalked ==
  ASSUME MessInv, NEW new \in Named
  PROVE  Walked(SendTo(new), Waiters)
<1> DEFINE n == Waiters
<1>1. n \in Nat BY WaitersAre
<1>2. PICK f : /\ f = [i \in 0..n |-> IF i = 0 THEN Start(new) ELSE Deliver(f[i - 1], Waiter(i))]
               /\ SendTo(new) = f[n]
  BY <1>1, WalkSteps
<1> DEFINE P(i) == Walked(f[i], i)
           T == {i \in 0..n : ~P(i)}
<1> HIDE DEF n
<1>3. P(0)
  <2>1. f[0] = Start(new) BY <1>1, <1>2
  <2> QED BY <2>1, StartWalked
<1>4. ASSUME NEW i \in 0..n, i # n, P(i) PROVE P(i + 1)
  <2>1. i + 1 \in 0..n /\ i + 1 # 0 /\ (i + 1) - 1 = i BY <1>1, <1>4
  <2>2. f[i + 1] = Deliver(f[i], Waiter(i + 1)) BY <2>1, <1>2
  <2>3. Walked(Deliver(f[i], Waiter(i + 1)), i + 1) BY <1>4, DeliverWalked DEF n
  <2> QED BY <2>2, <2>3
<1>5. T = {}
  <2>1. SUFFICES ASSUME T # {} PROVE FALSE OBVIOUS
  <2> HIDE DEF P
  <2>0. T \in SUBSET Nat BY <1>1
  <2>2. PICK x \in T : \A y \in T : x <= y
    <3> HIDE DEF T
    <3> QED BY <2>0, <2>1, Minimum
  <2>3. x \in 0..n /\ ~P(x) BY <2>2
  <2>4. x # 0 BY <1>3, <2>3
  <2>5. x - 1 \in 0..n /\ x - 1 # n /\ x - 1 \notin T /\ (x - 1) + 1 = x BY <1>1, <2>2, <2>3, <2>4
  <2>6. P(x - 1) BY <2>5
  <2>7. P((x - 1) + 1) BY <1>4, <2>5, <2>6
  <2> QED BY <2>3, <2>5, <2>7
<1>6. P(n)
  <2>1. n \in 0..n BY <1>1
  <2> HIDE DEF P
  <2> QED BY <1>5, <2>1
<1> QED BY <1>2, <1>6 DEF n

\* A send, when the kernel holds those it has woken as ready threads.
LEMMA AfterSend ==
  ASSUME MessInv, NEW new \in Named, NEW w, w = SendTo(new), evalive = "alive",
         set' = w.set, event_set' = w.event_set, UNCHANGED <<event_info, evalive, mqvars>>,
         NEW M \in SUBSET Thread, M = Served(w), Settled(k'), Same(k, k', M),
         \A u \in M : k'.stat[u] = "READY",
         pc' \in [Thread -> Label],
         \A u \in Thread : /\ pc'[u] = pc[u] \/ {pc[u], pc'[u]} \cap HandPc = {}
                           /\ pc'[u] \in RecvPc <=> pc[u] \in RecvPc
                           /\ pc'[u] \in WaitPc <=> pc[u] \in WaitPc
                           /\ pc'[u] \in MqClosePc => pc'[u] = pc[u]
                           /\ pc'[u] \in EvClosePc => pc[u] \in EvClosePc
  PROVE  Waits' /\ MqKeeps /\ EvKeeps
<1>1. Walked(w, Waiters) BY SendWalked
<1>2. /\ Waits' /\ On(k', MqList) = On(k, MqList) \ M /\ On(k', EvList) = On(k, EvList) \ M
      /\ \A u \in M : OnNone(k', u)
  <2>1. pc'[Idle] \notin RecvPc \cup WaitPc BY ThreadAssumption, MessFacts DEF Waits
  <2> QED BY <2>1, StillWait
<1>3. \A u \in M : u \in On(k, EvList) /\ k.stat[u] = "SUSPEND" /\ pc[u] \in WaitPc
  BY MessFacts DEF Served, Waits
<1>4. MqKeeps
  <2>1. \A u \in M : u \notin On(k', MqList) /\ (pc'[u] \in RecvPc => k'.err[u] # "EOK")
    BY <1>2, <1>3, MessFacts DEF OnNone, RecvPc, WaitPc
  <2>2. \A u \in MqWoken : u \notin M /\ pc'[u] \in RecvPc BY <1>3, AsleepNotWoken, WokenAre
  <2> QED BY <2>1, <2>2, MqAside
<1>5. EvKeeps
  <2>1. EvTypeOK' BY <1>1, MessFacts DEF EvTypeOK, Walked
  <2>2. NoSatisfiedWaiter'
    <3>1. ASSUME NEW u \in On(k', EvList), Satisfies(w.set, w.event_set[u], event_info[u]) PROVE FALSE
      <4>1. u \in On(k, EvList) /\ u \notin M /\ u \in Thread BY <1>2, <3>1, MessFacts
      <4>2. PICK j \in 1..Waiters : u = Waiter(j) BY <4>1, WaitersAre
      <4>3. w.event_set[u] = event_set[u] /\ ~Satisfies(w.set, event_set[u], event_info[u])
        BY <1>1, <4>1, <4>2 DEF Walked
      <4> QED BY <3>1, <4>3
    <3> QED BY <3>1 DEF NoSatisfiedWaiter, On, Satisfies
  <2>3. Once
    <3>1. \A u \in WokenNow : u \in M BY <1>2 DEF WokenNow, On
    <3>2. /\ \A u \in M : event_info[u].clear => event_set'[u] \cap set' = {}
          /\ \A u, v \in M : u # v /\ event_info[u].clear /\ event_info[v].clear =>
               event_set'[u] \cap event_set'[v] = {}
      BY <1>1 DEF Walked
    <3> QED BY <3>1, <3>2 DEF Once
  <2>4. EvClosing' BY EvOpen
  <2> QED BY <2>1, <2>2, <2>3, <2>4 DEF EvKeeps
<1> QED BY <1>2, <1>4, <1>5

LEMMA EvSendStep ==
  ASSUME MessInv, NEW t \in Thread, NEW new \in Named, EvSend(t, new), UNCHANGED mqvars
  PROVE  Goes
<1> DEFINE w == SendTo(new)
           M == Served(w)
<1>1. isr = "none" /\ k.cur = t /\ pc[t] = "run" /\ k.stat[t] = "READY"
  BY OnProcessor DEF EvSend, Calls
<1>2. PICK l \in {"run", "sched"} :
        /\ Goto(t, l) /\ evalive = "alive" /\ k' = w.k /\ set' = w.set /\ event_set' = w.event_set
        /\ UNCHANGED <<isr, timeout, event_info, evalive, mqvars>>
  BY DEF EvSend
<1>3. Walked(w, Waiters) BY SendWalked
<1> HIDE DEF w
<1>4. w = SendTo(new) /\ M = Served(w) BY DEF w
<1>5. M \in SUBSET Thread /\ t \notin M /\ \A u \in M : k'.stat[u] = "READY"
  BY <1>1, <1>2, MessFacts DEF Served
<1>6. Settled(k') /\ Same(k, k', M) /\ k'.cur = k.cur BY <1>2, <1>3 DEF Walked
<1>7. pc' \in [Thread -> Label] /\ \A u \in Thread : pc'[u] = IF u = t THEN l ELSE pc[u]
  BY <1>2, MoveTo DEF Label
<1> HIDE DEF M
<1>8. Waits' /\ MqKeeps /\ EvKeeps
  <2>1. \A u \in Thread : /\ pc'[u] = pc[u] \/ {pc[u], pc'[u]} \cap HandPc = {}
                          /\ pc'[u] \in RecvPc <=> pc[u] \in RecvPc
                          /\ pc'[u] \in WaitPc <=> pc[u] \in WaitPc
                          /\ pc'[u] \in MqClosePc => pc'[u] = pc[u]
                          /\ pc'[u] \in EvClosePc => pc[u] \in EvClosePc
    BY <1>1, <1>7 DEF HandPc, FilledPc, LookPc, RecvPc, WaitPc, MqClosePc, EvClosePc
  <2> QED BY <1>2, <1>4, <1>5, <1>6, <1>7, <2>1, AfterSend
<1>9. Runner' BY <1>1, <1>5, <1>6 DEF Runner, Same
<1> QED BY <1>1, <1>2, <1>6, <1>8, <1>9, Together, MessFacts

LEMMA EvIsrSendStep ==
  ASSUME MessInv, NEW new \in Named, EvIsrSend(new), UNCHANGED mqvars
  PROVE  Goes
<1> DEFINE w == SendTo(new)
           M == Served(w)
<1>1. /\ isr = "none" /\ evalive = "alive" /\ set' = w.set /\ event_set' = w.event_set
      /\ k' = IF w.k # k THEN rt_schedule(w.k) ELSE k
      /\ UNCHANGED <<isr, pc, timeout, event_info, evalive, mqvars>>
  BY DEF EvIsrSend, Woke
<1>2. Walked(w, Waiters) BY SendWalked
<1> HIDE DEF w
<1>3. w = SendTo(new) /\ M = Served(w) BY DEF w
<1>4. M \in SUBSET Thread /\ \A u \in M : w.k.stat[u] = "READY" BY MessFacts DEF Served
<1> HIDE DEF M
<1>5. Settled(w.k) /\ Same(k, w.k, M) BY <1>2, <1>3 DEF Walked
<1>6. /\ Settled(k') /\ Same(k, k', M) /\ (k' = k \/ Serves(k'))
      /\ \A u \in M : k'.stat[u] = "READY"
  <2>1. CASE w.k = k BY <1>1, <1>4, <1>5, <2>1
  <2>2. CASE w.k # k
    <3> DEFINE s == w.k
               r == rt_schedule(s)
    <3>1. Settled(r) /\ Same(s, r, {}) /\ Serves(r) BY <1>5, ScheduleOK
    <3>2. k' = r BY <1>1, <2>2
    <3>3. Settled(s) /\ Same(k, s, M) /\ \A u \in M : s.stat[u] = "READY" BY <1>4, <1>5
    <3> HIDE DEF r, s
    <3>4. Same(k, r, M) BY <3>1, <3>3 DEF Same
    <3>5. \A u \in M : r.stat[u] = "READY" BY <1>4, <3>1, <3>3 DEF Same
    <3> QED BY <3>1, <3>2, <3>4, <3>5
  <2> QED BY <2>1, <2>2
<1>7. Waits' /\ MqKeeps /\ EvKeeps
  <2>1. pc' \in [Thread -> Label] BY <1>1, MessFacts
  <2>2. \A u \in Thread : pc'[u] = pc[u] BY <1>1
  <2> QED BY <1>1, <1>3, <1>4, <1>6, <2>1, <2>2, AfterSend
<1>8. Runner' BY <1>1, <1>6 DEF MessInv, Runner, Serves
<1> QED BY <1>1, <1>6, <1>7, <1>8, Together, MessFacts

-----------------------------------------------------------------------------
(* All steps.                                                              *)

LEMMA FirstState == Init => MessInv /\ MqAbstract!Init
<1> SUFFICES ASSUME Init PROVE MessInv /\ MqAbstract!Init OBVIOUS
<1> USE DEF Init, IpcInit, MqInit, EvInit
<1>1. /\ KernelOK(k) /\ k.nest = 0 /\ k.cur \in Thread /\ k.err \in [Thread -> {"EOK"}]
      /\ \A t \in Thread : k.stat[t] = "READY" /\ ~Off(k, t)
  BY BootedOK, IpcAssumption
<1>2. Settled(k) BY <1>1 DEF Settled, Resting
<1>3. \A w \in {MqList, EvList} : On(k, w) = {} /\ k.list[w] = <<>>
  <2> TAKE w \in {MqList, EvList}
  <2>1. w \in WaitList BY MqAssumption, EvAssumption
  <2>2. On(k, w) \subseteq Thread /\ (k.list[w] = <<>> <=> On(k, w) = {})
    BY <1>2, <2>1, SettledFields
  <2>3. \A t \in Thread : t \notin On(k, w) BY <1>1, <1>2, <2>1, ReadyOnNone DEF OnNone
  <2> QED BY <2>2, <2>3
<1>4. Runner BY <1>1 DEF Runner
<1>5. Waits BY <1>1, <1>3, ThreadAssumption DEF Waits, RecvPc, WaitPc
<1>6. Pool /\ Queued = <<>>
  <2>1. PICK G : Split(mq, <<>>, G) /\ ToSet(G) = Node BY NewQueueOK
  <2>2. Queued = <<>> /\ Free = G BY <2>1, SplitChains DEF Split, Queued, Free
  <2>3. Owned(mq, msg, Queued, Free) BY <2>1, <2>2 DEF Owned
  <2>4. Hands BY DEF Hands, HandPc, FilledPc, LookPc
  <2> QED BY <2>2, <2>3, <2>4 DEF Pool, Label
<1>7. MqNoStrandedReceiver BY <1>3 DEF MqNoStrandedReceiver
<1>8. MqClosing
  <2>1. "run" \notin MqClosePc BY DEF MqClosePc
  <2> QED BY <2>1 DEF MqClosing
<1>9. EvClosing
  <2>1. "run" \notin EvClosePc BY DEF EvClosePc
  <2> QED BY <2>1 DEF EvClosing
<1>10. NoSatisfiedWaiter BY <1>3 DEF NoSatisfiedWaiter, On
<1>11. TypeOK
  <2>1. k \in KernelState BY <1>1 DEF KernelOK
  <2>2. timeout \in [Thread -> Timeout] BY BoundAssumption DEF Timeout
  <2>3. mq \in QueueState BY <1>6, PoolFacts
  <2>4. pc \in [Thread -> Label] BY DEF Label
  <2>5. EvTypeOK BY DEF EvTypeOK, Option, NoOption
  <2> QED BY <2>1, <2>2, <2>3, <2>4, <2>5 DEF TypeOK, IpcTypeOK, MqTypeOK, QueueState, Label
<1>12. MqAbstract!Init
  <2>1. \A t \in Thread : pc[t] = "run" OBVIOUS
  <2>2. [t \in Thread |->
           [message |-> IF pc[t] \in {"mq_link", "mq_link_urgent"} THEN mq.data[msg[t]] ELSE Null,
            urgent |-> pc[t] = "mq_link_urgent"]]
        = [t \in Thread |-> MqAbstract!NotSending]
    BY <2>1 DEF MqAbstract!NotSending
  <2>3. [t \in Thread |-> IF pc[t] \in {"mq_copy_out", "mq_put_free"} THEN mq.data[msg[t]] ELSE Null]
        = [t \in Thread |-> Null]
    BY <2>1
  <2> QED BY <1>6, <2>2, <2>3 DEF MqAbstract!Init
<1> QED BY <1>2, <1>4, <1>5, <1>6, <1>7, <1>8, <1>9, <1>10, <1>11, <1>12 DEF MessInv

LEMMA EachStep == MessInv /\ [Next]_vars => Goes
<1> SUFFICES ASSUME MessInv, [Next]_vars PROVE Goes OBVIOUS
<1>1. ASSUME NEW t \in Thread, MqStep(t), UNCHANGED evvars PROVE Goes
  <2>1. CASE \E urgent \in BOOLEAN : MqSend(t, urgent) BY <1>1, <2>1, MqSendStep
  <2>2. CASE \E m \in Msg : MqCopy(t, m) BY <1>1, <2>2, MqCopyStep
  <2>3. CASE MqLink(t) BY <1>1, <2>3, MqLinkStep
  <2>4. CASE \E time \in Timeout : MqRecv(t, time) BY <1>1, <2>4, MqRecvStep
  <2>5. CASE MqRecvSchedule(t)
    BY <1>1, <2>5, ScheduleTo DEF MqRecvSchedule, Label, MqLabel, HandPc, FilledPc, LookPc,
      RecvPc, WaitPc, MqClosePc, EvClosePc
  <2>6. CASE MqRecvBack(t) BY <1>1, <2>6, MqRecvBackStep
  <2>7. CASE MqCopyOut(t) BY <1>1, <2>7, MqCopyOutStep
  <2>8. CASE MqPutFree(t) BY <1>1, <2>8, MqPutFreeStep
  <2>9. CASE MqReset(t) BY <1>1, <2>9, MqResetStep
  <2>10. CASE MqDelete(t) BY <1>1, <2>10, MqDeleteStep
  <2>11. CASE MqDeleteResume(t) BY <1>1, <2>11, MqDeleteResumeStep
  <2>12. CASE MqDeleteObject(t) BY <1>1, <2>12, MqDeleteObjectStep
  <2>13. CASE MqCreate(t) BY <1>1, <2>13, MqCreateStep
  <2> QED BY <1>1, <2>1, <2>2, <2>3, <2>4, <2>5, <2>6, <2>7, <2>8, <2>9, <2>10, <2>11, <2>12, <2>13
          DEF MqStep
<1>2. ASSUME NEW t \in Thread, EvStep(t), UNCHANGED mqvars PROVE Goes
  <2>1. CASE \E new \in Named : EvSend(t, new) BY <1>2, <2>1, EvSendStep
  <2>2. CASE \E wants \in Named, option \in Option : EvTake(t, wants, option)
    BY <1>2, <2>2, EvTakeStep
  <2>3. CASE \E wants \in Named, option \in Option, time \in Timeout \ {0} :
               EvWait(t, wants, option, time)
    BY <1>2, <2>3, EvWaitStep
  <2>4. CASE EvSchedule(t)
    BY <1>2, <2>4, ScheduleTo DEF EvSchedule, Label, EvLabel, HandPc, FilledPc, LookPc,
      RecvPc, WaitPc, MqClosePc, EvClosePc
  <2>5. CASE EvBack(t) BY <1>2, <2>5, EvBackStep
  <2>6. CASE EvReset(t) BY <1>2, <2>6, EvResetStep
  <2>7. CASE EvDelete(t) BY <1>2, <2>7, EvDeleteStep
  <2>8. CASE EvDeleteResume(t) BY <1>2, <2>8, EvDeleteResumeStep
  <2>9. CASE EvDeleteObject(t) BY <1>2, <2>9, EvDeleteObjectStep
  <2>10. CASE EvCreate(t) BY <1>2, <2>10, EvCreateStep
  <2> QED BY <1>2, <2>1, <2>2, <2>3, <2>4, <2>5, <2>6, <2>7, <2>8, <2>9, <2>10 DEF EvStep
<1>3. ASSUME NEW t \in Thread, Schedule(t) PROVE Goes
  BY <1>3, ScheduleTo DEF Schedule, Label, HandPc, FilledPc, LookPc, RecvPc, WaitPc, MqClosePc, EvClosePc
<1>4. ASSUME MqInterrupt, UNCHANGED evvars PROVE Goes BY <1>4, MqIsrSendStep DEF MqInterrupt
<1>5. ASSUME EvInterrupt, UNCHANGED mqvars PROVE Goes BY <1>5, EvIsrSendStep DEF EvInterrupt
<1>6. ASSUME UNCHANGED vars PROVE Goes
  <2>1. Settled(k') /\ Same(k, k', {}) /\ UNCHANGED <<mqvars, evvars>> BY <1>6, MessFacts DEF vars, Same
  <2>2. pc' \in [Thread -> Label] /\ \A u \in Thread : pc'[u] = pc[u]
    BY <1>6, MessFacts DEF vars
  <2>3. Waits' /\ MqKeeps /\ EvKeeps BY <2>1, <2>2, BothAside
  <2>4. Runner' /\ (isr' = "timer" => k'.timers # <<>>) BY <1>6 DEF vars, MessInv, Runner
  <2> QED BY <1>6, <2>1, <2>3, <2>4, Together, MessFacts DEF vars
<1> QED BY <1>1, <1>2, <1>3, <1>4, <1>5, <1>6, TickStep, TimerCheckStep DEF Next

-----------------------------------------------------------------------------
(* Theorems, for any instance.                                             *)

\* The invariant that carries the others: who is suspended sleeps in a call
\* and on the list of its object, the pool is split between the two chains and
\* the hands of calls, and while an object is deleted nobody else uses it.
THEOREM MessagingInvariance == Spec => []MessInv
<1>1. Init => MessInv BY FirstState
<1>2. MessInv /\ [Next]_vars => MessInv' BY EachStep DEF Goes
<1> QED BY <1>1, <1>2, PTL DEF Spec

\* Whatever threads and handlers do, the pointers of the queue point to nodes
\* of its pool or are RT_NULL, and entry stays between 0 and max_msgs.
THEOREM MessagingTypeCorrect == Spec => []TypeOK
<1>1. MessInv => TypeOK BY DEF MessInv
<1> QED BY <1>1, MessagingInvariance, PTL

\* No node of the pool is lost or chained twice, however the halves of
\* rt_mq_send, rt_mq_urgent and rt_mq_recv interleave.
THEOREM EveryNodeAccounted == Spec => []NodesAccounted
<1>1. MessInv => NodesAccounted BY NodesCounted DEF MessInv
<1> QED BY <1>1, MessagingInvariance, PTL

\* No receiver sleeps in rt_mq_recv while there are more messages than the
\* woken receivers can take.
THEOREM NoReceiverStranded == Spec => []MqNoStrandedReceiver
<1>1. MessInv => MqNoStrandedReceiver BY DEF MessInv
<1> QED BY <1>1, MessagingInvariance, PTL

\* The chains implement a bounded queue: a message is handed out once, whole,
\* in the order of the sends, an urgent one first.
THEOREM MqRefines == Spec => MqImplementsQueue
<1>1. Init => MqAbstract!Init BY FirstState
<1>2. MessInv /\ [Next]_vars => [MqAbstract!Next]_MqAbstract!vars BY EachStep DEF Goes, Refines
<1> QED BY <1>1, <1>2, MessagingInvariance, PTL DEF Spec, MqImplementsQueue, MqAbstract!Spec

\* rt_event_send leaves nobody asleep in rt_event_recv on flags that are there.
THEOREM NobodySleepsSatisfied == Spec => []NoSatisfiedWaiter
<1>1. MessInv => NoSatisfiedWaiter BY DEF MessInv
<1> QED BY <1>1, MessagingInvariance, PTL

\* One walk of rt_event_send hands a flag that a waiter clears to no other
\* waiter that clears it, and does not leave it in the set.
THEOREM FlagsClearedOnce == Spec => ClearedOnce
<1> DEFINE A == \A t, u \in WokenNow :
                  event_info[t].clear =>
                    /\ event_set'[t] \cap set' = {}
                    /\ t # u /\ event_info[u].clear => event_set'[t] \cap event_set'[u] = {}
<1>1. MessInv /\ [Next]_vars => [A]_<<k, evvars>> BY EachStep DEF Goes, Once
<1> QED BY <1>1, MessagingInvariance, PTL DEF Spec, ClearedOnce
=============================================================================
