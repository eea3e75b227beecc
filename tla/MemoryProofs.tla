---------------------------- MODULE MemoryProofs -----------------------------
(***************************************************************************)
(* The heap and the memory pool of a driver: whichever threads and         *)
(* handlers allocate, resize and free at the same time, every block is     *)
(* accounted for, and only rt_realloc loses the lowest free block, for a   *)
(* heap and a pool of any size.                                            *)
(***************************************************************************)
EXTENDS DriverIpc, KernelProofs

-----------------------------------------------------------------------------
(* The headers.                                                            *)

Rec(h) == h = [next |-> h.next, prev |-> h.prev, used |-> h.used,
               lfree |-> h.lfree, used_mem |-> h.used_mem]

\* The links lead through the headers from the first to the last and back.
Chain(h) ==
  /\ Rec(h)
  /\ Header(h) \subseteq Offset /\ {0, HeapEnd} \subseteq Header(h)
  /\ h.next \in [Header(h) -> Header(h)] /\ h.prev \in [Header(h) -> Offset]
  /\ h.used \in [Header(h) -> BOOLEAN]
  /\ h.lfree \in Header(h) /\ h.prev[0] = 0 /\ h.used[HeapEnd] /\ h.next[HeapEnd] = HeapEnd
  /\ \A p \in Header(h) \ {HeapEnd} :
       /\ h.next[p] > p
       /\ \A q \in Header(h) : q <= p \/ q >= h.next[p]
       /\ h.next[p] # HeapEnd => h.prev[h.next[p]] = p

\* Free blocks side by side are joined.
Joined(h) ==
  \A p \in Header(h) \ {HeapEnd} : ~h.used[p] /\ h.next[p] # HeapEnd => h.used[h.next[p]]

UsedIn(h) == {p \in Header(h) \ {HeapEnd} : h.used[p]}

LEMMA Sizes ==
  /\ HeapSize \in Nat /\ MemSize \in Nat \ {0} /\ MinSizeAligned \in Nat \ {0} /\ MinSize \in Nat
  /\ HeapSize >= MinSizeAligned /\ HeapEnd \in Nat /\ HeapEnd = HeapSize + MemSize
  /\ HeapEnd > 0 /\ Offset = 0..HeapEnd /\ Null = -1
  BY HeapAssumption DEF HeapEnd, Offset, Null

LEMMA ChainFields ==
  ASSUME NEW h, Chain(h)
  PROVE  /\ h.next \in [Header(h) -> Header(h)] /\ h.prev \in [Header(h) -> Offset]
         /\ h.used \in [Header(h) -> BOOLEAN] /\ h.lfree \in Header(h)
         /\ h.prev[0] = 0 /\ h.used[HeapEnd] /\ h.next[HeapEnd] = HeapEnd
         /\ 0 \in Header(h) /\ HeapEnd \in Header(h) /\ HeapEnd \in Nat
         /\ \A p \in Header(h) : p \in Nat /\ p <= HeapEnd /\ h.next[p] \in Nat
         /\ \A p \in Header(h) \ {HeapEnd} :
              h.next[p] > p /\ \A q \in Header(h) : q <= p \/ q >= h.next[p]
         /\ \A p \in Header(h) \ {HeapEnd} : h.next[p] # HeapEnd => h.prev[h.next[p]] = p
<1>1. Header(h) \subseteq 0..HeapEnd /\ HeapEnd \in Nat BY Sizes DEF Chain
<1>2. \A p \in Header(h) : p \in Nat /\ p <= HeapEnd BY <1>1
<1> QED BY <1>1, <1>2 DEF Chain

LEMMA RecFields ==
  ASSUME NEW a, NEW b, NEW c, NEW d, NEW e
  PROVE  LET h == [next |-> a, prev |-> b, used |-> c, lfree |-> d, used_mem |-> e]
         IN  Rec(h) /\ h.next = a /\ h.prev = b /\ h.used = c /\ h.lfree = d /\ h.used_mem = e
  BY DEF Rec

\* Every header but the first is the next of one before it.
LEMMA Predecessor ==
  ASSUME NEW h, Chain(h), NEW m \in Header(h), m # 0
  PROVE  \E p \in Header(h) \ {HeapEnd} : p < m /\ h.next[p] = m
<1> DEFINE T == {HeapEnd - q : q \in {x \in Header(h) : x < m}}
<1>1. /\ 0 \in Header(h) /\ HeapEnd \in Nat
      /\ \A p \in Header(h) : p \in Nat /\ p <= HeapEnd
      /\ h.next \in [Header(h) -> Header(h)]
      /\ \A p \in Header(h) \ {HeapEnd} :
           h.next[p] > p /\ \A q \in Header(h) : q <= p \/ q >= h.next[p]
  BY ChainFields
<1>2. T \subseteq Nat /\ T # {}
  <2>1. \A q \in Header(h) : HeapEnd - q \in Nat BY <1>1
  <2>2. 0 < m BY <1>1
  <2> QED BY <1>1, <2>1, <2>2
<1>3. PICK x \in T : \A y \in T : x <= y
  <2> HIDE DEF T
  <2> QED BY <1>2, Minimum
<1>4. PICK p \in Header(h) : p < m /\ x = HeapEnd - p OBVIOUS
<1>5. \A q \in Header(h) : q < m => q <= p
  <2> TAKE q \in Header(h)
  <2>1. q < m => HeapEnd - p <= HeapEnd - q BY <1>3, <1>4
  <2> QED BY <1>1, <2>1
<1>6. p # HeapEnd BY <1>1, <1>4
<1>7. h.next[p] \in Header(h) /\ h.next[p] > p /\ (m <= p \/ m >= h.next[p]) BY <1>1, <1>6
<1>8. h.next[p] = m
  <2>1. p \in Nat /\ m \in Nat /\ h.next[p] \in Nat BY <1>1, <1>7
  <2>2. ~(h.next[p] < m) BY <1>5, <1>7, <2>1
  <2> QED BY <1>4, <1>7, <2>1, <2>2
<1> QED BY <1>4, <1>6, <1>8

\* Header q is taken out behind p.
LEMMA JoinOK ==
  ASSUME NEW h, Chain(h), NEW p \in Header(h) \ {HeapEnd}, NEW q, q = h.next[p], q # HeapEnd
  PROVE  LET r == Join(h, p, q)
             n == h.next[q]
         IN  /\ Chain(r) /\ Header(r) = Header(h) \ {q} /\ p # q /\ n # q /\ n \in Header(r)
             /\ \A x \in Header(r) : r.used[x] = h.used[x]
             /\ r.next[p] = n /\ \A x \in Header(r) \ {p} : r.next[x] = h.next[x]
             /\ r.prev[n] = p /\ \A x \in Header(r) \ {n} : r.prev[x] = h.prev[x]
             /\ r.used_mem = h.used_mem /\ r.lfree = IF h.lfree = q THEN p ELSE h.lfree
<1> DEFINE n == h.next[q]
           r == Join(h, p, q)
           next == [h.next EXCEPT ![p] = n]
           prev == [h.prev EXCEPT ![n] = p]
           H == Header(h)
<1>1. /\ 0 \in H /\ HeapEnd \in H /\ HeapEnd \in Nat
      /\ \A x \in H : x \in Nat /\ x <= HeapEnd /\ h.next[x] \in Nat
      /\ h.next \in [H -> H] /\ h.prev \in [H -> Offset] /\ h.used \in [H -> BOOLEAN] /\ h.lfree \in H
      /\ \A x \in H \ {HeapEnd} : h.next[x] > x /\ \A y \in H : y <= x \/ y >= h.next[x]
      /\ \A x \in H \ {HeapEnd} : h.next[x] # HeapEnd => h.prev[h.next[x]] = x
      /\ H \subseteq Offset /\ h.next[HeapEnd] = HeapEnd /\ h.prev[0] = 0 /\ h.used[HeapEnd]
  BY ChainFields DEF Chain
<1>2. q \in H /\ n \in H /\ p \in H /\ p < q /\ q < n /\ p \in Nat /\ q \in Nat /\ n \in Nat
  BY <1>1
<1>3. /\ r = [next |-> Drop(next, q), prev |-> Drop(prev, q), used |-> Drop(h.used, q),
              lfree |-> IF h.lfree = q THEN p ELSE h.lfree, used_mem |-> h.used_mem]
  BY DEF Join
<1>4. /\ Rec(r) /\ r.next = Drop(next, q) /\ r.prev = Drop(prev, q) /\ r.used = Drop(h.used, q)
      /\ r.lfree = (IF h.lfree = q THEN p ELSE h.lfree) /\ r.used_mem = h.used_mem
  <2> HIDE DEF r, next, prev, n
  <2> QED BY <1>3, RecFields
<1> HIDE DEF r
<1>5. DOMAIN next = H /\ DOMAIN prev = H /\ DOMAIN h.used = H BY <1>1
<1>6. Header(r) = H \ {q} BY <1>4, <1>5 DEF Header, Drop
<1>7. /\ \A x \in H \ {q} : r.next[x] = next[x] /\ r.prev[x] = prev[x] /\ r.used[x] = h.used[x]
      /\ DOMAIN r.next = H \ {q} /\ DOMAIN r.prev = H \ {q} /\ DOMAIN r.used = H \ {q}
      /\ r.next = [x \in H \ {q} |-> r.next[x]] /\ r.prev = [x \in H \ {q} |-> r.prev[x]]
      /\ r.used = [x \in H \ {q} |-> r.used[x]]
  BY <1>4, <1>5 DEF Drop
<1>8. /\ r.next[p] = n /\ \A x \in H \ {q, p} : r.next[x] = h.next[x]
      /\ r.prev[n] = p /\ \A x \in H \ {q, n} : r.prev[x] = h.prev[x]
  <2>1. next[p] = n /\ \A x \in H \ {q, p} : next[x] = h.next[x] BY <1>1, <1>2
  <2>2. prev[n] = p /\ \A x \in H \ {q, n} : prev[x] = h.prev[x] BY <1>1, <1>2
  <2>3. p \in H \ {q} /\ n \in H \ {q} BY <1>2
  <2> HIDE DEF next, prev, n
  <2> QED BY <1>7, <2>1, <2>2, <2>3
<1> HIDE DEF next, prev, n
<1>9. \A x \in H \ {q, p} : h.next[x] # q
  <2> SUFFICES ASSUME NEW x \in H \ {q, p}, h.next[x] = q PROVE FALSE OBVIOUS
  <2>1. x # HeapEnd BY <1>1
  <2>2. h.prev[q] = x /\ h.prev[q] = p BY <1>1, <1>2, <2>1
  <2> QED BY <2>2
<1>10. \A x \in H \ {q} : /\ r.next[x] \in H \ {q} /\ r.prev[x] \in Offset
                         /\ r.used[x] \in BOOLEAN
  <2>1. \A x \in H \ {q} : r.next[x] \in H \ {q} BY <1>1, <1>2, <1>8, <1>9
  <2>2. \A x \in H \ {q} : r.prev[x] \in Offset BY <1>1, <1>2, <1>8
  <2>3. \A x \in H \ {q} : r.used[x] \in BOOLEAN BY <1>1, <1>7
  <2> QED BY <2>1, <2>2, <2>3
<1>11. /\ r.next \in [H \ {q} -> H \ {q}] /\ r.prev \in [H \ {q} -> Offset]
       /\ r.used \in [H \ {q} -> BOOLEAN]
  <2>1. r.next \in [H \ {q} -> H \ {q}] BY <1>7, <1>10
  <2>2. r.prev \in [H \ {q} -> Offset] BY <1>7, <1>10
  <2>3. r.used \in [H \ {q} -> BOOLEAN] BY <1>7, <1>10
  <2> QED BY <2>1, <2>2, <2>3
<1>12. /\ r.lfree \in H \ {q} /\ r.prev[0] = 0 /\ r.used[HeapEnd] /\ r.next[HeapEnd] = HeapEnd
       /\ {0, HeapEnd} \subseteq H \ {q}
  <2>1. 0 \in H \ {q} /\ HeapEnd \in H \ {q} /\ 0 # n /\ HeapEnd # p BY <1>1, <1>2
  <2>2. r.lfree \in H \ {q} BY <1>1, <1>2, <1>4
  <2>3. r.prev[0] = 0 /\ r.next[HeapEnd] = HeapEnd BY <1>1, <1>8, <2>1
  <2>4. r.used[HeapEnd] BY <1>1, <1>7, <2>1
  <2> QED BY <2>1, <2>2, <2>3, <2>4
<1>13. ASSUME NEW x \in (H \ {q}) \ {HeapEnd}
       PROVE  /\ r.next[x] > x /\ \A y \in H \ {q} : y <= x \/ y >= r.next[x]
              /\ r.next[x] # HeapEnd => r.prev[r.next[x]] = x
  <2>1. CASE x = p
    <3>1. \A y \in H \ {q} : y <= p \/ y >= n
      <4> TAKE y \in H \ {q}
      <4>1. (y <= p \/ y >= q) /\ (y <= q \/ y >= h.next[q]) /\ y \in Nat BY <1>1, <1>2
      <4> QED BY <1>2, <4>1 DEF n
    <3> QED BY <1>2, <1>8, <2>1, <3>1
  <2>2. CASE x # p
    <3>1. /\ h.next[x] > x /\ (\A y \in H : y <= x \/ y >= h.next[x]) /\ r.next[x] = h.next[x]
          /\ h.next[x] # HeapEnd => h.prev[h.next[x]] = x
      BY <1>1, <1>8, <2>2
    <3>2. r.next[x] # HeapEnd => r.next[x] # n
      <4> SUFFICES ASSUME h.next[x] = n, n # HeapEnd PROVE FALSE BY <3>1
      <4>1. h.prev[n] = x /\ h.prev[n] = q BY <1>1, <1>2, <3>1 DEF n
      <4> QED BY <4>1
    <3>3. r.next[x] # HeapEnd => r.prev[r.next[x]] = h.prev[r.next[x]] BY <1>8, <1>10, <3>2
    <3> QED BY <3>1, <3>3
  <2> QED BY <2>1, <2>2
<1>14. Chain(r)
  <2>1. H \ {q} \subseteq Offset BY <1>1
  <2> QED BY <1>4, <1>6, <1>11, <1>12, <1>13, <2>1 DEF Chain
<1>15. n \in Header(r) /\ p \in Header(r) /\ p # q /\ n # q BY <1>2, <1>6
<1> QED BY <1>4, <1>6, <1>7, <1>8, <1>14, <1>15 DEF n, r

\* The same links with other marks.
LEMMA RemarkOK ==
  ASSUME NEW h, Chain(h), NEW r, Rec(r), r.next = h.next, r.prev = h.prev,
         r.used \in [Header(h) -> BOOLEAN], r.used[HeapEnd], r.lfree \in Header(h)
  PROVE  Chain(r) /\ Header(r) = Header(h)
<1>1. Header(r) = Header(h) BY DEF Header
<1> QED BY <1>1 DEF Chain

\* A free block at p2 behind the one at p.
LEMMA SplitOK ==
  ASSUME NEW h, Chain(h), NEW p \in Header(h) \ {HeapEnd}, NEW p2 \in Nat,
         p < p2, p2 < h.next[p]
  PROVE  LET r == Split(h, p, p2)
         IN  /\ Chain(r) /\ Header(r) = Header(h) \cup {p2} /\ p2 \notin Header(h)
             /\ ~r.used[p2] /\ \A x \in Header(h) : r.used[x] = h.used[x]
             /\ r.next[p] = p2 /\ r.next[p2] = h.next[p]
             /\ \A x \in Header(h) \ {p} : r.next[x] = h.next[x]
             /\ r.used_mem = h.used_mem /\ r.lfree = h.lfree
<1> DEFINE n == h.next[p]
           r == Split(h, p, p2)
           next == [h.next EXCEPT ![p] = p2]
           prev == IF n = HeapEnd THEN h.prev ELSE [h.prev EXCEPT ![n] = p2]
           H == Header(h)
           G == H \cup {p2}
<1>1. /\ 0 \in H /\ HeapEnd \in H /\ HeapEnd \in Nat
      /\ \A x \in H : x \in Nat /\ x <= HeapEnd /\ h.next[x] \in Nat
      /\ h.next \in [H -> H] /\ h.prev \in [H -> Offset] /\ h.used \in [H -> BOOLEAN] /\ h.lfree \in H
      /\ \A x \in H \ {HeapEnd} : h.next[x] > x /\ \A y \in H : y <= x \/ y >= h.next[x]
      /\ \A x \in H \ {HeapEnd} : h.next[x] # HeapEnd => h.prev[h.next[x]] = x
      /\ H \subseteq Offset /\ h.next[HeapEnd] = HeapEnd /\ h.prev[0] = 0 /\ h.used[HeapEnd]
      /\ Rec(h) /\ Offset = 0..HeapEnd
  BY ChainFields, Sizes DEF Chain
<1>2. /\ p2 \notin H /\ n \in H /\ p \in H /\ p \in Nat /\ n \in Nat /\ p2 \in Offset
      /\ p2 # n /\ p # n /\ p # p2
  <2>1. p \in H /\ n \in H /\ p \in Nat /\ n \in Nat /\ n <= HeapEnd BY <1>1
  <2>2. \A y \in H : y <= p \/ y >= n BY <1>1
  <2>3. p2 \notin H /\ p2 \in 0..HeapEnd BY <1>1, <2>1, <2>2
  <2>4. p < p2 /\ p2 < n OBVIOUS
  <2>5. Offset = 0..HeapEnd BY <1>1
  <2>6. p2 \in Offset BY <2>3, <2>5
  <2> HIDE DEF n
  <2>7. p2 # n /\ p # n /\ p # p2 BY ONLY <2>1, <2>4, p2 \in Nat
  <2> QED BY ONLY <2>1, <2>3, <2>6, <2>7
<1>3. r = [next |-> Extend(next, p2, n), prev |-> Extend(prev, p2, p),
           used |-> Extend(h.used, p2, FALSE), lfree |-> h.lfree, used_mem |-> h.used_mem]
  <2> DEFINE a == h.next
             b == h.prev
             c == h.used
             d == h.lfree
             e == h.used_mem
  <2>1. h = [next |-> a, prev |-> b, used |-> c, lfree |-> d, used_mem |-> e] BY <1>1 DEF Rec
  <2>2. r = [h EXCEPT !.next = Extend(next, p2, n), !.prev = Extend(prev, p2, p),
                      !.used = Extend(c, p2, FALSE)]
    BY DEF Split
  <2> HIDE DEF a, b, c, d, e, next, prev, r, n
  <2>3. r = [next |-> Extend(next, p2, n), prev |-> Extend(prev, p2, p),
             used |-> Extend(c, p2, FALSE), lfree |-> d, used_mem |-> e]
    BY <2>1, <2>2
  <2> QED BY <2>3 DEF c, d, e
<1>4. /\ Rec(r) /\ r.next = Extend(next, p2, n) /\ r.prev = Extend(prev, p2, p)
      /\ r.used = Extend(h.used, p2, FALSE) /\ r.lfree = h.lfree /\ r.used_mem = h.used_mem
  <2> HIDE DEF r, next, prev, n
  <2> QED BY <1>3, RecFields
<1> HIDE DEF r
<1>5. /\ DOMAIN next = H /\ DOMAIN prev = H /\ DOMAIN h.used = H
      /\ next[p] = p2 /\ \A x \in H \ {p} : next[x] = h.next[x]
      /\ n # HeapEnd => prev[n] = p2
      /\ \A x \in H : x # n \/ n = HeapEnd => prev[x] = h.prev[x]
  BY <1>1, <1>2
<1> HIDE DEF next, prev
<1>0. DOMAIN next = H /\ DOMAIN prev = H /\ DOMAIN h.used = H BY <1>5
<1>14. /\ DOMAIN r.next = G /\ r.next = [x \in G |-> r.next[x]]
       /\ r.next[p2] = n /\ \A x \in H \ {p2} : r.next[x] = next[x]
  <2> HIDE DEF H, n
  <2> QED BY <1>0, <1>4 DEF Extend
<1>15. /\ DOMAIN r.prev = G /\ r.prev = [x \in G |-> r.prev[x]]
       /\ r.prev[p2] = p /\ \A x \in H \ {p2} : r.prev[x] = prev[x]
  <2> HIDE DEF H, n
  <2> QED BY <1>0, <1>4 DEF Extend
<1>16. /\ DOMAIN r.used = G /\ r.used = [x \in G |-> r.used[x]]
       /\ r.used[p2] = FALSE /\ \A x \in H \ {p2} : r.used[x] = h.used[x]
  <2> DEFINE u == h.used
  <2> HIDE DEF H, n, u
  <2>1. DOMAIN u = H BY <1>0 DEF u
  <2>2. r.used = Extend(u, p2, FALSE) BY <1>4 DEF u
  <2>3. /\ DOMAIN r.used = G /\ r.used = [x \in G |-> r.used[x]]
        /\ r.used[p2] = FALSE /\ \A x \in H \ {p2} : r.used[x] = u[x]
    BY <2>1, <2>2 DEF Extend
  <2> QED BY <2>3 DEF u
<1>6. Header(r) = G BY <1>14 DEF Header
<1>7. /\ r.next = [x \in G |-> r.next[x]] /\ r.prev = [x \in G |-> r.prev[x]]
      /\ r.used = [x \in G |-> r.used[x]]
  BY <1>14, <1>15, <1>16
<1>8. /\ r.next[p2] = n /\ r.prev[p2] = p /\ r.used[p2] = FALSE
      /\ \A x \in H : r.next[x] = next[x] /\ r.prev[x] = prev[x] /\ r.used[x] = h.used[x]
  <2> HIDE DEF H
  <2> QED BY <1>2, <1>14, <1>15, <1>16
<1>9. /\ r.next[p] = p2 /\ \A x \in H \ {p} : r.next[x] = h.next[x]
      /\ n # HeapEnd => r.prev[n] = p2
      /\ \A x \in H : x # n \/ n = HeapEnd => r.prev[x] = h.prev[x]
  BY <1>2, <1>5, <1>8
<1>10. /\ r.next \in [G -> G] /\ r.prev \in [G -> Offset] /\ r.used \in [G -> BOOLEAN]
  <2>1. \A x \in G : r.next[x] \in G
    <3>1. \A x \in H : h.next[x] \in H BY <1>1
    <3> HIDE DEF H, n
    <3> QED BY <1>2, <1>8, <1>9, <3>1
  <2>2. \A x \in G : r.prev[x] \in Offset
    <3>1. \A x \in H : h.prev[x] \in Offset BY <1>1
    <3>2. p \in Offset BY <1>1, <1>2
    <3>3. \A x \in H : r.prev[x] \in Offset
      <4> HIDE DEF H, n
      <4> QED BY <1>2, <1>9, <3>1
    <3> QED BY <1>8, <3>2, <3>3
  <2>3. \A x \in G : r.used[x] \in BOOLEAN BY <1>1, <1>8
  <2> QED BY <1>7, <2>1, <2>2, <2>3
<1>11. /\ r.prev[0] = 0 /\ r.used[HeapEnd] /\ r.next[HeapEnd] = HeapEnd /\ r.lfree \in G
       /\ {0, HeapEnd} \subseteq G /\ G \subseteq Offset
  <2>1. 0 # n BY <1>1, <1>2
  <2>2. r.prev[0] = 0 BY <1>1, <1>9, <2>1
  <2>3. r.used[HeapEnd] /\ r.next[HeapEnd] = HeapEnd
    <3>1. HeapEnd \in H /\ HeapEnd # p /\ HeapEnd # p2 BY <1>1, <1>2
    <3>2. r.used[HeapEnd] = h.used[HeapEnd] /\ r.next[HeapEnd] = h.next[HeapEnd] BY <1>8, <1>9, <3>1
    <3> QED BY <1>1, <3>2
  <2>4. r.lfree \in G BY <1>1, <1>4
  <2>5. {0, HeapEnd} \subseteq G /\ G \subseteq Offset BY <1>1, <1>2
  <2> QED BY <2>2, <2>3, <2>4, <2>5
<1>12. ASSUME NEW x \in G \ {HeapEnd}
       PROVE  /\ r.next[x] > x /\ \A y \in G : y <= x \/ y >= r.next[x]
              /\ r.next[x] # HeapEnd => r.prev[r.next[x]] = x
  <2>1. CASE x = p
    <3>1. \A y \in H : y <= p \/ y >= p2 BY <1>1, <1>2
    <3>2. r.next[x] = p2 /\ r.prev[p2] = p BY <1>8, <1>9, <2>1
    <3> QED BY <1>2, <2>1, <3>1, <3>2
  <2>2. CASE x = p2
    <3>1. \A y \in H : y <= p2 \/ y >= n BY <1>1, <1>2
    <3>2. r.next[x] = n /\ (n # HeapEnd => r.prev[n] = p2) BY <1>8, <1>9, <2>2
    <3>3. p2 < n /\ p2 \in G BY DEF n
    <3>4. \A y \in G : y <= p2 \/ y >= n BY <1>2, <3>1
    <3> QED BY <2>2, <3>2, <3>3, <3>4
  <2>3. CASE x # p /\ x # p2
    <3>1. /\ x \in H /\ h.next[x] > x /\ (\A y \in H : y <= x \/ y >= h.next[x]) /\ r.next[x] = h.next[x]
          /\ h.next[x] # HeapEnd => h.prev[h.next[x]] = x
      BY <1>1, <1>9, <2>3
    <3>2. r.next[x] # HeapEnd => r.next[x] # n
      <4> SUFFICES ASSUME h.next[x] = n, n # HeapEnd PROVE FALSE BY <3>1
      <4>1. h.prev[n] = x /\ h.prev[n] = p BY <1>1, <1>2, <3>1 DEF n
      <4> QED BY <2>3, <4>1
    <3>3. r.next[x] # HeapEnd => r.prev[r.next[x]] = h.prev[r.next[x]] BY <1>1, <1>9, <3>1, <3>2
    <3>4. p2 <= x \/ p2 >= h.next[x]
      <4>1. x <= p \/ x >= n BY <1>1, <1>2, <3>1 DEF n
      <4>2. p <= x \/ p >= h.next[x] BY <1>2, <3>1
      <4>3. x \in Nat /\ h.next[x] \in Nat BY <1>1, <3>1
      <4>4. p \in Nat /\ n \in Nat /\ p < p2 /\ p2 < n BY <1>2 DEF n
      <4> HIDE DEF n
      <4>5. CASE x >= n BY <4>3, <4>4, <4>5
      <4>6. CASE p >= h.next[x] BY <4>3, <4>4, <4>6
      <4>7. CASE x <= p /\ p <= x BY <2>3, <4>3, <4>4, <4>7
      <4> QED BY <4>1, <4>2, <4>5, <4>6, <4>7
    <3> QED BY <3>1, <3>3, <3>4
  <2> QED BY <2>1, <2>2, <2>3
<1>13. Chain(r) BY <1>4, <1>6, <1>10, <1>11, <1>12 DEF Chain
<1> QED BY <1>2, <1>4, <1>6, <1>8, <1>9, <1>13 DEF n, r

\* No free block lies below lfree.
Lowest(h) ==
  /\ h.lfree = HeapEnd \/ ~h.used[h.lfree]
  /\ \A p \in Header(h) : ~h.used[p] => h.lfree <= p

\* Blocks side by side are not both free, but for a free one at m.
JoinedBut(h, m) ==
  \A p \in Header(h) \ {HeapEnd} :
    p # m /\ h.next[p] # m /\ ~h.used[p] /\ h.next[p] # HeapEnd => h.used[h.next[p]]

\* The same used blocks, of the same sizes.
SameUsed(h, r) ==
  /\ UsedIn(r) = UsedIn(h)
  /\ \A x \in UsedIn(h) : r.next[x] = h.next[x]
  /\ r.used_mem = h.used_mem

\* A free block that takes in the free one behind it.
LEMMA JoinFree ==
  ASSUME NEW h, Chain(h), NEW p \in Header(h) \ {HeapEnd}, NEW q, q = h.next[p], q # HeapEnd,
         ~h.used[p], ~h.used[q]
  PROVE  LET r == Join(h, p, q)
         IN  /\ Chain(r) /\ Header(r) = Header(h) \ {q} /\ p \in Header(r) \ {HeapEnd}
             /\ p < q /\ q # h.next[q]
             /\ SameUsed(h, r) /\ (Lowest(h) => Lowest(r)) /\ ~r.used[p]
             /\ r.next[p] = h.next[q] /\ \A x \in Header(r) \ {p} : r.next[x] = h.next[x]
             /\ \A x \in Header(r) : r.used[x] = h.used[x]
             /\ \A x \in Header(h) \ {HeapEnd} : h.next[x] = q => x = p
<1> DEFINE n == h.next[q]
           r == Join(h, p, q)
<1>1. /\ Chain(r) /\ Header(r) = Header(h) \ {q} /\ p # q /\ n # q /\ n \in Header(r)
      /\ \A x \in Header(r) : r.used[x] = h.used[x]
      /\ r.next[p] = n /\ \A x \in Header(r) \ {p} : r.next[x] = h.next[x]
      /\ r.used_mem = h.used_mem /\ r.lfree = (IF h.lfree = q THEN p ELSE h.lfree)
  BY JoinOK
<1> HIDE DEF r, n
<1>2. /\ q \in Header(h) /\ p \in Header(h) /\ p \in Nat /\ q \in Nat /\ p < q
      /\ h.lfree \in Header(h) /\ h.lfree \in Nat
  BY ChainFields
<1>3. UsedIn(r) = UsedIn(h) BY <1>1 DEF UsedIn
<1>4. \A x \in UsedIn(h) : r.next[x] = h.next[x] BY <1>1, <1>3 DEF UsedIn
<1>5. Lowest(h) => Lowest(r)
  <2> SUFFICES ASSUME Lowest(h) PROVE Lowest(r) OBVIOUS
  <2>1. h.lfree <= p BY <1>2 DEF Lowest
  <2>2. h.lfree # q BY <1>2, <2>1
  <2> QED BY <1>1, <1>2, <2>2 DEF Lowest
<1>6. \A x \in Header(h) \ {HeapEnd} : h.next[x] = q => x = p BY ChainFields
<1> QED BY <1>1, <1>2, <1>3, <1>4, <1>5, <1>6 DEF SameUsed, r, n

\* plug_holes: a block that has become free is joined with its neighbours.
LEMMA PlugOK ==
  ASSUME NEW h, Chain(h), NEW m \in Header(h) \ {HeapEnd}, ~h.used[m], JoinedBut(h, m)
  PROVE  LET r == plug_holes(h, m)
         IN  Chain(r) /\ Joined(r) /\ SameUsed(h, r) /\ (Lowest(h) => Lowest(r))
<1> DEFINE n == h.next[m]
           g == IF m # n /\ ~h.used[n] /\ n # HeapEnd THEN Join(h, m, n) ELSE h
           p == g.prev[m]
           r == plug_holes(h, m)
<1>1. /\ m \in Header(h) /\ n \in Header(h) /\ m # n /\ m \in Nat /\ n \in Nat
  BY ChainFields
<1>2. /\ Chain(g) /\ m \in Header(g) \ {HeapEnd} /\ ~g.used[m]
      /\ SameUsed(h, g) /\ (Lowest(h) => Lowest(g)) /\ JoinedBut(g, m)
      /\ g.next[m] # HeapEnd => g.used[g.next[m]]
  <2>1. CASE ~h.used[n] /\ n # HeapEnd
    <3>1. g = Join(h, m, n) BY <1>1, <2>1
    <3> HIDE DEF g
    <3>2. /\ Chain(g) /\ Header(g) = Header(h) \ {n} /\ m \in Header(g) \ {HeapEnd} /\ n # h.next[n]
          /\ SameUsed(h, g) /\ (Lowest(h) => Lowest(g)) /\ ~g.used[m]
          /\ g.next[m] = h.next[n] /\ \A x \in Header(g) \ {m} : g.next[x] = h.next[x]
          /\ \A x \in Header(g) : g.used[x] = h.used[x]
      BY <2>1, <3>1, JoinFree
    <3> HIDE DEF n
    <3>3. g.next[m] # HeapEnd => g.used[g.next[m]]
      <4> SUFFICES ASSUME h.next[n] # HeapEnd PROVE g.used[h.next[n]] BY <3>2
      <4>1. h.next[n] \in Header(h) /\ h.next[n] # m BY <1>1, <2>1, ChainFields DEF n
      <4>2. h.used[h.next[n]] BY <1>1, <2>1, <4>1 DEF JoinedBut
      <4> QED BY <3>2, <4>1, <4>2
    <3>4. JoinedBut(g, m)
      <4> SUFFICES ASSUME NEW x \in Header(g) \ {HeapEnd}, x # m, g.next[x] # m, ~g.used[x],
                          g.next[x] # HeapEnd
                   PROVE  g.used[g.next[x]]
        BY DEF JoinedBut
      <4>1. g.next[x] = h.next[x] /\ ~h.used[x] /\ x \in Header(h) BY <3>2
      <4>2. h.used[h.next[x]] BY <4>1 DEF JoinedBut
      <4>3. h.next[x] \in Header(g) BY <3>2, <4>1, ChainFields
      <4> QED BY <3>2, <4>1, <4>2, <4>3
    <3> QED BY <3>2, <3>3, <3>4
  <2>2. CASE ~(~h.used[n] /\ n # HeapEnd)
    <3>1. g = h BY <2>2
    <3> HIDE DEF g
    <3> QED BY <2>2, <3>1 DEF SameUsed
  <2> QED BY <2>1, <2>2
<1>3. r = IF p # m /\ ~g.used[p] THEN Join(g, p, m) ELSE g BY DEF plug_holes
<1> HIDE DEF g, r
<1>4. \A x \in Header(g) \ {HeapEnd} : g.next[x] = m => x = p BY <1>2, ChainFields
<1>5. CASE p # m /\ ~g.used[p]
  <2>1. m # 0 BY <1>2, <1>5, ChainFields
  <2>2. PICK y \in Header(g) \ {HeapEnd} : y < m /\ g.next[y] = m BY <1>2, <2>1, Predecessor
  <2>3. p = y BY <1>4, <2>2
  <2>4. p \in Header(g) \ {HeapEnd} /\ g.next[p] = m BY <2>2, <2>3
  <2> HIDE DEF p
  <2>5. r = Join(g, p, m) BY <1>3, <1>5
  <2>6. /\ Chain(r) /\ Header(r) = Header(g) \ {m} /\ p \in Header(r) \ {HeapEnd} /\ m # g.next[m]
        /\ SameUsed(g, r) /\ (Lowest(g) => Lowest(r)) /\ ~r.used[p]
        /\ r.next[p] = g.next[m] /\ \A x \in Header(r) \ {p} : r.next[x] = g.next[x]
        /\ \A x \in Header(r) : r.used[x] = g.used[x]
    BY <1>2, <1>5, <2>4, <2>5, JoinFree
  <2>7. Joined(r)
    <3> SUFFICES ASSUME NEW x \in Header(r) \ {HeapEnd}, ~r.used[x], r.next[x] # HeapEnd
                 PROVE  r.used[r.next[x]]
      BY DEF Joined
    <3>1. r.next[x] \in Header(r) BY <2>6, ChainFields
    <3>2. CASE x = p BY <1>2, <2>6, <3>1, <3>2
    <3>3. CASE x # p
      <4>1. r.next[x] = g.next[x] /\ x \in Header(g) /\ x # m /\ ~g.used[x] BY <2>6, <3>3
      <4>2. g.next[x] # m BY <1>4, <3>3, <4>1 DEF p
      <4>3. g.used[g.next[x]] BY <1>2, <4>1, <4>2 DEF JoinedBut
      <4> QED BY <2>6, <3>1, <4>1, <4>3
    <3> QED BY <3>2, <3>3
  <2> QED BY <1>2, <2>6, <2>7 DEF SameUsed, r
<1>6. CASE ~(p # m /\ ~g.used[p])
  <2>1. r = g BY <1>3, <1>6
  <2>2. Joined(g)
    <3> SUFFICES ASSUME NEW x \in Header(g) \ {HeapEnd}, ~g.used[x], g.next[x] # HeapEnd
                 PROVE  g.used[g.next[x]]
      BY DEF Joined
    <3>1. CASE x = m BY <1>2, <3>1
    <3>2. CASE x # m /\ g.next[x] = m
      <4>1. x = p BY <1>4, <3>2
      <4> QED BY <1>6, <3>2, <4>1
    <3>3. CASE x # m /\ g.next[x] # m BY <1>2, <3>3 DEF JoinedBut
    <3> QED BY <3>1, <3>2, <3>3
  <2> QED BY <1>2, <2>1, <2>2 DEF r
<1> QED BY <1>5, <1>6

-----------------------------------------------------------------------------
(* The searches: from header to header up to the first in a set S.         *)

NextIn(S, p) == CHOOSE q \in S : q >= p /\ \A r \in S : r >= p => q <= r

LEMMA NextInOK ==
  ASSUME NEW h, Chain(h), NEW S \in SUBSET Header(h), HeapEnd \in S, NEW p \in Header(h)
  PROVE  /\ NextIn(S, p) \in S /\ NextIn(S, p) >= p
         /\ \A r \in S : r >= p => NextIn(S, p) <= r
         /\ p \in S => NextIn(S, p) = p
         /\ p \notin S => NextIn(S, p) = NextIn(S, h.next[p])
<1> DEFINE T(x) == {q \in S : q >= x}
           Is(x, q) == q \in S /\ q >= x /\ \A r \in S : r >= x => q <= r
<1>1. /\ HeapEnd \in Nat /\ \A x \in Header(h) : x \in Nat /\ x <= HeapEnd
      /\ h.next \in [Header(h) -> Header(h)]
      /\ \A x \in Header(h) \ {HeapEnd} :
           h.next[x] > x /\ \A y \in Header(h) : y <= x \/ y >= h.next[x]
  BY ChainFields
<1>2. ASSUME NEW x \in Header(h) PROVE Is(x, NextIn(S, x))
  <2>1. T(x) \subseteq Nat /\ T(x) # {} BY <1>1
  <2>2. \E q \in T(x) : \A y \in T(x) : q <= y
    <3> HIDE DEF T
    <3> QED BY <2>1, Minimum
  <2>3. \E q \in S : q >= x /\ \A r \in S : r >= x => q <= r BY <2>2
  <2> QED BY <2>3 DEF NextIn
<1>3. ASSUME NEW x \in Header(h), NEW q, NEW r, Is(x, q), Is(x, r) PROVE q = r
  BY <1>1, <1>3
<1>4. p \in S => Is(p, p) BY <1>1
<1>5. p \notin S => Is(p, NextIn(S, h.next[p]))
  <2> SUFFICES ASSUME p \notin S PROVE Is(p, NextIn(S, h.next[p])) OBVIOUS
  <2> DEFINE n == h.next[p]
             q == NextIn(S, n)
  <2>1. n \in Header(h) /\ n > p /\ n \in Nat /\ p \in Nat BY <1>1
  <2>2. Is(n, q) BY <1>2, <2>1
  <2>3. \A y \in S : y >= p => y >= n
    <3>1. p # HeapEnd /\ \A y \in Header(h) : y <= p \/ y >= n BY <1>1
    <3>2. \A y \in S : y \in Header(h) /\ y # p /\ y \in Nat BY <1>1
    <3> HIDE DEF n, q
    <3> QED BY <2>1, <3>1, <3>2
  <2>4. q \in Nat BY <1>1, <2>2
  <2> HIDE DEF n, q
  <2>5. Is(p, q) BY <2>1, <2>2, <2>3, <2>4
  <2> QED BY <2>5 DEF n, q
<1> QED BY <1>2, <1>3, <1>4, <1>5

\* A search has one outcome, that of the first header it stops at.
LEMMA WalkOK ==
  ASSUME NEW h, Chain(h), NEW S \in SUBSET Header(h), HeapEnd \in S, NEW v,
         NEW f, f = [p \in Header(h) |-> IF p \in S THEN v[p] ELSE f[h.next[p]]]
  PROVE  \A p \in Header(h) : f[p] = v[NextIn(S, p)]
<1> DEFINE T == {HeapEnd - q : q \in {x \in Header(h) : f[x] # v[NextIn(S, x)]}}
<1>1. /\ HeapEnd \in Nat /\ \A x \in Header(h) : x \in Nat /\ x <= HeapEnd
      /\ h.next \in [Header(h) -> Header(h)]
      /\ \A x \in Header(h) \ {HeapEnd} : h.next[x] > x
  BY ChainFields
<1> SUFFICES ASSUME T # {} PROVE FALSE OBVIOUS
<1>2. T \subseteq Nat BY <1>1
<1>3. PICK x \in T : \A y \in T : x <= y
  <2> HIDE DEF T
  <2> QED BY <1>2, Minimum
<1>4. PICK p \in Header(h) : x = HeapEnd - p /\ f[p] # v[NextIn(S, p)] OBVIOUS
<1>5. \A q \in Header(h) : q > p => f[q] = v[NextIn(S, q)]
  <2> SUFFICES ASSUME NEW q \in Header(h), q > p, f[q] # v[NextIn(S, q)] PROVE FALSE OBVIOUS
  <2>1. HeapEnd - q \in T OBVIOUS
  <2>2. HeapEnd - p <= HeapEnd - q BY <1>3, <1>4, <2>1
  <2> QED BY <1>1, <2>2
<1>6. f[p] = IF p \in S THEN v[p] ELSE f[h.next[p]] OBVIOUS
<1>7. CASE p \in S BY <1>4, <1>6, <1>7, NextInOK
<1>8. CASE p \notin S
  <2>1. p # HeapEnd /\ h.next[p] \in Header(h) /\ h.next[p] > p BY <1>1, <1>8
  <2>2. f[p] = v[NextIn(S, h.next[p])] BY <1>5, <1>6, <1>8, <2>1
  <2>3. NextIn(S, p) = NextIn(S, h.next[p]) BY <1>8, NextInOK
  <2> QED BY <1>4, <2>2, <2>3
<1> QED BY <1>7, <1>8

\* rt_malloc takes a free block that is large enough, or none.
LEMMA FoundOK ==
  ASSUME NEW h, Chain(h), NEW size \in Nat
  PROVE  Found(h, size) # Null =>
           /\ Found(h, size) \in Header(h) \ {HeapEnd} /\ ~h.used[Found(h, size)]
           /\ DataSize(h, Found(h, size)) >= size
<1> DEFINE H == Header(h)
           Late(p) == p >= HeapSize - size
           Fits(p) == ~h.used[p] /\ DataSize(h, p) >= size
           S == {p \in H : Late(p) \/ Fits(p)}
           v == [p \in H |-> IF Late(p) THEN Null ELSE p]
           Q(f) == f = [p \in H |-> IF Late(p) THEN Null ELSE IF Fits(p) THEN p ELSE f[h.next[p]]]
           w == [p \in H |-> v[NextIn(S, p)]]
           from == CHOOSE f : Q(f)
<1>1. Found(h, size) = from[h.lfree] BY DEF Found
<1>2. /\ HeapEnd \in S /\ S \in SUBSET H /\ h.lfree \in H /\ h.next \in [H -> H]
      /\ Late(HeapEnd)
  <2>1. HeapEnd >= HeapSize - size BY Sizes
  <2> QED BY <2>1, ChainFields
<1>3. Q(w)
  <2>1. ASSUME NEW p \in H
        PROVE  w[p] = IF Late(p) THEN Null ELSE IF Fits(p) THEN p ELSE w[h.next[p]]
    <3>1. w[p] = v[NextIn(S, p)] /\ h.next[p] \in H BY <1>2
    <3>2. p \in S => NextIn(S, p) = p BY <1>2, NextInOK
    <3>3. p \notin S => NextIn(S, p) = NextIn(S, h.next[p])
      BY <1>2, NextInOK
    <3>4. p \in S <=> Late(p) \/ Fits(p) OBVIOUS
    <3>5. v[p] = IF Late(p) THEN Null ELSE p OBVIOUS
    <3>6. w[h.next[p]] = v[NextIn(S, h.next[p])] BY <3>1
    <3> HIDE DEF S, v, w, Late, Fits, H
    <3> QED BY <3>1, <3>2, <3>3, <3>4, <3>5, <3>6
  <2>2. w = [p \in H |-> w[p]] OBVIOUS
  <2> HIDE DEF w, Late, Fits, H
  <2> QED BY <2>1, <2>2
<1>4. Q(from)
  <2> HIDE DEF w, Q
  <2> QED BY <1>3
<1>5. from = [p \in H |-> IF p \in S THEN v[p] ELSE from[h.next[p]]]
  <2>1. \A p \in H : (IF p \in S THEN v[p] ELSE from[h.next[p]])
                       = (IF Late(p) THEN Null ELSE IF Fits(p) THEN p ELSE from[h.next[p]])
    <3> HIDE DEF from, Late, Fits, H
    <3> QED OBVIOUS
  <2> HIDE DEF S, v, from, Late, Fits, H
  <2> QED BY <1>4, <2>1
<1> HIDE DEF v, from
<1>6. from[h.lfree] = v[NextIn(S, h.lfree)]
  <2> HIDE DEF S
  <2> QED BY <1>2, <1>5, WalkOK
<1> DEFINE q == NextIn(S, h.lfree)
<1>7. q \in S
  <2> HIDE DEF S
  <2> QED BY <1>2, NextInOK
<1> HIDE DEF q
<1>8. v[q] = IF Late(q) THEN Null ELSE q BY <1>7 DEF v
<1>9. Found(h, size) # Null => Found(h, size) = q /\ ~Late(q) BY <1>1, <1>6, <1>8 DEF q
<1> HIDE DEF Late
<1>10. ~Late(q) => q \in H \ {HeapEnd} /\ Fits(q) BY <1>2, <1>7
<1> QED BY <1>9, <1>10

\* The search of rt_malloc for the next free block.
LEMMA NextFreeOK ==
  ASSUME NEW h, Chain(h), NEW p \in Header(h)
  PROVE  NextFree(h, p) = NextIn({q \in Header(h) : ~h.used[q] \/ q = HeapEnd}, p)
<1> DEFINE H == Header(h)
           Stop(q) == ~h.used[q] \/ q = HeapEnd
           S == {q \in H : Stop(q)}
           v == [q \in H |-> q]
           Q(f) == f = [q \in H |-> IF h.used[q] /\ q # HeapEnd THEN f[h.next[q]] ELSE q]
           w == [q \in H |-> NextIn(S, q)]
           from == CHOOSE f : Q(f)
<1>1. NextFree(h, p) = from[p] BY DEF NextFree
<1>2. HeapEnd \in S /\ S \in SUBSET H /\ h.next \in [H -> H] BY ChainFields
<1>3. Q(w)
  <2>1. ASSUME NEW q \in H PROVE w[q] = IF h.used[q] /\ q # HeapEnd THEN w[h.next[q]] ELSE q
    <3>1. w[q] = NextIn(S, q) /\ w[h.next[q]] = NextIn(S, h.next[q]) BY <1>2
    <3>2. q \in S => NextIn(S, q) = q BY <1>2, NextInOK
    <3>3. q \notin S => NextIn(S, q) = NextIn(S, h.next[q]) BY <1>2, NextInOK
    <3>4. q \in S <=> ~(h.used[q] /\ q # HeapEnd) OBVIOUS
    <3> HIDE DEF S, w, H, Stop
    <3> QED BY <3>1, <3>2, <3>3, <3>4
  <2>2. w = [q \in H |-> w[q]] OBVIOUS
  <2> HIDE DEF w, H
  <2> QED BY <2>1, <2>2
<1>4. Q(from)
  <2> HIDE DEF w, Q
  <2> QED BY <1>3
<1>5. from = [q \in H |-> IF q \in S THEN v[q] ELSE from[h.next[q]]]
  <2>1. \A q \in H : (IF q \in S THEN v[q] ELSE from[h.next[q]])
                       = (IF h.used[q] /\ q # HeapEnd THEN from[h.next[q]] ELSE q)
    <3> HIDE DEF from, H
    <3> QED OBVIOUS
  <2> HIDE DEF S, v, from, H
  <2> QED BY <1>4, <2>1
<1> HIDE DEF v, from
<1>6. from[p] = v[NextIn(S, p)]
  <2> HIDE DEF S
  <2> QED BY <1>2, <1>5, WalkOK
<1>7. NextIn(S, p) \in S
  <2> HIDE DEF S
  <2> QED BY <1>2, NextInOK
<1>8. v[NextIn(S, p)] = NextIn(S, p) BY <1>7 DEF v
<1> QED BY <1>1, <1>6, <1>8

-----------------------------------------------------------------------------
(* What the calls do to the heap.                                          *)

Marked(h, u, f, m) == [h EXCEPT !.used = u, !.lfree = f, !.used_mem = m]

LEMMA MarkedFields ==
  ASSUME NEW h, Rec(h), NEW u, NEW f, NEW m
  PROVE  /\ Rec(Marked(h, u, f, m))
         /\ Marked(h, u, f, m).next = h.next /\ Marked(h, u, f, m).prev = h.prev
         /\ Marked(h, u, f, m).used = u /\ Marked(h, u, f, m).lfree = f
         /\ Marked(h, u, f, m).used_mem = m
<1> DEFINE r == Marked(h, u, f, m)
           a == h.next
           b == h.prev
           c == h.used
           d == h.lfree
           e == h.used_mem
<1>1. h = [next |-> a, prev |-> b, used |-> c, lfree |-> d, used_mem |-> e] BY DEF Rec
<1> HIDE DEF a, b, c, d, e
<1>2. r = [next |-> a, prev |-> b, used |-> u, lfree |-> f, used_mem |-> m]
  <2>1. r = [h EXCEPT !.used = u, !.lfree = f, !.used_mem = m] BY DEF Marked
  <2> HIDE DEF r
  <2> QED BY <1>1, <2>1
<1> HIDE DEF r
<1>3. /\ Rec(r) /\ r.next = a /\ r.prev = b /\ r.used = u /\ r.lfree = f /\ r.used_mem = m
  BY ONLY <1>2 DEF Rec
<1> QED BY <1>3 DEF a, b, r

\* plug_holes after a block has been freed.
LEMMA FreedOK ==
  ASSUME NEW h, Chain(h), Joined(h), NEW p \in UsedIn(h)
  PROVE  LET r == Freed(h, p)
         IN  /\ Chain(r) /\ Joined(r) /\ UsedIn(r) = UsedIn(h) \ {p}
             /\ \A x \in UsedIn(r) : r.next[x] = h.next[x]
             /\ r.used_mem = h.used_mem - (h.next[p] - p)
             /\ Lowest(h) => Lowest(r)
<1> DEFINE u == [h.used EXCEPT ![p] = FALSE]
           f == IF p < h.lfree THEN p ELSE h.lfree
           m == h.used_mem - (h.next[p] - p)
           g == [h EXCEPT !.used = u, !.lfree = f, !.used_mem = m]
<1>1. /\ h.used \in [Header(h) -> BOOLEAN] /\ h.lfree \in Header(h) /\ h.used[HeapEnd]
      /\ p \in Header(h) \ {HeapEnd} /\ h.used[p] /\ p \in Nat /\ h.lfree \in Nat
      /\ HeapEnd \in Header(h) /\ HeapEnd \in Nat /\ p <= HeapEnd /\ Rec(h)
      /\ \A x \in Header(h) : x \in Nat /\ h.next[x] \in Header(h)
      /\ DOMAIN h.used = Header(h)
  <2>1. Rec(h) BY DEF Chain
  <2> QED BY <2>1, ChainFields DEF UsedIn
<1>2. Freed(h, p) = plug_holes(g, p) BY <1>1 DEF Freed
<1>3. u \in [Header(h) -> BOOLEAN] /\ ~u[p] /\ \A x \in Header(h) \ {p} : u[x] = h.used[x]
  BY <1>1
<1>4. /\ Rec(g) /\ g.next = h.next /\ g.prev = h.prev
      /\ g.used = u /\ g.lfree = f /\ g.used_mem = m
  <2>1. g = Marked(h, u, f, m) BY DEF Marked
  <2> HIDE DEF g, u, f, m
  <2> QED BY <1>1, <2>1, MarkedFields
<1> HIDE DEF u, g
<1>5. Chain(g) /\ Header(g) = Header(h)
  <2>1. u[HeapEnd] /\ f \in Header(h) BY <1>1, <1>3
  <2> HIDE DEF f, m
  <2> QED BY <1>3, <1>4, <2>1, RemarkOK
<1>6. JoinedBut(g, p)
  <2> SUFFICES ASSUME NEW x \in Header(h) \ {HeapEnd}, x # p, h.next[x] # p, ~u[x],
                      h.next[x] # HeapEnd
               PROVE  u[h.next[x]]
    BY <1>4, <1>5 DEF JoinedBut
  <2>1. ~h.used[x] BY <1>3
  <2>2. h.used[h.next[x]] BY <2>1 DEF Joined
  <2> QED BY <1>1, <1>3, <2>2
<1>7. UsedIn(g) = UsedIn(h) \ {p} BY <1>3, <1>4, <1>5 DEF UsedIn
<1>8. Lowest(h) => Lowest(g)
  <2> SUFFICES ASSUME Lowest(h) PROVE Lowest(g) OBVIOUS
  <2>1. h.lfree # p BY <1>1 DEF Lowest
  <2>2. f = HeapEnd \/ ~u[f] BY <1>1, <1>3, <2>1 DEF Lowest
  <2>3. ASSUME NEW x \in Header(h), ~u[x] PROVE f <= x
    <3>1. x = p \/ h.lfree <= x BY <1>3, <2>3 DEF Lowest
    <3> QED BY <1>1, <3>1
  <2> QED BY <1>4, <1>5, <2>2, <2>3 DEF Lowest
<1> DEFINE r == plug_holes(g, p)
<1>9. Chain(r) /\ Joined(r) /\ SameUsed(g, r) /\ (Lowest(g) => Lowest(r))
  <2>1. p \in Header(g) \ {HeapEnd} /\ ~g.used[p] BY <1>1, <1>3, <1>4, <1>5
  <2> QED BY <1>5, <1>6, <2>1, PlugOK
<1>10. /\ UsedIn(r) = UsedIn(h) \ {p} /\ r.used_mem = m
       /\ \A x \in UsedIn(r) : r.next[x] = h.next[x]
  <2> HIDE DEF r, m
  <2> QED BY <1>4, <1>7, <1>9 DEF SameUsed
<1> QED BY <1>2, <1>8, <1>9, <1>10

\* rt_realloc to a smaller size cuts a free block off the end.
LEMMA ShrunkOK ==
  ASSUME NEW h, Chain(h), Joined(h), NEW p \in UsedIn(h), NEW size \in Nat,
         size + MemSize + MinSize < DataSize(h, p)
  PROVE  LET r == Shrunk(h, p, size)
         IN  /\ Chain(r) /\ Joined(r) /\ UsedIn(r) = UsedIn(h)
             /\ \A x \in UsedIn(h) \ {p} : r.next[x] = h.next[x]
             /\ r.next[p] = p + MemSize + size
             /\ r.used_mem = h.used_mem - (h.next[p] - r.next[p])
<1> DEFINE q == p + MemSize + size
           n == h.next[p]
           s == Split(h, p, q)
           m == h.used_mem - (DataSize(h, p) - size)
           g == [s EXCEPT !.used_mem = m]
           r == plug_holes(g, q)
<1>1. /\ p \in Header(h) \ {HeapEnd} /\ h.used[p] /\ p \in Nat /\ n \in Nat /\ n \in Header(h)
      /\ MemSize \in Nat \ {0} /\ MinSize \in Nat
      /\ h.used \in [Header(h) -> BOOLEAN] /\ h.used[HeapEnd]
      /\ \A x \in Header(h) \ {HeapEnd} : h.next[x] \in Header(h)
      /\ \A x \in Header(h) \ {HeapEnd} : h.next[x] # HeapEnd => h.prev[h.next[x]] = x
  BY ChainFields, Sizes DEF UsedIn
<1>2. q \in Nat /\ p < q /\ q < n
  <2>1. size + MemSize + MinSize < n - p - MemSize BY DEF DataSize
  <2> HIDE DEF n
  <2> QED BY <1>1, <2>1
<1>3. /\ Chain(s) /\ Header(s) = Header(h) \cup {q} /\ q \notin Header(h)
      /\ ~s.used[q] /\ \A x \in Header(h) : s.used[x] = h.used[x]
      /\ s.next[p] = q /\ s.next[q] = n
      /\ \A x \in Header(h) \ {p} : s.next[x] = h.next[x]
      /\ s.used_mem = h.used_mem /\ s.lfree = h.lfree
  <2> HIDE DEF q
  <2> QED BY <1>1, <1>2, SplitOK
<1>4. Shrunk(h, p, size) = r
  <2>1. s.used_mem = h.used_mem BY <1>3
  <2>2. g = [s EXCEPT !.used_mem = @ - (DataSize(h, p) - size)] BY <2>1
  <2> QED BY <2>2 DEF Shrunk
<1> HIDE DEF s
<1>5. /\ Rec(g) /\ g.next = s.next /\ g.prev = s.prev
      /\ g.used = s.used /\ g.lfree = s.lfree /\ g.used_mem = m
  <2> DEFINE u == s.used
             f == s.lfree
  <2>1. Rec(s) BY <1>3 DEF Chain
  <2>2. g = Marked(s, u, f, m)
    <3> DEFINE a == s.next
               b == s.prev
               e == s.used_mem
    <3>1. s = [next |-> a, prev |-> b, used |-> u, lfree |-> f, used_mem |-> e] BY <2>1 DEF Rec
    <3> HIDE DEF a, b, e, u, f, m
    <3>2. g = [next |-> a, prev |-> b, used |-> u, lfree |-> f, used_mem |-> m] BY <3>1
    <3>3. Marked(s, u, f, m) = [next |-> a, prev |-> b, used |-> u, lfree |-> f, used_mem |-> m]
      <4> DEFINE w == Marked(s, u, f, m)
      <4>1. w = [s EXCEPT !.used = u, !.lfree = f, !.used_mem = m] BY DEF Marked
      <4> HIDE DEF w
      <4>2. w = [next |-> a, prev |-> b, used |-> u, lfree |-> f, used_mem |-> m] BY <3>1, <4>1
      <4> QED BY <4>2 DEF w
    <3> QED BY <3>2, <3>3
  <2> HIDE DEF g, u, f, m
  <2>3. /\ Rec(g) /\ g.next = s.next /\ g.prev = s.prev
        /\ g.used = u /\ g.lfree = f /\ g.used_mem = m
    BY <2>1, <2>2, MarkedFields
  <2> QED BY <2>3 DEF u, f
<1> HIDE DEF g
<1>6. Chain(g) /\ Header(g) = Header(s)
  <2>1. s.used \in [Header(s) -> BOOLEAN] /\ s.used[HeapEnd] /\ s.lfree \in Header(s)
    BY <1>3, ChainFields
  <2> QED BY <1>3, <1>5, <2>1, RemarkOK
<1>7. JoinedBut(g, q)
  <2> SUFFICES ASSUME NEW x \in Header(s) \ {HeapEnd}, x # q, s.next[x] # q, ~s.used[x],
                      s.next[x] # HeapEnd
               PROVE  s.used[s.next[x]]
    BY <1>5, <1>6 DEF JoinedBut
  <2>1. x \in Header(h) \ {HeapEnd} /\ x # p BY <1>3
  <2>2. s.next[x] = h.next[x] /\ ~h.used[x] BY <1>3, <2>1
  <2>3. h.used[h.next[x]] BY <2>1, <2>2 DEF Joined
  <2> QED BY <1>1, <1>3, <2>1, <2>2, <2>3
<1>8. Chain(r) /\ Joined(r) /\ SameUsed(g, r)
  <2>1. q \in Header(g) \ {HeapEnd} /\ ~g.used[q]
    <3>1. HeapEnd \in Header(h) BY ChainFields
    <3> QED BY <1>3, <1>5, <1>6, <3>1
  <2> QED BY <1>6, <1>7, <2>1, PlugOK
<1>9. UsedIn(g) = UsedIn(h) BY <1>3, <1>5, <1>6 DEF UsedIn
<1>10. /\ UsedIn(r) = UsedIn(h) /\ r.used_mem = m /\ r.next[p] = q
       /\ \A x \in UsedIn(h) \ {p} : r.next[x] = h.next[x]
  <2>1. \A x \in UsedIn(h) : x \in Header(h) BY DEF UsedIn
  <2> HIDE DEF r, m, q
  <2> QED BY <1>3, <1>5, <1>8, <1>9, <2>1 DEF SameUsed
<1>11. m = h.used_mem - (n - q)
  <2>1. DataSize(h, p) = n - p - MemSize BY DEF DataSize
  <2>2. DataSize(h, p) - size = n - q
    <3> HIDE DEF n
    <3> QED BY <1>1, <2>1
  <2> QED BY <2>2
<1> QED BY <1>4, <1>8, <1>10, <1>11

\* rt_malloc takes the free block at p, and cuts off what it does not need.
LEMMA CarvedOK ==
  ASSUME NEW h, Chain(h), Joined(h), NEW p \in Header(h) \ {HeapEnd}, ~h.used[p],
         NEW size \in Nat
  PROVE  LET r == Carved(h, p, size)
         IN  /\ Chain(r) /\ Joined(r) /\ UsedIn(r) = UsedIn(h) \cup {p} /\ p \notin UsedIn(h)
             /\ \A x \in UsedIn(h) : r.next[x] = h.next[x]
             /\ r.used_mem = h.used_mem + r.next[p] - p
             /\ Lowest(h) => Lowest(r)
<1> DEFINE q == p + MemSize + size
           n == h.next[p]
           splits == DataSize(h, p) >= size + MemSize + MinSizeAligned
           g == IF splits THEN Split(h, p, q) ELSE h
           u == [g EXCEPT !.used[p] = TRUE, !.used_mem = @ + g.next[p] - p]
           f == IF p = u.lfree THEN NextFree(u, p) ELSE u.lfree
           r == [u EXCEPT !.lfree = f]
<1>1. /\ p \in Nat /\ n \in Nat /\ n \in Header(h) /\ p < n
      /\ MemSize \in Nat \ {0} /\ MinSizeAligned \in Nat \ {0}
      /\ \A x \in Header(h) \ {HeapEnd} : h.next[x] \in Header(h)
      /\ HeapEnd \in Header(h) /\ h.used[HeapEnd] /\ h.lfree \in Header(h) /\ h.lfree \in Nat
      /\ \A x \in Header(h) : x \in Nat
  BY ChainFields, Sizes
<1>2. /\ Chain(g) /\ Header(h) \subseteq Header(g)
      /\ \A x \in Header(g) \ Header(h) : x = q /\ q > p /\ ~g.used[x] /\ g.next[x] = n
                                          /\ g.next[p] = x
      /\ \A x \in Header(h) : g.used[x] = h.used[x]
      /\ \A x \in Header(h) \ {p} : g.next[x] = h.next[x]
      /\ g.next[p] = n \/ (g.next[p] = q /\ q \in Header(g) \ Header(h))
      /\ g.used_mem = h.used_mem /\ g.lfree = h.lfree
  <2>1. CASE splits
    <3>1. q \in Nat /\ p < q /\ q < n
      <4>1. n - p - MemSize >= size + MemSize + MinSizeAligned BY <2>1 DEF DataSize
      <4> HIDE DEF n
      <4> QED BY <1>1, <4>1
    <3> DEFINE s == Split(h, p, q)
    <3>2. /\ Chain(s) /\ Header(s) = Header(h) \cup {q} /\ q \notin Header(h)
          /\ ~s.used[q] /\ \A x \in Header(h) : s.used[x] = h.used[x]
          /\ s.next[p] = q /\ s.next[q] = n
          /\ \A x \in Header(h) \ {p} : s.next[x] = h.next[x]
          /\ s.used_mem = h.used_mem /\ s.lfree = h.lfree
      <4> HIDE DEF q
      <4> QED BY <3>1, SplitOK
    <3>3. g = s BY <2>1
    <3> HIDE DEF s, q, g, n
    <3> QED BY <3>1, <3>2, <3>3
  <2>2. CASE ~splits
    <3>1. g = h BY <2>2
    <3> HIDE DEF g
    <3> QED BY <3>1
  <2> QED BY <2>1, <2>2
<1>3. Carved(h, p, size) = r BY DEF Carved
<1> HIDE DEF g
<1>4. /\ g.used \in [Header(g) -> BOOLEAN] /\ g.used[HeapEnd] /\ g.lfree \in Header(g) /\ Rec(g)
      /\ g.next \in [Header(g) -> Header(g)] /\ HeapEnd \in Header(g) /\ p \in Header(g)
      /\ \A x \in Header(g) : x \in Nat
  <2>1. Rec(g) BY <1>2 DEF Chain
  <2> QED BY <1>2, <2>1, ChainFields
<1> DEFINE w == [g.used EXCEPT ![p] = TRUE]
           m == g.used_mem + g.next[p] - p
<1>5. /\ Rec(u) /\ u.next = g.next /\ u.prev = g.prev
      /\ u.used = w /\ u.lfree = g.lfree /\ u.used_mem = m
  <2> DEFINE a == g.next
             b == g.prev
             c == g.used
             d == g.lfree
             e == g.used_mem
             z == [g EXCEPT !.used = w, !.used_mem = m]
  <2>1. g = [next |-> a, prev |-> b, used |-> c, lfree |-> d, used_mem |-> e] BY <1>4 DEF Rec
  <2>2. u = z OBVIOUS
  <2>3. z = [g EXCEPT !.used = w, !.used_mem = m] OBVIOUS
  <2> HIDE DEF a, b, c, d, e, u, w, m, z
  <2>4. z = [next |-> a, prev |-> b, used |-> w, lfree |-> d, used_mem |-> m] BY <2>1, <2>3
  <2>5. /\ Rec(z) /\ z.next = a /\ z.prev = b /\ z.used = w /\ z.lfree = d /\ z.used_mem = m
    BY <2>4, RecFields
  <2> QED BY <2>2, <2>5 DEF a, b, d
<1> HIDE DEF u
<1>6. w \in [Header(g) -> BOOLEAN] /\ w[p] /\ w[HeapEnd] /\ \A x \in Header(g) \ {p} : w[x] = g.used[x]
  BY <1>4
<1> HIDE DEF w
<1>7. Chain(u) /\ Header(u) = Header(g) BY <1>2, <1>4, <1>5, <1>6, RemarkOK
<1> DEFINE S == {x \in Header(u) : ~u.used[x] \/ x = HeapEnd}
<1>8. NextFree(u, p) = NextIn(S, p) BY <1>4, <1>7, NextFreeOK
<1>9. /\ NextIn(S, p) \in S /\ NextIn(S, p) >= p /\ \A x \in S : x >= p => NextIn(S, p) <= x
  <2>1. S \in SUBSET Header(u) /\ HeapEnd \in S BY <1>4, <1>7
  <2> HIDE DEF S
  <2> QED BY <1>4, <1>7, <2>1, NextInOK
<1>10. f \in Header(g) BY <1>4, <1>5, <1>7, <1>8, <1>9
<1>11. /\ Rec(r) /\ r.next = g.next /\ r.prev = g.prev
       /\ r.used = w /\ r.lfree = f /\ r.used_mem = m
  <2> DEFINE a == u.next
             b == u.prev
             c == u.used
             d == u.lfree
             e == u.used_mem
  <2>1. u = [next |-> a, prev |-> b, used |-> c, lfree |-> d, used_mem |-> e] BY <1>5 DEF Rec
  <2>2. r = [u EXCEPT !.lfree = f] OBVIOUS
  <2> HIDE DEF a, b, c, d, e, r, f
  <2>4. r = [next |-> a, prev |-> b, used |-> c, lfree |-> f, used_mem |-> e] BY <2>1, <2>2
  <2>5. /\ Rec(r) /\ r.next = a /\ r.prev = b /\ r.used = c /\ r.lfree = f /\ r.used_mem = e
    BY <2>4, RecFields
  <2> HIDE DEF m
  <2> QED BY <1>5, <2>5 DEF a, b, c, e
<1> HIDE DEF r
<1>12. Chain(r) /\ Header(r) = Header(g)
  <2> HIDE DEF f
  <2> QED BY <1>2, <1>6, <1>10, <1>11, RemarkOK
<1>13. Joined(r)
  <2> SUFFICES ASSUME NEW x \in Header(g) \ {HeapEnd}, ~w[x], g.next[x] # HeapEnd
               PROVE  w[g.next[x]]
    BY <1>11, <1>12 DEF Joined
  <2>1. x # p /\ ~g.used[x] /\ g.next[x] \in Header(g) BY <1>4, <1>6
  <2>2. CASE x \in Header(h)
    <3>1. g.next[x] = h.next[x] /\ ~h.used[x] /\ h.next[x] \in Header(h) BY <1>1, <1>2, <2>1, <2>2
    <3>2. h.used[h.next[x]] BY <2>2, <3>1 DEF Joined
    <3> QED BY <1>2, <1>6, <2>1, <3>1, <3>2
  <2>3. CASE x \notin Header(h)
    <3>1. g.next[x] = n BY <1>2, <2>3
    <3>2. h.used[n] BY <3>1 DEF Joined
    <3>3. n # p BY <1>1
    <3> HIDE DEF n
    <3> QED BY <1>1, <1>2, <1>6, <2>1, <3>1, <3>2, <3>3
  <2> QED BY <2>2, <2>3
<1>14. UsedIn(r) = UsedIn(h) \cup {p} /\ p \notin UsedIn(h)
  <2>1. \A x \in Header(g) \ Header(h) : x # p /\ ~w[x]
    <3>1. \A x \in Header(g) \ Header(h) : x # p /\ x \in Header(g) OBVIOUS
    <3>2. \A x \in Header(g) \ Header(h) : ~g.used[x] BY <1>2
    <3> QED BY <1>6, <3>1, <3>2
  <2>2. \A x \in Header(h) : w[x] <=> (h.used[x] \/ x = p) BY <1>2, <1>4, <1>6
  <2> QED BY <1>2, <1>11, <1>12, <2>1, <2>2 DEF UsedIn
<1>15. \A x \in UsedIn(h) : r.next[x] = h.next[x] BY <1>2, <1>11, <1>14 DEF UsedIn
<1>16. r.used_mem = h.used_mem + r.next[p] - p BY <1>2, <1>11
<1>17. Lowest(h) => Lowest(r)
  <2> SUFFICES ASSUME Lowest(h) PROVE Lowest(r) OBVIOUS
  <2>1. \A x \in Header(g) : ~w[x] => h.lfree <= x
    <3> TAKE x \in Header(g)
    <3>1. x \in Header(h) /\ ~w[x] => h.lfree <= x
      <4>1. x \in Header(h) /\ ~w[x] => ~h.used[x] BY <1>2, <1>6
      <4> QED BY <4>1 DEF Lowest
    <3>2. x \notin Header(h) => h.lfree <= x
      <4>1. h.lfree <= p BY DEF Lowest
      <4>2. x \notin Header(h) => x > p BY <1>2
      <4>3. x \in Nat BY <1>4
      <4> QED BY <1>1, <4>1, <4>2, <4>3
    <3> QED BY <3>1, <3>2
  <2>2. CASE p = u.lfree
    <3>1. f = NextIn(S, p) /\ h.lfree = p BY <1>2, <1>5, <1>8, <2>2
    <3>2. f = HeapEnd \/ ~w[f] BY <1>5, <1>7, <1>9, <3>1
    <3>3. \A x \in Header(g) : ~w[x] => x \in S /\ x >= p BY <1>1, <1>4, <1>5, <1>7, <2>1, <3>1
    <3>4. \A x \in Header(g) : ~w[x] => f <= x BY <1>9, <3>1, <3>3
    <3> QED BY <1>11, <1>12, <3>2, <3>4 DEF Lowest
  <2>3. CASE p # u.lfree
    <3>1. f = h.lfree /\ h.lfree # p BY <1>2, <1>5, <2>3
    <3>2. f = HeapEnd \/ ~w[f]
      <4>1. h.lfree = HeapEnd \/ ~h.used[h.lfree] BY DEF Lowest
      <4> QED BY <1>1, <1>2, <1>4, <1>6, <3>1, <4>1
    <3> HIDE DEF f
    <3> QED BY <1>11, <1>12, <2>1, <3>1, <3>2 DEF Lowest
  <2> QED BY <2>2, <2>3
<1> QED BY <1>3, <1>12, <1>13, <1>14, <1>15, <1>16, <1>17

-----------------------------------------------------------------------------
(* The sum of the sizes of blocks.                                         *)

\* Of finite sets one contains no other.
LEMMA SmallestSet ==
  ASSUME NEW S, IsFiniteSet(S), NEW C \in SUBSET SUBSET S, C # {}
  PROVE  \E s \in C : IsFiniteSet(s) /\ \A t \in C : t \subseteq s => t = s
<1> DEFINE R == StrictSubsetOrdering(S)
<1>1. C \subseteq FiniteSubsetsOf(S)
  <2>1. \A s \in SUBSET S : IsFiniteSet(s) BY FS_Subset
  <2> QED BY <2>1 DEF FiniteSubsetsOf
<1>2. IsWellFoundedOn(R, FiniteSubsetsOf(S)) BY FS_StrictSubsetOrderingWellFounded
<1> HIDE DEF R
<1>3. PICK s \in C : \A t \in C : ~(<<t, s>> \in R) BY <1>1, <1>2, WFMin
<1>4. \A t \in C : t \subseteq s => t = s
  <2> SUFFICES ASSUME NEW t \in C, t \subseteq s, t # s PROVE FALSE OBVIOUS
  <2>1. <<t, s>> \in R BY DEF R, StrictSubsetOrdering
  <2> QED BY <1>3, <2>1
<1>5. IsFiniteSet(s) BY FS_Subset
<1> QED BY <1>4, <1>5

AnyOf(s) == CHOOSE x \in s : TRUE

\* The sum of the sizes of the blocks in S that end where n says.
SizeSum(n, S) ==
  LET iter[s \in SUBSET S] ==
        IF s = {} THEN 0
        ELSE LET x == CHOOSE x \in s : TRUE
             IN  n[x] - x + iter[s \ {x}]
  IN  iter[S]

LEMMA SumSizes ==
  ASSUME NEW n, NEW S
  PROVE  MapThenSumSet(LAMBDA p : n[p] - p, S) = SizeSum(n, S)
  BY DEF MapThenSumSet, MapThenFoldSet, SizeSum

Sums(n, f, s) == IF s = {} THEN 0 ELSE n[AnyOf(s)] - AnyOf(s) + f[s \ {AnyOf(s)}]
Solves(n, S, f) == f = [s \in SUBSET S |-> Sums(n, f, s)]
Solution(n, S) == CHOOSE f : Solves(n, S, f)

LEMMA AnyIn ==
  ASSUME NEW s, s # {}
  PROVE  AnyOf(s) \in s
  BY DEF AnyOf

LEMMA SumSolution ==
  ASSUME NEW n, NEW S
  PROVE  SizeSum(n, S) = Solution(n, S)[S]
  BY DEF SizeSum, Solution, Solves, Sums, AnyOf

LEMMA SolvesOnce ==
  ASSUME NEW n, NEW S, NEW T \in SUBSET S, IsFiniteSet(T), NEW f, NEW g,
         Solves(n, S, f), Solves(n, T, g)
  PROVE  \A s \in SUBSET T : f[s] = g[s]
<1> DEFINE C == {s \in SUBSET T : f[s] # g[s]}
<1> SUFFICES ASSUME C # {} PROVE FALSE OBVIOUS
<1>1. PICK s \in C : \A t \in C : t \subseteq s => t = s
  <2>1. C \in SUBSET SUBSET T OBVIOUS
  <2> HIDE DEF C
  <2> QED BY <2>1, SmallestSet
<1>2. f[s] = Sums(n, f, s) /\ g[s] = Sums(n, g, s)
  <2>1. s \in SUBSET S /\ s \in SUBSET T OBVIOUS
  <2> QED BY <2>1 DEF Solves
<1>3. s # {} BY <1>2 DEF Sums
<1>4. AnyOf(s) \in s BY <1>3, AnyIn
<1>5. f[s \ {AnyOf(s)}] = g[s \ {AnyOf(s)}]
  <2>1. s \ {AnyOf(s)} \in SUBSET T /\ s \ {AnyOf(s)} \subseteq s /\ s \ {AnyOf(s)} # s BY <1>4
  <2> QED BY <1>1, <2>1
<1> QED BY <1>2, <1>3, <1>5 DEF Sums

LEMMA SumIfSolved ==
  ASSUME NEW n, NEW S, IsFiniteSet(S),
         \E f : Solves(n, S, f),
         S # {} => \E f : Solves(n, S \ {AnyOf(S)}, f)
  PROVE  SizeSum(n, S) = IF S = {} THEN 0 ELSE n[AnyOf(S)] - AnyOf(S) + SizeSum(n, S \ {AnyOf(S)})
<1> DEFINE f == Solution(n, S)
           T == S \ {AnyOf(S)}
           g == Solution(n, T)
<1>1. Solves(n, S, f) BY DEF Solution
<1>2. S # {} => Solves(n, T, g) BY DEF Solution
<1>3. SizeSum(n, S) = f[S] /\ SizeSum(n, T) = g[T] BY SumSolution
<1> HIDE DEF f, g
<1>4. f[S] = Sums(n, f, S)
  <2>1. S \in SUBSET S OBVIOUS
  <2> QED BY <1>1, <2>1 DEF Solves
<1>5. S # {} => f[T] = g[T]
  <2>1. T \in SUBSET S /\ T \in SUBSET T OBVIOUS
  <2>2. IsFiniteSet(T) BY <2>1, FS_Subset
  <2> HIDE DEF T
  <2> QED BY <1>1, <1>2, <2>1, <2>2, SolvesOnce
<1> QED BY <1>3, <1>4, <1>5 DEF Sums

LEMMA SolvesSome ==
  ASSUME NEW n, NEW S, IsFiniteSet(S)
  PROVE  \E f : Solves(n, S, f)
<1> DEFINE C == {s \in SUBSET S : ~\E f : Solves(n, s, f)}
<1> SUFFICES ASSUME C # {} PROVE FALSE OBVIOUS
<1>1. PICK R \in C : IsFiniteSet(R) /\ \A t \in C : t \subseteq R => t = R
  <2>1. C \in SUBSET SUBSET S OBVIOUS
  <2> HIDE DEF C
  <2> QED BY <2>1, SmallestSet
<1>2. \A t \in SUBSET R : t # R => \E f : Solves(n, t, f) BY <1>1
<1> DEFINE v == [s \in SUBSET R |-> SizeSum(n, s)]
           w == [s \in SUBSET R |-> IF s = R THEN Sums(n, v, R) ELSE SizeSum(n, s)]
<1>3. ASSUME NEW s \in SUBSET R PROVE w[s] = Sums(n, w, s)
  <2> DEFINE T == s \ {AnyOf(s)}
  <2>1. s # {} => T \in SUBSET R /\ T # R /\ v[T] = SizeSum(n, T) /\ w[T] = SizeSum(n, T)
    <3> SUFFICES ASSUME s # {} PROVE T \in SUBSET R /\ T # R OBVIOUS
    <3>1. AnyOf(s) \in s BY AnyIn
    <3> QED BY <3>1
  <2>2. CASE s = R
    <3>1. w[s] = Sums(n, v, R) BY <2>2
    <3> HIDE DEF w, v
    <3> QED BY <2>1, <2>2, <3>1 DEF Sums
  <2>3. CASE s # R
    <3>1. w[s] = SizeSum(n, s) BY <2>3
    <3>2. (\E f : Solves(n, s, f)) /\ (s # {} => \E f : Solves(n, T, f)) BY <1>2, <2>1, <2>3
    <3>3. IsFiniteSet(s) BY <1>1, FS_Subset
    <3>4. SizeSum(n, s) = IF s = {} THEN 0 ELSE n[AnyOf(s)] - AnyOf(s) + SizeSum(n, T)
      BY <3>2, <3>3, SumIfSolved
    <3> HIDE DEF w, v
    <3> QED BY <2>1, <3>1, <3>4 DEF Sums
  <2> QED BY <2>2, <2>3
<1>4. Solves(n, R, w)
  <2>1. w = [s \in SUBSET R |-> w[s]] OBVIOUS
  <2> HIDE DEF w
  <2> QED BY <1>3, <2>1 DEF Solves
<1> QED BY <1>4

\* The sum of a set is that of one of its blocks and the rest.
LEMMA SumOfOne ==
  ASSUME NEW n, NEW S, IsFiniteSet(S)
  PROVE  SizeSum(n, S) = IF S = {} THEN 0 ELSE n[AnyOf(S)] - AnyOf(S) + SizeSum(n, S \ {AnyOf(S)})
<1>1. IsFiniteSet(S \ {AnyOf(S)}) BY FS_Subset
<1> QED BY <1>1, SolvesSome, SumIfSolved

LEMMA SumType ==
  ASSUME NEW n, NEW S, IsFiniteSet(S), \A x \in S : x \in Int /\ n[x] \in Int
  PROVE  SizeSum(n, S) \in Int
<1> DEFINE C == {s \in SUBSET S : SizeSum(n, s) \notin Int}
<1> SUFFICES ASSUME C # {} PROVE FALSE OBVIOUS
<1>1. PICK s \in C : IsFiniteSet(s) /\ \A t \in C : t \subseteq s => t = s
  <2>1. C \in SUBSET SUBSET S OBVIOUS
  <2> HIDE DEF C
  <2> QED BY <2>1, SmallestSet
<1>2. SizeSum(n, s) = IF s = {} THEN 0 ELSE n[AnyOf(s)] - AnyOf(s) + SizeSum(n, s \ {AnyOf(s)})
  BY <1>1, SumOfOne
<1>3. s # {} BY <1>2
<1>4. AnyOf(s) \in s BY <1>3, AnyIn
<1>5. SizeSum(n, s \ {AnyOf(s)}) \in Int BY <1>1, <1>4
<1> QED BY <1>2, <1>3, <1>4, <1>5

LEMMA SumSame ==
  ASSUME NEW n, NEW m, NEW S, IsFiniteSet(S), \A x \in S : n[x] = m[x]
  PROVE  SizeSum(n, S) = SizeSum(m, S)
<1> DEFINE C == {s \in SUBSET S : SizeSum(n, s) # SizeSum(m, s)}
<1> SUFFICES ASSUME C # {} PROVE FALSE OBVIOUS
<1>1. PICK s \in C : IsFiniteSet(s) /\ \A t \in C : t \subseteq s => t = s
  <2>1. C \in SUBSET SUBSET S OBVIOUS
  <2> HIDE DEF C
  <2> QED BY <2>1, SmallestSet
<1>2. /\ SizeSum(n, s) = IF s = {} THEN 0 ELSE n[AnyOf(s)] - AnyOf(s) + SizeSum(n, s \ {AnyOf(s)})
      /\ SizeSum(m, s) = IF s = {} THEN 0 ELSE m[AnyOf(s)] - AnyOf(s) + SizeSum(m, s \ {AnyOf(s)})
  BY <1>1, SumOfOne
<1>3. s # {} BY <1>2
<1>4. AnyOf(s) \in s BY <1>3, AnyIn
<1>5. SizeSum(n, s \ {AnyOf(s)}) = SizeSum(m, s \ {AnyOf(s)}) BY <1>1, <1>4
<1> QED BY <1>2, <1>3, <1>4, <1>5

\* One more block.
LEMMA SumMore ==
  ASSUME NEW n, NEW S, IsFiniteSet(S), NEW x \in Int, x \notin S, n[x] \in Int,
         \A y \in S : y \in Int /\ n[y] \in Int
  PROVE  SizeSum(n, S \cup {x}) = SizeSum(n, S) + n[x] - x
<1> DEFINE U == S \cup {x}
           C == {s \in SUBSET U : \E y \in U \ s : SizeSum(n, s \cup {y}) # SizeSum(n, s) + n[y] - y}
<1>0. \A y \in U : y \in Int /\ n[y] \in Int OBVIOUS
<1>1. IsFiniteSet(U) BY FS_AddElement
<1> SUFFICES ASSUME C # {} PROVE FALSE
  <2>1. S \in SUBSET U /\ x \in U \ S OBVIOUS
  <2>2. S \notin C OBVIOUS
  <2> QED BY <2>1, <2>2
<1>2. PICK s \in C : IsFiniteSet(s) /\ \A t \in C : t \subseteq s => t = s
  <2>1. C \in SUBSET SUBSET U OBVIOUS
  <2> HIDE DEF C, U
  <2> QED BY <1>1, <2>1, SmallestSet
<1>3. PICK y \in U \ s : SizeSum(n, s \cup {y}) # SizeSum(n, s) + n[y] - y OBVIOUS
<1>4. ASSUME NEW c \in s, NEW z \in U \ (s \ {c})
      PROVE  SizeSum(n, (s \ {c}) \cup {z}) = SizeSum(n, s \ {c}) + n[z] - z
  <2>1. s \ {c} \notin C BY <1>2
  <2>2. s \ {c} \in SUBSET U OBVIOUS
  <2> HIDE DEF U
  <2> QED BY <2>1, <2>2
<1> HIDE DEF C, U
<1> DEFINE v == s \cup {y}
           c == AnyOf(v)
<1>5. /\ IsFiniteSet(v) /\ c \in v /\ s \subseteq U /\ y \notin s /\ y \in U
  <2>1. s \in SUBSET U BY DEF C
  <2>2. IsFiniteSet(v) BY <1>2, FS_AddElement
  <2>3. c \in v BY AnyIn
  <2> QED BY <2>1, <2>2, <2>3
<1>6. SizeSum(n, v) = n[c] - c + SizeSum(n, v \ {c})
  <2>1. v # {} OBVIOUS
  <2> QED BY <1>5, <2>1, SumOfOne
<1> HIDE DEF c
<1>7. CASE c = y
  <2>1. v \ {c} = s BY <1>5, <1>7
  <2>2. SizeSum(n, s) \in Int BY <1>0, <1>2, <1>5, SumType
  <2>3. n[y] \in Int /\ y \in Int BY <1>0, <1>5
  <2>4. SizeSum(n, v) = n[y] - y + SizeSum(n, s) BY <1>6, <1>7, <2>1
  <2>5. SizeSum(n, v) = SizeSum(n, s) + n[y] - y BY <2>2, <2>3, <2>4
  <2> QED BY <1>3, <2>5
<1>8. CASE c # y
  <2>1. c \in s /\ v \ {c} = (s \ {c}) \cup {y} /\ s = (s \ {c}) \cup {c} BY <1>5, <1>8
  <2>2. c \in U \ (s \ {c}) /\ y \in U \ (s \ {c}) BY <1>5, <2>1
  <2>3. /\ SizeSum(n, v \ {c}) = SizeSum(n, s \ {c}) + n[y] - y
        /\ SizeSum(n, s) = SizeSum(n, s \ {c}) + n[c] - c
    <3> HIDE DEF v
    <3> QED BY <1>4, <2>1, <2>2
  <2>4. SizeSum(n, s \ {c}) \in Int
    <3>1. IsFiniteSet(s \ {c}) BY <1>2, FS_Subset
    <3>2. \A z \in s \ {c} : z \in Int /\ n[z] \in Int BY <1>0, <1>5
    <3> QED BY <3>1, <3>2, SumType
  <2>5. n[y] \in Int /\ y \in Int /\ n[c] \in Int /\ c \in Int BY <1>0, <1>5, <2>1
  <2>6. SizeSum(n, v) = SizeSum(n, s) + n[y] - y BY <1>6, <2>3, <2>4, <2>5
  <2> QED BY <1>3, <2>6
<1> QED BY <1>7, <1>8
LEMMA SumLess ==
  ASSUME NEW n, NEW S, IsFiniteSet(S), NEW x \in S, \A y \in S : y \in Int /\ n[y] \in Int
  PROVE  SizeSum(n, S \ {x}) = SizeSum(n, S) - (n[x] - x)
<1>1. IsFiniteSet(S \ {x}) BY FS_Subset
<1>2. SizeSum(n, (S \ {x}) \cup {x}) = SizeSum(n, S \ {x}) + n[x] - x BY <1>1, SumMore
<1>3. (S \ {x}) \cup {x} = S OBVIOUS
<1>4. SizeSum(n, S \ {x}) \in Int BY <1>1, SumType
<1>5. x \in Int /\ n[x] \in Int OBVIOUS
<1>6. SizeSum(n, S) = SizeSum(n, S \ {x}) + n[x] - x BY <1>2, <1>3
<1> QED BY <1>4, <1>5, <1>6

-----------------------------------------------------------------------------
(* A heap in order, whose used blocks used_mem counts.                     *)

Whole(h) == Chain(h) /\ Joined(h) /\ h.used_mem = SizeSum(h.next, UsedIn(h))

LEMMA UsedFacts ==
  ASSUME NEW h, Chain(h)
  PROVE  /\ IsFiniteSet(UsedIn(h)) /\ SizeSum(h.next, UsedIn(h)) \in Int
         /\ \A x \in UsedIn(h) : x \in Nat /\ h.next[x] \in Nat /\ x \in Header(h) \ {HeapEnd}
<1>1. \A x \in UsedIn(h) : x \in Nat /\ h.next[x] \in Nat /\ x \in Header(h) \ {HeapEnd}
  BY ChainFields DEF UsedIn
<1>2. UsedIn(h) \subseteq 0..HeapEnd BY ChainFields DEF UsedIn
<1>3. IsFiniteSet(0..HeapEnd) BY Sizes, FS_Interval
<1>4. IsFiniteSet(UsedIn(h)) BY <1>2, <1>3, FS_Subset
<1>5. SizeSum(h.next, UsedIn(h)) \in Int BY <1>1, <1>4, SumType
<1> QED BY <1>1, <1>4, <1>5

LEMMA WholeFreed ==
  ASSUME NEW h, Whole(h), NEW p \in UsedIn(h)
  PROVE  Whole(Freed(h, p)) /\ UsedIn(Freed(h, p)) = UsedIn(h) \ {p}
<1> DEFINE r == Freed(h, p)
           U == UsedIn(h)
<1>1. /\ Chain(r) /\ Joined(r) /\ UsedIn(r) = U \ {p}
      /\ \A x \in UsedIn(r) : r.next[x] = h.next[x]
      /\ r.used_mem = h.used_mem - (h.next[p] - p)
  BY FreedOK DEF Whole
<1> HIDE DEF r
<1>2. IsFiniteSet(U) /\ \A x \in U : x \in Int /\ h.next[x] \in Int BY UsedFacts DEF Whole
<1>3. SizeSum(h.next, U \ {p}) = SizeSum(h.next, U) - (h.next[p] - p) BY <1>2, SumLess
<1>4. SizeSum(r.next, U \ {p}) = SizeSum(h.next, U \ {p})
  <2>1. IsFiniteSet(U \ {p}) BY <1>2, FS_Subset
  <2> QED BY <1>1, <2>1, SumSame
<1> QED BY <1>1, <1>3, <1>4 DEF Whole, r

LEMMA WholeCarved ==
  ASSUME NEW h, Whole(h), NEW p \in Header(h) \ {HeapEnd}, ~h.used[p], NEW size \in Nat
  PROVE  /\ Whole(Carved(h, p, size)) /\ p \notin UsedIn(h)
         /\ UsedIn(Carved(h, p, size)) = UsedIn(h) \cup {p}
<1> DEFINE r == Carved(h, p, size)
           U == UsedIn(h)
<1>1. /\ Chain(r) /\ Joined(r) /\ UsedIn(r) = U \cup {p} /\ p \notin U
      /\ \A x \in U : r.next[x] = h.next[x]
      /\ r.used_mem = h.used_mem + r.next[p] - p
  BY CarvedOK DEF Whole
<1> HIDE DEF r
<1>2. IsFiniteSet(U) BY UsedFacts DEF Whole
<1>3. \A x \in U \cup {p} : x \in Int /\ r.next[x] \in Int BY <1>1, UsedFacts
<1>4. SizeSum(r.next, U \cup {p}) = SizeSum(r.next, U) + r.next[p] - p
  BY <1>1, <1>2, <1>3, SumMore
<1>5. SizeSum(r.next, U) = SizeSum(h.next, U) BY <1>1, <1>2, SumSame
<1> QED BY <1>1, <1>4, <1>5 DEF Whole, r

LEMMA WholeShrunk ==
  ASSUME NEW h, Whole(h), NEW p \in UsedIn(h), NEW size \in Nat,
         size + MemSize + MinSize < DataSize(h, p)
  PROVE  Whole(Shrunk(h, p, size)) /\ UsedIn(Shrunk(h, p, size)) = UsedIn(h)
<1> DEFINE r == Shrunk(h, p, size)
           U == UsedIn(h)
<1>1. /\ Chain(r) /\ Joined(r) /\ UsedIn(r) = U
      /\ \A x \in U \ {p} : r.next[x] = h.next[x]
      /\ r.used_mem = h.used_mem - (h.next[p] - r.next[p])
  BY ShrunkOK DEF Whole
<1> HIDE DEF r
<1>2. IsFiniteSet(U) /\ \A x \in U : x \in Int /\ h.next[x] \in Int BY UsedFacts DEF Whole
<1>3. \A x \in U : x \in Int /\ r.next[x] \in Int BY <1>1, UsedFacts
<1>4. /\ SizeSum(h.next, U \ {p}) = SizeSum(h.next, U) - (h.next[p] - p)
      /\ SizeSum(r.next, U \ {p}) = SizeSum(r.next, U) - (r.next[p] - p)
  BY <1>2, <1>3, SumLess
<1>5. SizeSum(r.next, U \ {p}) = SizeSum(h.next, U \ {p})
  <2>1. IsFiniteSet(U \ {p}) BY <1>2, FS_Subset
  <2> QED BY <1>1, <2>1, SumSame
<1>6. SizeSum(r.next, U) \in Int /\ SizeSum(h.next, U) \in Int BY <1>2, <1>3, SumType
<1>7. SizeSum(r.next, U) = SizeSum(h.next, U) - (h.next[p] - r.next[p])
  BY <1>2, <1>3, <1>4, <1>5, <1>6
<1> QED BY <1>1, <1>7 DEF Whole, r

LEMMA WholeInit ==
  ASSUME HeapInit
  PROVE  Whole(heap) /\ UsedIn(heap) = {} /\ Lowest(heap)
<1>1. /\ HeapEnd \in Nat /\ HeapEnd > 0 /\ Offset = 0..HeapEnd BY Sizes
<1> DEFINE H == {0, HeapEnd}
           n == [p \in H |-> HeapEnd]
           v == [p \in H |-> p]
           u == [p \in H |-> p = HeapEnd]
<1>2. heap = [next |-> n, prev |-> v, used |-> u, lfree |-> 0, used_mem |-> 0] BY DEF HeapInit
<1>3. /\ n[0] = HeapEnd /\ n[HeapEnd] = HeapEnd /\ v[0] = 0 /\ v[HeapEnd] = HeapEnd
      /\ u[0] = FALSE /\ u[HeapEnd] = TRUE
      /\ n \in [H -> H] /\ v \in [H -> Offset] /\ u \in [H -> BOOLEAN] /\ DOMAIN n = H
  <2>1. H \subseteq Offset /\ 0 \in H /\ HeapEnd \in H /\ 0 # HeapEnd BY <1>1
  <2> HIDE DEF H
  <2> QED BY <2>1
<1> HIDE DEF n, v, u
<1>4. /\ Rec(heap) /\ heap.next = n /\ heap.prev = v /\ heap.used = u
      /\ heap.lfree = 0 /\ heap.used_mem = 0
  BY ONLY <1>2 DEF Rec
<1>5. Header(heap) = H BY <1>3, <1>4 DEF Header
<1>6. \A p \in H \ {HeapEnd} : p = 0 OBVIOUS
<1>7. Chain(heap)
  <2>1. H \subseteq Offset /\ 0 \in H /\ HeapEnd \in H BY <1>1
  <2>2. \A p \in H \ {HeapEnd} : /\ n[p] > p
                                 /\ \A q \in H : q <= p \/ q >= n[p]
                                 /\ n[p] = HeapEnd
    BY <1>1, <1>3
  <2> HIDE DEF H
  <2> QED BY <1>3, <1>4, <1>5, <2>1, <2>2 DEF Chain
<1>8. Joined(heap) BY <1>3, <1>4, <1>5 DEF Joined
<1>9. UsedIn(heap) = {} BY <1>1, <1>3, <1>4, <1>5 DEF UsedIn
<1>10. SizeSum(heap.next, {}) = 0 BY FS_EmptySet, SumOfOne
<1>11. Lowest(heap) BY <1>1, <1>3, <1>4, <1>5 DEF Lowest
<1> QED BY <1>4, <1>7, <1>8, <1>9, <1>10, <1>11 DEF Whole

-----------------------------------------------------------------------------
(* Who holds which block.                                                  *)

Holds(r) == IF r.op \in {"realloc", "free"} THEN {r.at} ELSE IF r.op = "grow" THEN {r.old} ELSE {}

\* The used blocks U are those the application has, B, and those in the
\* requests R, each in one place.
Owned(U, B, R) ==
  /\ \A x : x \in U <=> x \in B \/ \E t \in Thread : x \in Holds(R[t])
  /\ \A t \in Thread : \A x \in Holds(R[t]) : x \notin B
  /\ \A t, u \in Thread : \A x \in Holds(R[t]) : x \in Holds(R[u]) => t = u

LEMMA InHandsIs ==
  ASSUME Owned(UsedIn(heap), blocks, req)
  PROVE  UsedIn(heap) = InHands
<1>1. ASSUME NEW x PROVE x \in InHands <=> x \in blocks \/ \E t \in Thread : x \in Holds(req[t])
  BY DEF InHands, Holds
<1> QED BY <1>1 DEF Owned

\* One thread's request changes, and what the application has: what both had
\* and what was nobody's goes where it belongs.
LEMMA OwnedMove ==
  ASSUME NEW U, NEW B, NEW R, Owned(U, B, R), NEW t \in Thread, NEW r, NEW V, NEW C, NEW S,
         \A u \in Thread : S[u] = IF u = t THEN r ELSE R[u],
         \A x \in C : x \notin Holds(r),
         \A x : x \in C \/ x \in Holds(r) => x \in B \/ x \in Holds(R[t]) \/ x \notin U,
         \A x : x \in V <=> (x \in C \/ x \in Holds(r) \/ (x \in U /\ x \notin B /\ x \notin Holds(R[t])))
  PROVE  Owned(V, C, S)
<1>1. Holds(S[t]) = Holds(r) /\ \A u \in Thread : u # t => Holds(S[u]) = Holds(R[u]) OBVIOUS
<1>2. ASSUME NEW x PROVE x \in V <=> x \in C \/ \E u \in Thread : x \in Holds(S[u])
  <2>1. x \in C \/ x \in Holds(r) => x \in V OBVIOUS
  <2>2. ASSUME NEW u \in Thread, u # t, x \in Holds(S[u]) PROVE x \in V
    <3>1. x \in Holds(R[u]) BY <1>1, <2>2
    <3>2. x \in U /\ x \notin B /\ x \notin Holds(R[t]) BY <2>2, <3>1 DEF Owned
    <3> QED BY <3>2
  <2>3. ASSUME x \in V, x \notin C, x \notin Holds(r) PROVE \E u \in Thread : x \in Holds(S[u])
    <3>1. x \in U /\ x \notin B /\ x \notin Holds(R[t]) BY <2>3
    <3>2. PICK u \in Thread : x \in Holds(R[u]) BY <3>1 DEF Owned
    <3>3. u # t BY <3>1, <3>2
    <3> QED BY <1>1, <3>2, <3>3
  <2> QED BY <1>1, <2>1, <2>2, <2>3
<1>3. ASSUME NEW u \in Thread, NEW x \in Holds(S[u]) PROVE x \notin C
  <2>1. CASE u = t BY <1>1, <2>1
  <2>2. CASE u # t
    <3>1. x \in Holds(R[u]) BY <1>1, <2>2
    <3>2. x \in U /\ x \notin B /\ x \notin Holds(R[t]) BY <2>2, <3>1 DEF Owned
    <3> QED BY <3>2
  <2> QED BY <2>1, <2>2
<1>4. ASSUME NEW u \in Thread, NEW w \in Thread, u # w, NEW x \in Holds(S[u]), x \in Holds(S[w])
      PROVE  FALSE
  <2>1. ASSUME NEW v \in Thread, v # t, x \in Holds(R[v]), x \in Holds(r) PROVE FALSE
    <3>1. x \in U /\ x \notin B /\ x \notin Holds(R[t]) BY <2>1 DEF Owned
    <3> QED BY <2>1, <3>1
  <2>2. CASE u = t BY <1>1, <1>4, <2>1, <2>2
  <2>3. CASE w = t BY <1>1, <1>4, <2>1, <2>3
  <2>4. CASE u # t /\ w # t
    <3>1. x \in Holds(R[u]) /\ x \in Holds(R[w]) BY <1>1, <1>4, <2>4
    <3> QED BY <1>4, <3>1 DEF Owned
  <2> QED BY <2>2, <2>3, <2>4
<1> QED BY <1>2, <1>3, <1>4 DEF Owned

-----------------------------------------------------------------------------
(* The invariant of the heap.                                              *)

\* Nobody waits on another list than w.
OnlyList(s, w) == \A v \in WaitList \ {w} : On(s, v) = {}

LEMMA OnlyListKept ==
  ASSUME NEW s, NEW r, NEW w, OnlyList(s, w), Resting(r), NEW M, Same(s, r, M),
         \A u \in M : OnNone(r, u) \/ OnlyOn(r, u, w)
  PROVE  OnlyList(r, w)
<1> SUFFICES ASSUME NEW v \in WaitList \ {w}, NEW u \in On(r, v) PROVE FALSE BY DEF OnlyList
<1>1. u \in Thread /\ OnlyOn(r, u, v) BY RestingFields
<1>2. u \notin M BY <1>1 DEF OnNone, OnlyOn
<1>3. u \in On(s, v) BY <1>1, <1>2 DEF Same
<1> QED BY <1>3 DEF OnlyList

HeapPc == {"run", "sched"} \cup HeapLabel
WaitPc == {"heap_sched", "heap_in"}

\* The thread that has the semaphore.
Inside(t) == pc[t] \in WaitPc \cup {"heap_carve"} /\ t \notin On(k, HeapSem)

HeapRuns ==
  /\ Settled(k) /\ isr \in {"none", "timer"}
  /\ isr = "timer" => k.timers # <<>>
  /\ k.cur \in Thread /\ (pc[k.cur] \in {"heap_sched", "sched"} \/ k.stat[k.cur] = "READY")
  /\ pc \in [Thread -> HeapPc] /\ pc[Idle] = "run"
  /\ OnlyList(k, HeapSem)

\* One thread has it while it is taken; the others wait without a timer.
OneInside ==
  /\ heap_sem \in 0..1
  /\ \A t, u \in Thread : Inside(t) /\ Inside(u) => t = u
  /\ heap_sem = 0 <=> \E t \in Thread : Inside(t)
  /\ \A t \in On(k, HeapSem) : pc[t] \in WaitPc /\ t \notin Timed(k) /\ heap_sem = 0

\* What a thread asks for at each place of a call.
Requests ==
  /\ req \in [Thread -> Request] /\ blocks \subseteq Offset
  /\ \A t \in Thread :
       /\ pc[t] \in {"run", "sched"} => req[t].op = "none"
       /\ req[t].op = "malloc" => req[t].old = Null
       /\ pc[t] = "heap_carve" => /\ req[t].op \in {"malloc", "grow"}
                                  /\ req[t].at \in Header(heap) \ {HeapEnd} /\ ~heap.used[req[t].at]

HeapData == Whole(heap) /\ Owned(UsedIn(heap), blocks, req)

HeapOK == HeapRuns /\ OneInside /\ Requests /\ HeapData

LEMMA HeapFacts ==
  ASSUME HeapRuns
  PROVE  /\ HeapSem \in WaitList /\ Idle \in Thread /\ Settled(k) /\ On(k, HeapSem) \subseteq Thread
         /\ k.list[HeapSem] = <<>> <=> On(k, HeapSem) = {}
         /\ \A t \in On(k, HeapSem) : k.stat[t] = "SUSPEND"
         /\ \A t \in Thread : k.stat[t] = "READY" => t \notin On(k, HeapSem)
         /\ DOMAIN pc = Thread
<1>1. HeapSem \in WaitList /\ Idle \in Thread BY HeapAssumption, ThreadAssumption
<1>2. Settled(k) BY DEF HeapRuns
<1>3. /\ On(k, HeapSem) \subseteq Thread
      /\ k.list[HeapSem] = <<>> <=> On(k, HeapSem) = {}
      /\ \A t \in On(k, HeapSem) : k.stat[t] = "SUSPEND"
  BY <1>1, <1>2, SettledFields
<1>4. \A t \in Thread : k.stat[t] = "READY" => t \notin On(k, HeapSem)
  BY <1>1, <1>2, ReadyOnNone DEF OnNone
<1> QED BY <1>1, <1>2, <1>3, <1>4 DEF HeapRuns

LEMMA GoesTo ==
  ASSUME HeapRuns, NEW t \in Thread, NEW l \in HeapPc, Goto(t, l)
  PROVE  /\ pc' \in [Thread -> HeapPc] /\ pc'[t] = l /\ \A u \in Thread : u # t => pc'[u] = pc[u]
         /\ t # Idle => pc'[Idle] = "run"
<1>1. pc \in [Thread -> HeapPc] /\ pc[Idle] = "run" /\ Idle \in Thread BY ThreadAssumption DEF HeapRuns
<1>2. pc' = [pc EXCEPT ![t] = l] BY DEF Goto
<1> QED BY <1>1, <1>2

\* The thread that runs, outside rt_schedule, is ready and nobody's waiter.
LEMMA AtWork ==
  ASSUME HeapRuns, NEW t \in Thread, NEW l, Running(t, l), l \notin {"heap_sched", "sched"}
  PROVE  isr = "none" /\ k.cur = t /\ pc[t] = l /\ k.stat[t] = "READY"
         /\ t \notin On(k, HeapSem) /\ (l # "run" => t # Idle)
  BY HeapFacts DEF HeapRuns, Running

-----------------------------------------------------------------------------
(* The semaphore.                                                          *)

\* Who waits, and who has the semaphore, stays as it is.
LEMMA SameInside ==
  ASSUME HeapRuns, OneInside, HeapRuns', heap_sem' = heap_sem,
         \A u \in Thread :
           /\ u \in On(k', HeapSem) <=> u \in On(k, HeapSem)
           /\ pc'[u] \in WaitPc \cup {"heap_carve"} <=> pc[u] \in WaitPc \cup {"heap_carve"}
           /\ u \in On(k, HeapSem) => pc'[u] \in WaitPc /\ (u \in Timed(k') => u \in Timed(k))
  PROVE  OneInside'
<1>1. On(k, HeapSem) \subseteq Thread /\ On(k', HeapSem) \subseteq Thread
  <2>1. Settled(k') /\ HeapSem \in WaitList BY HeapFacts DEF HeapRuns
  <2> QED BY <2>1, HeapFacts, SettledFields
<1>2. \A u \in Thread : Inside(u)' <=> Inside(u) BY DEF Inside
<1> QED BY <1>1, <1>2 DEF OneInside

\* A wait for ever has no timer.
LEMMA BlockForever ==
  ASSUME NEW s, Settled(s), NEW t \in Thread \ {Idle}, s.stat[t] = "READY",
         NEW w \in WaitList, NEW flag
  PROVE  t \notin Timed(BlockOn(s, w, t, flag, Forever))
<1> DEFINE a == [s EXCEPT !.err[t] = "EOK"]
<1>1. KernelOK(a) /\ a.stat = s.stat BY SetError DEF Settled, Resting, Error
<1>2. BlockOn(s, w, t, flag, Forever) = rt_ipc_list_suspend(a, w, t, flag) BY DEF BlockOn
<1> HIDE DEF a
<1> QED BY <1>1, <1>2, ListSuspend

LEMMA TakeSemOK ==
  ASSUME HeapRuns, OneInside, NEW t \in Thread \ {Idle}, NEW l \in {"run", "heap_again"},
         Running(t, l), TakeSem(t), isr' = isr
  PROVE  HeapRuns' /\ OneInside' /\ \E x \in WaitPc : Goto(t, x)
<1>1. /\ isr = "none" /\ k.cur = t /\ pc[t] = l /\ k.stat[t] = "READY"
      /\ t \notin On(k, HeapSem) /\ t \in Thread
  BY AtWork
<1>2. WaitPc \subseteq HeapPc BY DEF WaitPc, HeapPc, HeapLabel
<1>3. CASE heap_sem > 0
  <2>1. k' = k /\ heap_sem' = heap_sem - 1 /\ Goto(t, "heap_in") BY <1>3 DEF TakeSem
  <2>2. heap_sem = 1 /\ heap_sem' = 0 BY <1>3, <2>1 DEF OneInside
  <2>3. /\ pc' \in [Thread -> HeapPc] /\ pc'[t] = "heap_in" /\ pc'[Idle] = "run"
        /\ \A u \in Thread : u # t => pc'[u] = pc[u]
    BY <1>1, <1>2, <2>1, GoesTo DEF WaitPc
  <2>4. HeapRuns' BY <1>1, <2>1, <2>3 DEF HeapRuns
  <2>5. \A u \in Thread : Inside(u)' <=> u = t
    <3>1. \A u \in Thread : ~Inside(u) BY <2>2 DEF OneInside
    <3> QED BY <1>1, <2>1, <2>3, <3>1 DEF Inside, WaitPc
  <2>6. OneInside'
    <3>1. \A u \in On(k, HeapSem) : heap_sem = 0 BY DEF OneInside
    <3>2. On(k', HeapSem) = {} BY <2>1, <2>2, <3>1
    <3> QED BY <2>2, <2>5, <3>2 DEF OneInside
  <2> QED BY <2>1, <2>4, <2>6 DEF WaitPc
<1>4. CASE ~(heap_sem > 0)
  <2>1. /\ k' = BlockOn(k, HeapSem, t, "FIFO", Forever) /\ heap_sem' = heap_sem
        /\ Goto(t, "heap_sched") /\ heap_sem = 0
    BY <1>4 DEF TakeSem, OneInside
  <2>2. /\ Settled(k') /\ Same(k, k', {t}) /\ k'.cur = k.cur
        /\ k'.stat[t] = "SUSPEND" /\ OnlyOn(k', t, HeapSem) /\ t \notin Timed(k')
    <3>1. Forever \in Timeout BY DEF Timeout
    <3> QED BY <1>1, <2>1, <3>1, HeapFacts, BlockOK, BlockForever
  <2>3. /\ pc' \in [Thread -> HeapPc] /\ pc'[t] = "heap_sched" /\ pc'[Idle] = "run"
        /\ \A u \in Thread : u # t => pc'[u] = pc[u]
    BY <1>1, <1>2, <2>1, GoesTo DEF WaitPc
  <2>4. HeapRuns'
    <3>1. OnlyList(k', HeapSem) BY <2>2, OnlyListKept DEF HeapRuns, Settled
    <3> QED BY <1>1, <2>2, <2>3, <3>1 DEF HeapRuns
  <2>5. /\ t \in On(k', HeapSem)
        /\ \A u \in Thread : u # t => /\ u \in On(k', HeapSem) <=> u \in On(k, HeapSem)
                                      /\ u \in Timed(k') <=> u \in Timed(k)
    BY <2>2, HeapFacts DEF OnlyOn, Same
  <2>6. \A u \in Thread : Inside(u)' <=> Inside(u) BY <1>1, <2>3, <2>5 DEF Inside, WaitPc
  <2>7. On(k', HeapSem) \subseteq Thread BY <2>2, HeapFacts, SettledFields
  <2>8. \A u \in On(k', HeapSem) : pc'[u] \in WaitPc /\ u \notin Timed(k')
    <3> TAKE u \in On(k', HeapSem)
    <3>1. CASE u = t BY <2>2, <2>3, <3>1 DEF WaitPc
    <3>2. CASE u # t BY <2>3, <2>5, <2>7, <3>2 DEF OneInside
    <3> QED BY <3>1, <3>2
  <2>9. OneInside' BY <2>1, <2>6, <2>8 DEF OneInside
  <2> QED BY <2>1, <2>4, <2>9 DEF WaitPc
<1> QED BY <1>3, <1>4

LEMMA ReleaseSemOK ==
  ASSUME HeapRuns, OneInside, NEW t \in Thread, NEW l \in {"heap_in", "heap_carve"},
         Running(t, l), NEW r, ReleaseSem(t, r), isr' = isr
  PROVE  /\ HeapRuns' /\ OneInside' /\ req' = [req EXCEPT ![t] = r]
         /\ pc'[t] \in {"sched", "run", "heap_resched", "heap_again"}
         /\ pc'[t] \in {"sched", "run"} => r.op = "none"
         /\ \A u \in Thread : u # t => pc'[u] = pc[u]
<1>1. /\ isr = "none" /\ k.cur = t /\ pc[t] = l /\ k.stat[t] = "READY"
      /\ t \notin On(k, HeapSem) /\ t # Idle
  BY AtWork
<1>2. PICK x \in {"sched", "run", "heap_resched", "heap_again"} :
        Goto(t, x) /\ (x \in {"sched", "run"} => r.op = "none")
  BY DEF ReleaseSem
<1>3. /\ pc' \in [Thread -> HeapPc] /\ pc'[t] = x /\ pc'[Idle] = "run"
      /\ \A u \in Thread : u # t => pc'[u] = pc[u]
  <2>1. x \in HeapPc BY DEF HeapPc, HeapLabel
  <2> QED BY <1>1, <1>2, <2>1, GoesTo
<1>4. /\ k' = ResumeFirst(k, HeapSem) /\ req' = [req EXCEPT ![t] = r]
      /\ heap_sem' = IF k.list[HeapSem] # <<>> THEN heap_sem ELSE heap_sem + 1
  BY DEF ReleaseSem, Begin
<1>5. heap_sem = 0 /\ \A u \in Thread : Inside(u) <=> u = t
  <2>1. Inside(t) BY <1>1 DEF Inside, WaitPc
  <2> QED BY <2>1 DEF OneInside
<1> DEFINE M == Firsts(k, HeapSem)
<1>6. /\ M \subseteq On(k, HeapSem) /\ (M = {} <=> On(k, HeapSem) = {})
      /\ \E h : M \subseteq {h}
      /\ Settled(k') /\ Same(k, k', M) /\ k'.cur = k.cur
      /\ \A u \in M : k'.stat[u] = "READY" /\ OnNone(k', u)
  BY <1>4, HeapFacts, FirstOK
<1> HIDE DEF M
<1>7. /\ On(k, HeapSem) \subseteq Thread /\ On(k', HeapSem) \subseteq Thread /\ M \subseteq Thread
      /\ HeapSem \in WaitList
  BY <1>6, HeapFacts, SettledFields
<1>8. \A u \in Thread : u \in On(k', HeapSem) <=> u \in On(k, HeapSem) /\ u \notin M
  BY <1>6, <1>7 DEF Same, OnNone
<1>9. HeapRuns'
  <2>1. k'.stat[t] = "READY" BY <1>1, <1>6 DEF Same
  <2>2. OnlyList(k', HeapSem) BY <1>6, OnlyListKept DEF HeapRuns, Settled
  <2> QED BY <1>1, <1>3, <1>6, <2>1, <2>2 DEF HeapRuns
<1>10. \A u \in Thread : Inside(u)' <=> u \in M
  <2> TAKE u \in Thread
  <2>1. CASE u = t BY <1>1, <1>3, <1>6, <2>1 DEF Inside, WaitPc
  <2>2. CASE u # t /\ u \in M
    <3>1. pc[u] \in WaitPc BY <1>6, <2>2 DEF OneInside
    <3> QED BY <1>3, <1>7, <1>8, <2>2, <3>1 DEF Inside
  <2>3. CASE u # t /\ u \notin M
    <3>1. ~Inside(u) BY <1>5, <2>3
    <3> QED BY <1>3, <1>8, <2>3, <3>1 DEF Inside
  <2> QED BY <2>1, <2>2, <2>3
<1>11. \A u \in On(k', HeapSem) : u \in On(k, HeapSem) /\ pc'[u] \in WaitPc /\ u \notin Timed(k')
  <2> TAKE u \in On(k', HeapSem)
  <2>1. u \in Thread /\ u \in On(k, HeapSem) /\ u \notin M BY <1>7, <1>8
  <2>2. u # t /\ pc[u] \in WaitPc /\ u \notin Timed(k) BY <1>1, <2>1 DEF OneInside
  <2>3. u \notin Timed(k') BY <1>6, <2>1, <2>2 DEF Same
  <2> QED BY <1>3, <2>1, <2>2, <2>3
<1>12. heap_sem' = IF M = {} THEN 1 ELSE 0
  BY <1>4, <1>5, <1>6, HeapFacts
<1>13. OneInside'
  <2>1. heap_sem' \in 0..1 BY <1>12
  <2>2. \A u, v \in Thread : Inside(u)' /\ Inside(v)' => u = v BY <1>6, <1>10
  <2>3. heap_sem' = 0 <=> \E u \in Thread : Inside(u)' BY <1>7, <1>10, <1>12
  <2>4. \A u \in On(k', HeapSem) : heap_sem' = 0 BY <1>6, <1>11, <1>12
  <2> QED BY <1>11, <2>1, <2>2, <2>3, <2>4 DEF OneInside
<1> QED BY <1>2, <1>3, <1>4, <1>9, <1>13

LEMMA CarveAheadOK ==
  ASSUME HeapRuns, OneInside, NEW t \in Thread, Running(t, "heap_in"), Goto(t, "heap_carve"),
         UNCHANGED <<k, isr, heap_sem>>
  PROVE  HeapRuns' /\ OneInside'
<1>1. /\ isr = "none" /\ k.cur = t /\ pc[t] = "heap_in" /\ k.stat[t] = "READY"
      /\ t \notin On(k, HeapSem) /\ t # Idle
  BY AtWork
<1>2. /\ pc' \in [Thread -> HeapPc] /\ pc'[t] = "heap_carve" /\ pc'[Idle] = "run"
      /\ \A u \in Thread : u # t => pc'[u] = pc[u]
  BY <1>1, GoesTo DEF HeapPc, HeapLabel
<1>3. HeapRuns' BY <1>1, <1>2 DEF HeapRuns
<1>4. \A u \in On(k, HeapSem) : pc'[u] \in WaitPc
  BY <1>1, <1>2, HeapFacts DEF OneInside
<1> QED BY <1>1, <1>2, <1>3, <1>4, SameInside DEF WaitPc

\* A call of rt_schedule.
LEMMA ScheduleInside ==
  ASSUME HeapRuns, OneInside, NEW t \in Thread, UNCHANGED heap_sem,
         \/ IpcSchedule(t, "heap_sched", "heap_in")
         \/ IpcSchedule(t, "heap_resched", "heap_again")
         \/ IpcSchedule(t, "sched", "run")
  PROVE  /\ HeapRuns' /\ OneInside' /\ \A u \in Thread : u # t => pc'[u] = pc[u]
         /\ \/ pc'[t] \in {"heap_in", "heap_again"}
            \/ pc'[t] = "run" /\ pc[t] = "sched"
<1>1. PICK x, y \in HeapPc :
        /\ Running(t, x) /\ k' = rt_schedule(k) /\ Goto(t, y) /\ isr' = isr
        /\ <<x, y>> \in {<<"heap_sched", "heap_in">>, <<"heap_resched", "heap_again">>,
                         <<"sched", "run">>}
  BY DEF IpcSchedule, ScheduleStep, HeapPc, HeapLabel
<1>2. isr = "none" /\ k.cur = t /\ pc[t] = x /\ Idle \in Thread /\ t # Idle
  BY <1>1, ThreadAssumption DEF Running, HeapRuns
<1>3. /\ pc' \in [Thread -> HeapPc] /\ pc'[t] = y /\ pc'[Idle] = "run"
      /\ \A u \in Thread : u # t => pc'[u] = pc[u]
  BY <1>1, <1>2, GoesTo
<1>4. Settled(k') /\ Same(k, k', {}) /\ Serves(k')
  BY <1>1, ScheduleOK DEF HeapRuns
<1>5. HeapRuns'
  <2>1. OnlyList(k', HeapSem) BY <1>4, OnlyListKept DEF HeapRuns, Settled
  <2> QED BY <1>1, <1>2, <1>3, <1>4, <2>1 DEF HeapRuns, Serves
<1>6. \A u \in Thread : /\ u \in On(k', HeapSem) <=> u \in On(k, HeapSem)
                        /\ u \in Timed(k') <=> u \in Timed(k)
  BY <1>4, HeapFacts DEF Same
<1>7. \A u \in Thread : /\ pc'[u] \in WaitPc \cup {"heap_carve"} <=> pc[u] \in WaitPc \cup {"heap_carve"}
                        /\ pc[u] \in WaitPc => pc'[u] \in WaitPc
  BY <1>1, <1>2, <1>3 DEF WaitPc
<1>8. OneInside' BY <1>5, <1>6, <1>7, SameInside DEF OneInside
<1> QED BY <1>1, <1>2, <1>3, <1>5, <1>8

LEMMA TickInside ==
  ASSUME HeapRuns, OneInside, IpcTick, UNCHANGED heap_sem
  PROVE  HeapRuns' /\ OneInside' /\ pc' = pc
<1> USE DEF IpcTick, rt_tick_increase
<1>1. Settled(k') /\ Same(k, k', {}) /\ (k'.cur = k.cur \/ Serves(k'))
  BY TickOK DEF HeapRuns
<1>2. isr' \in {"none", "timer"} /\ (isr' = "timer" => k'.timers # <<>>)
  BY DEF IsrAfter, TimerExpired
<1>3. HeapRuns'
  <2>1. OnlyList(k', HeapSem) BY <1>1, OnlyListKept DEF HeapRuns, Settled
  <2> QED BY <1>1, <1>2, <2>1 DEF HeapRuns, Serves, Same
<1>4. \A u \in Thread : /\ u \in On(k', HeapSem) <=> u \in On(k, HeapSem)
                        /\ u \in Timed(k') <=> u \in Timed(k)
  BY <1>1, HeapFacts DEF Same
<1>5. OneInside' BY <1>3, <1>4, SameInside DEF OneInside
<1> QED BY <1>3, <1>5

LEMMA TimerInside ==
  ASSUME HeapRuns, OneInside, IpcTimerCheck, UNCHANGED heap_sem
  PROVE  HeapRuns' /\ OneInside' /\ pc' = pc
<1> USE DEF IpcTimerCheck, rt_timer_check
<1> DEFINE h == Head(k.timers)
<1>1. /\ h \in Thread /\ h \in Timed(k) /\ Settled(k') /\ Same(k, k', {h}) /\ Serves(k')
      /\ OnNone(k', h)
  <2>1. h \in Timed(k) BY FireTimer DEF HeapRuns, Settled, Resting
  <2> QED BY <2>1, FireOK DEF HeapRuns
<1> HIDE DEF h
<1>2. isr' \in {"none", "timer"} /\ (isr' = "timer" => k'.timers # <<>>)
  BY DEF IsrAfter, TimerExpired
<1>3. HeapRuns'
  <2>1. OnlyList(k', HeapSem) BY <1>1, OnlyListKept DEF HeapRuns, Settled
  <2> QED BY <1>1, <1>2, <2>1 DEF HeapRuns, Serves
<1>4. \A u \in Thread : /\ u \in On(k', HeapSem) <=> u \in On(k, HeapSem)
                        /\ u \in On(k, HeapSem) => (u \in Timed(k') <=> u \in Timed(k))
  <2> TAKE u \in Thread
  <2>1. h \notin On(k, HeapSem) /\ h \notin On(k', HeapSem)
    BY <1>1, HeapFacts DEF OneInside, OnNone
  <2> QED BY <1>1, <2>1, HeapFacts DEF Same
<1>5. OneInside' BY <1>3, <1>4, SameInside DEF OneInside
<1> QED BY <1>3, <1>5

LEMMA PauseInside ==
  ASSUME HeapRuns, OneInside, NEW t \in Thread \ {Idle}, Pause(t), UNCHANGED heap_sem
  PROVE  /\ HeapRuns' /\ OneInside' /\ \A u \in Thread : u # t => pc'[u] = pc[u]
         /\ pc'[t] = "sched" /\ pc[t] = "run"
<1>1. Running(t, "run") /\ k' = rt_thread_sleep(k, t, 1) /\ Goto(t, "sched") /\ isr' = isr
  BY DEF Pause, Calls
<1>2. /\ isr = "none" /\ k.cur = t /\ pc[t] = "run" /\ k.stat[t] = "READY"
      /\ t \notin On(k, HeapSem) /\ t \in Thread
  BY <1>1, AtWork
<1>3. /\ pc' \in [Thread -> HeapPc] /\ pc'[t] = "sched" /\ pc'[Idle] = "run"
      /\ \A u \in Thread : u # t => pc'[u] = pc[u]
  BY <1>1, <1>2, GoesTo DEF HeapPc
<1>4. KernelOK(k) /\ 1 \in Nat BY DEF HeapRuns, Settled, Resting
<1>5. /\ KernelOK(k') /\ Kept(k, k') /\ k'.stat[t] = "SUSPEND" /\ Same(k, k', {t})
      /\ Unmoved(k, k')
  BY <1>1, <1>2, <1>4, SleepThread, SleepSame, SleepMoves
<1>6. Settled(k') /\ k'.cur = k.cur
  <2>1. k'.nest = 0 BY <1>5 DEF Kept, HeapRuns, Settled, Resting
  <2> QED BY <1>5, <2>1, OneAsleep DEF HeapRuns, Kept
<1>7. HeapRuns'
  <2>1. OnlyList(k', HeapSem) BY <1>5 DEF HeapRuns, OnlyList, Unmoved, On
  <2> QED BY <1>1, <1>2, <1>3, <1>6, <2>1 DEF HeapRuns
<1>8. \A u \in Thread : u \in On(k', HeapSem) <=> u \in On(k, HeapSem)
  BY <1>5, HeapFacts DEF Unmoved, On
<1>9. \A u \in Thread : u # t => (u \in Timed(k') <=> u \in Timed(k)) BY <1>5 DEF Same
<1>10. OneInside' BY <1>2, <1>3, <1>7, <1>8, <1>9, SameInside DEF OneInside, WaitPc
<1> QED BY <1>2, <1>3, <1>7, <1>10

-----------------------------------------------------------------------------
(* The calls.                                                              *)

\* A step that leaves the heap and the requests alone.
LEMMA HeapCalm ==
  ASSUME HeapOK, HeapRuns', OneInside', UNCHANGED <<heap, blocks, req>>,
         \A u \in Thread : \/ pc'[u] = pc[u] \/ pc'[u] \in WaitPc \cup {"heap_again"}
                           \/ pc'[u] \in {"run", "sched"} /\ pc[u] \in {"run", "sched"}
  PROVE  HeapOK'
<1>1. Requests' BY DEF HeapOK, Requests, WaitPc
<1>2. HeapData' BY DEF HeapOK, HeapData
<1> QED BY <1>1, <1>2 DEF HeapOK

LEMMA CalmSteps ==
  ASSUME HeapOK, NEW t \in Thread, UNCHANGED heapvars,
         \/ IpcSchedule(t, "heap_sched", "heap_in")
         \/ IpcSchedule(t, "heap_resched", "heap_again")
         \/ IpcSchedule(t, "sched", "run")
         \/ IpcTick \/ IpcTimerCheck
         \/ t # Idle /\ Pause(t)
  PROVE  HeapOK'
<1> USE DEF heapvars
<1>1. CASE \/ IpcSchedule(t, "heap_sched", "heap_in")
           \/ IpcSchedule(t, "heap_resched", "heap_again")
           \/ IpcSchedule(t, "sched", "run")
  <2>1. /\ HeapRuns' /\ OneInside' /\ \A u \in Thread : u # t => pc'[u] = pc[u]
        /\ \/ pc'[t] \in {"heap_in", "heap_again"}
           \/ pc'[t] = "run" /\ pc[t] = "sched"
    BY <1>1, ScheduleInside DEF HeapOK
  <2> QED BY <2>1, HeapCalm DEF WaitPc
<1>2. CASE IpcTick BY <1>2, TickInside, HeapCalm DEF HeapOK
<1>3. CASE IpcTimerCheck BY <1>3, TimerInside, HeapCalm DEF HeapOK
<1>4. CASE t # Idle /\ Pause(t)
  <2>1. /\ HeapRuns' /\ OneInside' /\ \A u \in Thread : u # t => pc'[u] = pc[u]
        /\ pc'[t] = "sched" /\ pc[t] = "run"
    BY <1>4, PauseInside DEF HeapOK
  <2> QED BY <2>1, HeapCalm
<1> QED BY <1>1, <1>2, <1>3, <1>4

LEMMA HeapAgainOK ==
  ASSUME HeapOK, NEW t \in Thread, HeapAgain(t)
  PROVE  HeapOK'
<1> USE DEF HeapAgain
<1>1. HeapRuns /\ OneInside BY DEF HeapOK
<1>2. t # Idle BY <1>1, AtWork
<1>3. HeapRuns' /\ OneInside' /\ \E x \in WaitPc : Goto(t, x)
  BY <1>1, <1>2, TakeSemOK
<1>4. PICK x \in WaitPc : Goto(t, x) BY <1>3
<1>5. \A u \in Thread : pc'[u] = IF u = t THEN x ELSE pc[u]
  BY <1>1, <1>4, HeapFacts DEF Goto
<1> QED BY <1>3, <1>5, HeapCalm

\* A thread asks.
LEMMA HeapCallOK ==
  ASSUME HeapOK, NEW t \in Thread \ {Idle}, NEW r \in Request, HeapCall(t, r),
         blocks' \subseteq Offset, r.op = "malloc" => r.old = Null,
         \A x \in blocks' : x \notin Holds(r),
         \A x : x \in blocks <=> x \in blocks' \/ x \in Holds(r)
  PROVE  HeapOK'
<1> USE DEF HeapCall, Calls, Begin
<1>1. HeapRuns /\ OneInside /\ Requests /\ HeapData /\ t \in Thread BY DEF HeapOK
<1>2. HeapRuns' /\ OneInside' /\ \E x \in WaitPc : Goto(t, x)
  BY <1>1, TakeSemOK
<1>3. PICK x \in WaitPc : Goto(t, x) BY <1>2
<1>4. \A u \in Thread : pc'[u] = IF u = t THEN x ELSE pc[u]
  BY <1>1, <1>3, HeapFacts DEF Goto
<1>5. req' \in [Thread -> Request] /\ \A u \in Thread : req'[u] = IF u = t THEN r ELSE req[u]
  BY <1>1 DEF Requests
<1>6. Holds(req[t]) = {}
  <2>1. pc[t] = "run" BY DEF Running
  <2> QED BY <1>1, <2>1 DEF Requests, Holds
<1>7. Owned(UsedIn(heap)', blocks', req')
  <2>1. UsedIn(heap)' = UsedIn(heap) BY DEF UsedIn
  <2>2. Owned(UsedIn(heap), blocks, req) BY <1>1 DEF HeapData
  <2>3. \A y : y \in UsedIn(heap) <=> (y \in blocks' \/ y \in Holds(r) \/
                  (y \in UsedIn(heap) /\ y \notin blocks /\ y \notin Holds(req[t])))
    BY <1>6, <2>2 DEF Owned
  <2>4. \A y : y \in blocks' \/ y \in Holds(r) =>
                 y \in blocks \/ y \in Holds(req[t]) \/ y \notin UsedIn(heap)
    OBVIOUS
  <2>5. \A y \in blocks' : y \notin Holds(r) OBVIOUS
  <2>6. \A u \in Thread : req'[u] = IF u = t THEN r ELSE req[u] BY <1>5
  <2>7. t \in Thread OBVIOUS
  <2>8. Owned(UsedIn(heap), blocks', req')
    BY ONLY <2>2, <2>3, <2>4, <2>5, <2>6, <2>7, OwnedMove
  <2> QED BY <2>1, <2>8
<1>8. HeapData' BY <1>1, <1>7 DEF HeapData
<1>9. Requests'
  <2> SUFFICES ASSUME NEW u \in Thread
               PROVE  /\ pc'[u] \in {"run", "sched"} => req'[u].op = "none"
                      /\ req'[u].op = "malloc" => req'[u].old = Null
                      /\ pc'[u] = "heap_carve" =>
                           /\ req'[u].op \in {"malloc", "grow"}
                           /\ req'[u].at \in Header(heap') \ {HeapEnd} /\ ~heap'.used[req'[u].at]
    BY <1>5 DEF Requests
  <2>1. CASE u = t BY <1>4, <1>5, <2>1 DEF WaitPc
  <2>2. CASE u # t BY <1>1, <1>4, <1>5, <2>2 DEF Requests
  <2> QED BY <2>1, <2>2
<1> QED BY <1>2, <1>8, <1>9 DEF HeapOK

\* What the calls of rt_malloc, rt_realloc and rt_free ask for.
LEMMA Asks ==
  ASSUME NEW o, NEW s, NEW p
  PROVE  /\ [NoRequest EXCEPT !.op = o, !.size = s] = [op |-> o, size |-> s, at |-> Null, old |-> Null]
         /\ [NoRequest EXCEPT !.op = o, !.at = p] = [op |-> o, size |-> 0, at |-> p, old |-> Null]
         /\ [NoRequest EXCEPT !.op = o, !.size = s, !.at = p]
               = [op |-> o, size |-> s, at |-> p, old |-> Null]
<1> DEFINE z == NoRequest
           no == "none"
           zero == 0
           null == Null
           a == [z EXCEPT !.op = o, !.size = s]
           b == [z EXCEPT !.op = o, !.at = p]
           c == [z EXCEPT !.op = o, !.size = s, !.at = p]
<1>1. z = [op |-> no, size |-> zero, at |-> null, old |-> null] BY DEF NoRequest
<1> HIDE DEF z, no, zero, null
<1>2. a = [op |-> o, size |-> s, at |-> null, old |-> null]
  <2>1. a = [z EXCEPT !.op = o, !.size = s] OBVIOUS
  <2> HIDE DEF a
  <2> QED BY ONLY <1>1, <2>1
<1>3. b = [op |-> o, size |-> zero, at |-> p, old |-> null]
  <2>1. b = [z EXCEPT !.op = o, !.at = p] OBVIOUS
  <2> HIDE DEF b
  <2> QED BY ONLY <1>1, <2>1
<1>4. c = [op |-> o, size |-> s, at |-> p, old |-> null]
  <2>1. c = [z EXCEPT !.op = o, !.size = s, !.at = p] OBVIOUS
  <2> HIDE DEF c
  <2> QED BY ONLY <1>1, <2>1
<1> QED BY <1>2, <1>3, <1>4 DEF z, zero, null

LEMMA HeapCalls ==
  ASSUME HeapOK, NEW t \in Thread \ {Idle},
         \/ \E size \in Size : Malloc(t, size)
         \/ \E p \in blocks : Free(t, p) \/ \E size \in Size : Realloc(t, p, size)
  PROVE  HeapOK'
<1>1. /\ MinSizeAligned \in Nat \ {0} /\ HeapSize \in Nat /\ HeapSize >= MinSizeAligned /\ Size = 1..HeapSize
      /\ Null \in Offset \cup {Null}
  BY Sizes DEF Size
<1>2. blocks \subseteq Offset BY DEF HeapOK, Requests
<1>3. CASE \E size \in Size : Malloc(t, size)
  <2>1. PICK size \in Size : Malloc(t, size) BY <1>3
  <2> DEFINE m == Max2(size, MinSizeAligned)
             r == [op |-> "malloc", size |-> m, at |-> Null, old |-> Null]
  <2>2. HeapCall(t, r) /\ blocks' = blocks
    <3>1. [NoRequest EXCEPT !.op = "malloc", !.size = m] = r BY Asks
    <3> HIDE DEF r
    <3> QED BY <2>1, <3>1 DEF Malloc
  <2>3. m \in {0} \cup Size BY <1>1 DEF Max2
  <2>4. r \in Request BY <1>1, <2>3 DEF Request
  <2>5. r.op = "malloc" /\ r.old = Null /\ Holds(r) = {} BY DEF Holds
  <2> HIDE DEF r
  <2> QED BY <1>2, <2>2, <2>4, <2>5, HeapCallOK
<1>4. CASE \E p \in blocks : Free(t, p) \/ \E size \in Size : Realloc(t, p, size)
  <2>1. PICK p \in blocks : Free(t, p) \/ \E size \in Size : Realloc(t, p, size) BY <1>4
  <2>2. PICK r \in Request : HeapCall(t, r) /\ r.op # "malloc" /\ Holds(r) = {p}
    <3>1. CASE Free(t, p)
      <4> DEFINE r == [op |-> "free", size |-> 0, at |-> p, old |-> Null]
      <4>1. HeapCall(t, r)
        <5>1. [NoRequest EXCEPT !.op = "free", !.at = p] = r BY Asks
        <5> HIDE DEF r
        <5> QED BY <3>1, <5>1 DEF Free
      <4>2. r \in Request BY <1>1, <1>2 DEF Request
      <4>3. r.op # "malloc" /\ Holds(r) = {p} BY DEF Holds
      <4> QED BY <4>1, <4>2, <4>3
    <3>2. CASE \E size \in Size : Realloc(t, p, size)
      <4>1. PICK size \in Size : Realloc(t, p, size) BY <3>2
      <4> DEFINE r == [op |-> "realloc", size |-> size, at |-> p, old |-> Null]
      <4>2. HeapCall(t, r)
        <5>1. [NoRequest EXCEPT !.op = "realloc", !.size = size, !.at = p] = r BY Asks
        <5> HIDE DEF r
        <5> QED BY <4>1, <5>1 DEF Realloc
      <4>3. r \in Request BY <1>1, <1>2 DEF Request
      <4>4. r.op # "malloc" /\ Holds(r) = {p} BY DEF Holds
      <4> QED BY <4>2, <4>3, <4>4
    <3> QED BY <2>1, <3>1, <3>2
  <2>3. blocks' = blocks \ {p} BY <2>1 DEF Free, Realloc
  <2> QED BY <1>2, <2>2, <2>3, HeapCallOK
<1> QED BY <1>3, <1>4

\* What the thread that has the semaphore knows of its block.
LEMMA HeldBlock ==
  ASSUME HeapOK, NEW t \in Thread
  PROVE  /\ \A x \in Holds(req[t]) : x \in UsedIn(heap) /\ x \notin blocks
         /\ req[t] \in Request /\ NoRequest \in Request /\ Holds(NoRequest) = {}
         /\ UsedIn(heap) \subseteq Offset /\ Null \notin UsedIn(heap) /\ Whole(heap)
         /\ blocks \subseteq UsedIn(heap)
<1>1. Requests /\ HeapData BY DEF HeapOK
<1>2. Holds(NoRequest) = {} BY DEF Holds, NoRequest
<1>3. NoRequest \in Request BY DEF NoRequest, Request
<1>4. UsedIn(heap) \subseteq Offset BY <1>1 DEF HeapData, Whole, Chain, UsedIn
<1>5. Null \notin UsedIn(heap)
  <2>1. Null \notin Offset BY Sizes
  <2> QED BY <1>4, <2>1
<1>6. req[t] \in Request BY <1>1 DEF Requests
<1>7. blocks \subseteq UsedIn(heap) BY <1>1 DEF HeapData, Owned
<1> QED BY <1>1, <1>2, <1>3, <1>4, <1>5, <1>6, <1>7 DEF HeapData, Owned

\* A section ends, after which r is still to be done.
LEMMA AfterRelease ==
  ASSUME HeapOK, NEW t \in Thread, NEW l \in {"heap_in", "heap_carve"}, Running(t, l),
         NEW r \in Request, ReleaseSem(t, r), isr' = isr, r.op # "malloc",
         NEW V, V = UsedIn(heap'), Whole(heap'), NEW B, B = blocks', B \subseteq Offset,
         \A x \in B : x \notin Holds(r),
         \A x : x \in B \/ x \in Holds(r) => x \in blocks \/ x \in Holds(req[t]) \/ x \notin UsedIn(heap),
         \A x : x \in V <=> (x \in B \/ x \in Holds(r)
                             \/ (x \in UsedIn(heap) /\ x \notin blocks /\ x \notin Holds(req[t])))
  PROVE  HeapOK'
<1>1. HeapRuns /\ OneInside /\ Requests /\ HeapData BY DEF HeapOK
<1>2. /\ HeapRuns' /\ OneInside' /\ req' = [req EXCEPT ![t] = r]
      /\ pc'[t] \in {"sched", "run", "heap_resched", "heap_again"}
      /\ pc'[t] \in {"sched", "run"} => r.op = "none"
      /\ \A u \in Thread : u # t => pc'[u] = pc[u]
  BY <1>1, ReleaseSemOK
<1>3. req' \in [Thread -> Request] /\ \A u \in Thread : req'[u] = IF u = t THEN r ELSE req[u]
  BY <1>1, <1>2 DEF Requests
<1>4. Owned(UsedIn(heap), blocks, req) BY <1>1 DEF HeapData
<1>5. Owned(V, B, req')
  <2>1. \A u \in Thread : req'[u] = IF u = t THEN r ELSE req[u] BY <1>3
  <2>2. /\ \A x \in B : x \notin Holds(r)
        /\ \A x : x \in B \/ x \in Holds(r) => x \in blocks \/ x \in Holds(req[t]) \/ x \notin UsedIn(heap)
        /\ \A x : x \in V <=> (x \in B \/ x \in Holds(r)
                               \/ (x \in UsedIn(heap) /\ x \notin blocks /\ x \notin Holds(req[t])))
    OBVIOUS
  <2>3. t \in Thread OBVIOUS
  <2> QED BY ONLY <1>4, <2>1, <2>2, <2>3, OwnedMove
<1>6. HeapData' BY <1>5 DEF HeapData
<1>7. Requests'
  <2>1. ASSUME NEW u \in Thread
        PROVE  /\ pc'[u] \in {"run", "sched"} => req'[u].op = "none"
               /\ req'[u].op = "malloc" => req'[u].old = Null
               /\ pc'[u] # "heap_carve"
    <3>1. CASE u = t BY <1>2, <1>3, <3>1
    <3>2. CASE u # t
      <4>1. pc'[u] = pc[u] /\ req'[u] = req[u] BY <1>2, <1>3, <3>2
      <4>2. Inside(t) BY <1>1, AtWork DEF Inside, WaitPc
      <4>3. ~Inside(u) BY <1>1, <3>2, <4>2 DEF OneInside
      <4>4. u \notin On(k, HeapSem) \/ pc[u] # "heap_carve" BY <1>1 DEF OneInside, WaitPc
      <4>5. pc[u] # "heap_carve" BY <4>3, <4>4 DEF Inside
      <4> QED BY <1>1, <4>1, <4>5 DEF Requests
    <3> QED BY <3>1, <3>2
  <2> QED BY <1>3, <2>1 DEF Requests
<1> QED BY <1>2, <1>6, <1>7 DEF HeapOK

LEMMA FreeBlockOK ==
  ASSUME HeapOK, NEW t \in Thread, FreeBlock(t)
  PROVE  HeapOK'
<1> USE DEF FreeBlock
<1> DEFINE p == req[t].at
           V == UsedIn(heap')
<1>1. Holds(req[t]) = {p} BY DEF Holds
<1>2. p \in UsedIn(heap) /\ p \notin blocks BY <1>1, HeldBlock
<1>3. Whole(heap') /\ V = UsedIn(heap) \ {p} BY <1>2, HeldBlock, WholeFreed
<1>4. NoRequest \in Request /\ Holds(NoRequest) = {} /\ NoRequest.op # "malloc"
  BY HeldBlock DEF NoRequest
<1>5. blocks' = blocks /\ blocks \subseteq Offset /\ isr' = isr BY DEF HeapOK, Requests
<1>6. \A x : x \in V <=> (x \in blocks' \/ x \in Holds(NoRequest)
                           \/ (x \in UsedIn(heap) /\ x \notin blocks /\ x \notin Holds(req[t])))
  BY <1>1, <1>2, <1>3, <1>4, <1>5, HeldBlock
<1>7. ReleaseSem(t, NoRequest) /\ Running(t, "heap_in") OBVIOUS
<1> HIDE DEF FreeBlock, V, p
<1> QED BY <1>3, <1>4, <1>5, <1>6, <1>7, AfterRelease DEF V

LEMMA ResizeOK ==
  ASSUME HeapOK, NEW t \in Thread, Resize(t)
  PROVE  HeapOK'
<1> DEFINE p == req[t].at
           size == req[t].size
           old == DataSize(heap, p)
           shrinks == size + MemSize + MinSize < old
           V == UsedIn(heap')
<1>0. /\ Running(t, "heap_in") /\ req[t].op = "realloc"
      /\ heap' = IF shrinks THEN Shrunk(heap, p, size) ELSE heap
      /\ IF size = old \/ shrinks
         THEN ReleaseSem(t, NoRequest) /\ blocks' = blocks \cup {p}
         ELSE /\ ReleaseSem(t, [op |-> "grow", size |-> Max2(size, MinSizeAligned),
                                at |-> Null, old |-> p])
              /\ UNCHANGED blocks
      /\ UNCHANGED <<isr, timeout>>
  BY DEF Resize
<1>1. Holds(req[t]) = {p} BY <1>0 DEF Holds
<1>2. p \in UsedIn(heap) /\ p \notin blocks /\ p \in Offset /\ blocks \subseteq Offset
  BY <1>1, HeldBlock DEF HeapOK, Requests
<1>3. size \in {0} \cup Size /\ size \in Nat BY HeldBlock, Sizes DEF Request, Size
<1>4. Whole(heap') /\ V = UsedIn(heap)
  <2>1. CASE shrinks BY <1>0, <1>2, <1>3, <2>1, HeldBlock, WholeShrunk
  <2>2. CASE ~shrinks
    <3>1. heap' = heap BY <1>0, <2>2
    <3> QED BY <3>1, HeldBlock
  <2> QED BY <2>1, <2>2
<1>5. CASE size = old \/ shrinks
  <2>1. ReleaseSem(t, NoRequest) /\ blocks' = blocks \cup {p} BY <1>0, <1>5
  <2>2. NoRequest \in Request /\ Holds(NoRequest) = {} /\ NoRequest.op # "malloc"
    BY HeldBlock DEF NoRequest
  <2>3. \A x : x \in V <=> (x \in blocks' \/ x \in Holds(NoRequest)
                             \/ (x \in UsedIn(heap) /\ x \notin blocks /\ x \notin Holds(req[t])))
    BY <1>1, <1>2, <1>4, <2>1, <2>2, HeldBlock
  <2>4. \A x : x \in blocks' \/ x \in Holds(NoRequest) =>
                 x \in blocks \/ x \in Holds(req[t]) \/ x \notin UsedIn(heap)
    BY <1>1, <2>1, <2>2
  <2>5. blocks' \subseteq Offset BY <1>2, <2>1
  <2> HIDE DEF V, p
  <2> QED BY <1>0, <1>4, <2>1, <2>2, <2>3, <2>4, <2>5, AfterRelease DEF V
<1>6. CASE ~(size = old \/ shrinks)
  <2> DEFINE r == [op |-> "grow", size |-> Max2(size, MinSizeAligned), at |-> Null, old |-> p]
  <2>1. ReleaseSem(t, r) /\ blocks' = blocks BY <1>0, <1>6
  <2>2. r \in Request
    <3>1. Max2(size, MinSizeAligned) \in {0} \cup Size
      <4> HIDE DEF size
      <4> QED BY <1>3, Sizes DEF Size, Max2
    <3> QED BY <1>2, <3>1 DEF Request
  <2>3. Holds(r) = {p} /\ r.op # "malloc" BY DEF Holds
  <2> HIDE DEF r
  <2>4. \A x : x \in V <=> (x \in blocks' \/ x \in Holds(r)
                             \/ (x \in UsedIn(heap) /\ x \notin blocks /\ x \notin Holds(req[t])))
    BY <1>1, <1>2, <1>4, <2>1, <2>3, HeldBlock
  <2>5. \A x : x \in blocks' \/ x \in Holds(r) =>
                 x \in blocks \/ x \in Holds(req[t]) \/ x \notin UsedIn(heap)
    BY <1>1, <2>1, <2>3
  <2>6. \A x \in blocks' : x \notin Holds(r) BY <1>2, <2>1, <2>3
  <2>7. blocks' \subseteq Offset BY <1>2, <2>1
  <2> HIDE DEF V, p
  <2> QED BY <1>0, <1>4, <2>1, <2>2, <2>3, <2>4, <2>5, <2>6, <2>7, AfterRelease DEF V
<1> QED BY <1>5, <1>6

LEMMA CarveOK ==
  ASSUME HeapOK, NEW t \in Thread, Carve(t)
  PROVE  HeapOK'
<1> DEFINE p == req[t].at
           V == UsedIn(heap')
           r == IF req[t].op = "grow" THEN [op |-> "free", size |-> 0, at |-> req[t].old, old |-> Null]
                ELSE NoRequest
<1>0. /\ Running(t, "heap_carve") /\ heap' = Carved(heap, p, req[t].size)
      /\ blocks' = blocks \cup {p} /\ ReleaseSem(t, r) /\ isr' = isr
  BY DEF Carve, NoRequest
<1>1. /\ req[t].op \in {"malloc", "grow"} /\ p \in Header(heap) \ {HeapEnd} /\ ~heap.used[p]
  BY <1>0 DEF HeapOK, Requests, Running
<1>2. req[t].size \in Nat BY HeldBlock, Sizes DEF Request, Size
<1>3. Whole(heap') /\ V = UsedIn(heap) \cup {p} /\ p \notin UsedIn(heap)
  BY <1>0, <1>1, <1>2, HeldBlock, WholeCarved
<1>4. r \in Request /\ r.op # "malloc" /\ Holds(r) = Holds(req[t])
  <2>1. CASE req[t].op = "grow"
    <3>1. r = [op |-> "free", size |-> 0, at |-> req[t].old, old |-> Null] BY <2>1
    <3>2. Holds(req[t]) = {req[t].old} /\ req[t].old \in Offset \cup {Null}
      BY <2>1, HeldBlock DEF Holds, Request
    <3> HIDE DEF r
    <3>3. r \in Request /\ r.op = "free" /\ r.at = req[t].old BY <3>1, <3>2 DEF Request
    <3> QED BY <3>2, <3>3 DEF Holds
  <2>2. CASE req[t].op # "grow"
    <3>1. r = NoRequest /\ Holds(req[t]) = {} BY <1>1, <2>2 DEF Holds
    <3> HIDE DEF r
    <3> QED BY <3>1, HeldBlock DEF NoRequest
  <2> QED BY <2>1, <2>2
<1>5. blocks' \subseteq Offset
  <2>1. Header(heap) \subseteq Offset BY HeldBlock DEF Whole, Chain
  <2>2. blocks \subseteq Offset BY HeldBlock
  <2> HIDE DEF r
  <2> QED BY <1>0, <1>1, <2>1, <2>2
<1> HIDE DEF r
<1>6. \A x : x \in V <=> (x \in blocks' \/ x \in Holds(r)
                           \/ (x \in UsedIn(heap) /\ x \notin blocks /\ x \notin Holds(req[t])))
  BY <1>0, <1>3, <1>4, HeldBlock
<1>7. \A x : x \in blocks' \/ x \in Holds(r) =>
               x \in blocks \/ x \in Holds(req[t]) \/ x \notin UsedIn(heap)
  BY <1>0, <1>3, <1>4
<1>8. \A x \in blocks' : x \notin Holds(r) BY <1>0, <1>3, <1>4, HeldBlock
<1> HIDE DEF V, p
<1> QED BY <1>0, <1>3, <1>4, <1>5, <1>6, <1>7, <1>8, AfterRelease DEF V

LEMMA SearchOK ==
  ASSUME HeapOK, NEW t \in Thread, Search(t)
  PROVE  HeapOK'
<1> DEFINE found == Found(heap, req[t].size)
<1>0. /\ Running(t, "heap_in") /\ req[t].op \in {"malloc", "grow"} /\ heap' = heap /\ isr' = isr
      /\ IF found # Null
         THEN /\ Begin(t, [req[t] EXCEPT !.at = found])
              /\ Goto(t, "heap_carve")
              /\ UNCHANGED <<k, heap_sem, blocks>>
         ELSE /\ ReleaseSem(t, NoRequest)
              /\ blocks' = blocks \cup ({req[t].old} \ {Null})
  BY DEF Search
<1>1. HeapRuns /\ OneInside /\ Requests /\ HeapData BY DEF HeapOK
<1>2. CASE found # Null
  <2> DEFINE r == [req[t] EXCEPT !.at = found]
  <2>1. /\ req' = [req EXCEPT ![t] = r] /\ Goto(t, "heap_carve")
        /\ UNCHANGED <<k, heap_sem, blocks>>
    BY <1>0, <1>2 DEF Begin
  <2>2. HeapRuns' /\ OneInside' BY <1>0, <1>1, <2>1, CarveAheadOK
  <2>3. found \in Header(heap) \ {HeapEnd} /\ ~heap.used[found] /\ found \in Offset
    <3>1. req[t].size \in Nat BY HeldBlock, Sizes DEF Request, Size
    <3>2. Chain(heap) /\ Header(heap) \subseteq Offset BY HeldBlock DEF Whole, Chain
    <3> QED BY <1>2, <3>1, <3>2, FoundOK
  <2> HIDE DEF found
  <2>4. /\ r \in Request /\ r.op = req[t].op /\ r.old = req[t].old /\ r.at = found
    BY <2>3, HeldBlock DEF Request
  <2>5. Holds(r) = Holds(req[t]) BY <1>0, <2>4 DEF Holds
  <2> HIDE DEF r
  <2>6. req' \in [Thread -> Request] /\ \A u \in Thread : req'[u] = IF u = t THEN r ELSE req[u]
    BY <1>1, <2>1, <2>4 DEF Requests
  <2>7. \A u \in Thread : pc'[u] = IF u = t THEN "heap_carve" ELSE pc[u]
    BY <1>1, <2>1, HeapFacts DEF Goto
  <2>8. Requests'
    <3> SUFFICES ASSUME NEW u \in Thread
                 PROVE  /\ pc'[u] \in {"run", "sched"} => req'[u].op = "none"
                        /\ req'[u].op = "malloc" => req'[u].old = Null
                        /\ pc'[u] = "heap_carve" =>
                             /\ req'[u].op \in {"malloc", "grow"}
                             /\ req'[u].at \in Header(heap) \ {HeapEnd} /\ ~heap.used[req'[u].at]
      BY <1>0, <1>1, <2>1, <2>6 DEF Requests
    <3>1. CASE u = t BY <1>0, <1>1, <2>3, <2>4, <2>6, <2>7, <3>1 DEF Requests
    <3>2. CASE u # t BY <1>1, <2>6, <2>7, <3>2 DEF Requests
    <3> QED BY <3>1, <3>2
  <2>9. HeapData'
    <3>1. \A u \in Thread : Holds(req'[u]) = Holds(req[u]) BY <2>5, <2>6
    <3>2. Owned(UsedIn(heap), blocks, req') BY <1>1, <3>1 DEF HeapData, Owned
    <3>3. UsedIn(heap)' = UsedIn(heap) BY <1>0 DEF UsedIn
    <3> QED BY <1>0, <1>1, <2>1, <3>2, <3>3 DEF HeapData
  <2> QED BY <2>2, <2>8, <2>9 DEF HeapOK
<1>3. CASE found = Null
  <2> DEFINE V == UsedIn(heap')
  <2>1. ReleaseSem(t, NoRequest) /\ blocks' = blocks \cup ({req[t].old} \ {Null}) BY <1>0, <1>3
  <2> HIDE DEF found
  <2>2. NoRequest \in Request /\ Holds(NoRequest) = {} /\ NoRequest.op # "malloc"
    BY HeldBlock DEF NoRequest
  <2>3. blocks' = blocks \cup Holds(req[t])
    <3>1. CASE req[t].op = "malloc"
      <4>1. req[t].old = Null /\ Holds(req[t]) = {} BY <1>1, <3>1 DEF Requests, Holds
      <4> QED BY <2>1, <4>1
    <3>2. CASE req[t].op = "grow"
      <4>1. Holds(req[t]) = {req[t].old} BY <3>2 DEF Holds
      <4>2. req[t].old # Null BY <4>1, HeldBlock
      <4> QED BY <2>1, <4>1, <4>2
    <3> QED BY <1>0, <3>1, <3>2
  <2>4. V = UsedIn(heap) /\ Whole(heap') BY <1>0, HeldBlock
  <2>5. blocks' \subseteq Offset BY <2>3, HeldBlock
  <2>6. \A x : x \in V <=> (x \in blocks' \/ x \in Holds(NoRequest)
                             \/ (x \in UsedIn(heap) /\ x \notin blocks /\ x \notin Holds(req[t])))
    BY <2>2, <2>3, <2>4, HeldBlock
  <2>7. \A x : x \in blocks' \/ x \in Holds(NoRequest) =>
                 x \in blocks \/ x \in Holds(req[t]) \/ x \notin UsedIn(heap)
    BY <2>2, <2>3
  <2> HIDE DEF V
  <2> QED BY <1>0, <2>1, <2>2, <2>4, <2>5, <2>6, <2>7, AfterRelease DEF V
<1> QED BY <1>2, <1>3

LEMMA HeapStepOK ==
  ASSUME HeapOK, NEW t \in Thread, HeapStep(t)
  PROVE  HeapOK'
<1>1. ASSUME NEW op, Calls(t, op) PROVE t # Idle BY <1>1, DriverAssumption DEF Calls
<1>2. CASE \/ \E size \in Size : Malloc(t, size)
           \/ \E p \in blocks : Free(t, p) \/ \E size \in Size : Realloc(t, p, size)
  <2>1. \E r : HeapCall(t, r) BY <1>2 DEF Malloc, Free, Realloc
  <2>2. t # Idle BY <1>1, <2>1 DEF HeapCall
  <2> QED BY <1>2, <2>2, HeapCalls
<1>3. CASE HeapSchedule(t) \/ HeapReschedule(t)
  BY <1>3, CalmSteps DEF HeapSchedule, HeapReschedule
<1>4. CASE Pause(t) /\ UNCHANGED heapvars
  <2>1. t # Idle BY <1>1, <1>4 DEF Pause
  <2> QED BY <1>4, <2>1, CalmSteps
<1>5. CASE HeapAgain(t) BY <1>5, HeapAgainOK
<1>6. CASE Search(t) BY <1>6, SearchOK
<1>7. CASE Carve(t) BY <1>7, CarveOK
<1>8. CASE Resize(t) BY <1>8, ResizeOK
<1>9. CASE FreeBlock(t) BY <1>9, FreeBlockOK
<1> QED BY <1>2, <1>3, <1>4, <1>5, <1>6, <1>7, <1>8, <1>9 DEF HeapStep

-----------------------------------------------------------------------------
(* The heap in every state.                                                *)

\* While the driver uses another helper the heap is as it was made.
HeapInv == HeapData /\ (helper = "heap" => HeapOK)

LEMMA HeapInvInit ==
  ASSUME Init
  PROVE  HeapInv
<1> USE DEF Init
<1>1. Whole(heap) /\ UsedIn(heap) = {} BY WholeInit
<1>2. /\ heap_sem = 1 /\ blocks = {} /\ req = [t \in Thread |-> NoRequest]
      /\ pc = [t \in Thread |-> "run"] /\ isr = "none"
  BY DEF HeapInit, IpcInit
<1>3. \A t \in Thread : req[t] = NoRequest /\ pc[t] = "run" BY <1>2
<1>4. Holds(NoRequest) = {} /\ NoRequest \in Request /\ NoRequest.op = "none"
  BY DEF Holds, NoRequest, Request
<1>5. HeapData BY <1>1, <1>2, <1>3, <1>4 DEF HeapData, Owned
<1>6. Requests BY <1>2, <1>3, <1>4 DEF Requests
<1>7. /\ KernelOK(k) /\ k.nest = 0 /\ k.cur \in Thread
      /\ \A t \in Thread : k.stat[t] = "READY" /\ ~Off(k, t)
  BY BootedOK, IpcAssumption DEF IpcInit
<1>8. Settled(k) BY <1>7 DEF Settled, Resting
<1>9. HeapRuns
  <2>1. OnlyList(k, HeapSem) BY <1>7, <1>8, SettledFields DEF OnlyList
  <2> QED BY <1>2, <1>7, <1>8, <2>1, ThreadAssumption DEF HeapRuns, HeapPc
<1>10. OneInside
  <2>1. On(k, HeapSem) = {} BY <1>7, <1>9, HeapFacts
  <2> QED BY <1>2, <1>3, <2>1 DEF OneInside, Inside, WaitPc
<1> QED BY <1>5, <1>6, <1>9, <1>10 DEF HeapInv, HeapOK

LEMMA HeapInvNext ==
  ASSUME HeapInv, [Next]_vars
  PROVE  HeapInv'
<1>1. CASE UNCHANGED vars
  <2>1. UNCHANGED <<heapvars, k, isr, pc, helper>> BY <1>1 DEF vars
  <2>2. HeapData' BY <2>1 DEF heapvars, HeapInv, HeapData
  <2>3. HeapOK => HeapOK'
    BY <2>1, <2>2
    DEF heapvars, HeapOK, HeapRuns, OnlyList, OneInside, Requests, Inside, On
  <2> QED BY <2>1, <2>2, <2>3 DEF HeapInv
<1>2. CASE Next
  <2>1. helper' = helper BY <1>2 DEF Next
  <2>2. CASE UNCHANGED heapvars /\ helper # "heap"
    BY <2>1, <2>2 DEF HeapInv, heapvars, HeapData
  <2>3. CASE helper = "heap" /\ HeapNext
    <3>1. HeapOK' BY <2>3, HeapStepOK DEF HeapInv, HeapNext
    <3> QED BY <2>1, <3>1 DEF HeapInv, HeapOK
  <2>4. CASE helper = "heap" /\ UNCHANGED heapvars /\ ((\E t \in Thread : Schedule(t)) \/ Tick \/ TimerCheck)
    <3>1. PICK t \in Thread : IpcSchedule(t, "sched", "run") \/ IpcTick \/ IpcTimerCheck
      BY <2>4, ThreadAssumption DEF Schedule, Tick, TimerCheck
    <3>2. HeapOK' BY <2>4, <3>1, CalmSteps DEF HeapInv
    <3> QED BY <2>1, <3>2 DEF HeapInv, HeapOK
  <2> QED BY <1>2, <2>2, <2>3, <2>4 DEF Next
<1> QED BY <1>1, <1>2

\* The heap is in order, its semaphore lets one thread in and no other helper
\* touches it, whatever threads, sizes and blocks there are.
THEOREM HeapInvariance == Spec => []HeapInv
<1>1. Init => HeapInv BY HeapInvInit
<1>2. HeapInv /\ [Next]_vars => HeapInv' BY HeapInvNext
<1> QED BY <1>1, <1>2, PTL DEF Spec

\* The blocks tile the heap, no two free ones side by side, each used one in
\* one pair of hands, and used_mem counts them, however rt_malloc, rt_realloc
\* and rt_free of any threads follow each other.
THEOREM HeapIsAccounted == Spec => []HeapAccounted
<1>1. ASSUME HeapInv PROVE HeapAccounted
  <2>1. Chain(heap) /\ Joined(heap) /\ heap.used_mem = SizeSum(heap.next, UsedIn(heap))
    BY <1>1 DEF HeapInv, HeapData, Whole
  <2>2. UsedIn(heap) = InHands BY <1>1, InHandsIs DEF HeapInv, HeapData
  <2>3. MapThenSumSet(LAMBDA p : heap.next[p] - p, InHands) = SizeSum(heap.next, InHands)
    BY SumSizes
  <2>4. \A p \in Header(heap) \ {HeapEnd} :
          /\ heap.next[p] \in Header(heap) /\ heap.next[p] > p
          /\ \A q \in Header(heap) : q <= p \/ q >= heap.next[p]
          /\ heap.next[p] # HeapEnd => heap.prev[heap.next[p]] = p
          /\ ~heap.used[p] /\ heap.next[p] # HeapEnd => heap.used[heap.next[p]]
    BY <2>1 DEF Chain, Joined
  <2>5. {0, HeapEnd} \subseteq Header(heap) /\ heap.prev[0] = 0 /\ heap.used[HeapEnd]
    BY <2>1 DEF Chain
  <2>6. {p \in Header(heap) \ {HeapEnd} : heap.used[p]} = InHands BY <2>2 DEF UsedIn
  <2>7. heap.used_mem = MapThenSumSet(LAMBDA p : heap.next[p] - p, InHands) BY <2>1, <2>2, <2>3
  <2> QED BY <2>4, <2>5, <2>6, <2>7 DEF HeapAccounted
<1> QED BY <1>1, HeapInvariance, PTL

\* Who waits for heap_sem waits while another thread is between its
\* rt_sem_take and its rt_sem_release: a release goes to the first waiter.
THEOREM HeapStrandsNobody == Spec => [](helper = "heap" => HeapNobodyStranded)
<1>1. ASSUME HeapInv PROVE helper = "heap" => HeapNobodyStranded
  <2> SUFFICES ASSUME helper = "heap", k.list[HeapSem] # <<>>
               PROVE  \E t \in Thread \ ToSet(k.list[HeapSem]) :
                        pc[t] \in {"heap_sched", "heap_in", "heap_carve"}
    BY DEF HeapNobodyStranded
  <2>1. HeapRuns /\ OneInside BY <1>1 DEF HeapInv, HeapOK
  <2>2. On(k, HeapSem) # {} BY <2>1, HeapFacts
  <2>3. \E t \in Thread : Inside(t) BY <2>1, <2>2 DEF OneInside
  <2> QED BY <2>3 DEF Inside, WaitPc, On
<1> QED BY <1>1, HeapInvariance, PTL

LEMMA LowestIs == LfreeLowest <=> Lowest(heap)
  BY DEF LfreeLowest, Lowest

\* Only the end of a block that rt_realloc cuts off can be a free block below
\* lfree: rt_free lowers lfree, rt_malloc moves it to the next free block, and
\* the joins of plug_holes take it along.
THEOREM LfreeLostOnlyByRealloc == Spec => LfreeLostByRealloc
<1> DEFINE A == LfreeLowest /\ ~LfreeLowest' =>
                  \E t \in Thread : Running(t, "heap_in") /\ req[t].op = "realloc"
<1>1. ASSUME HeapInv, [Next]_vars PROVE A
  <2>1. SUFFICES ASSUME Lowest(heap), heap' # heap,
                        \A t \in Thread : ~(Running(t, "heap_in") /\ req[t].op = "realloc")
                 PROVE  Lowest(heap')
    BY LowestIs DEF LfreeLowest, Lowest
  <2>2. helper = "heap" /\ HeapNext BY <1>1, <2>1 DEF Next, vars, heapvars
  <2>3. HeapOK /\ Whole(heap) BY <1>1, <2>2 DEF HeapInv, HeapData
  <2>4. PICK t \in Thread : HeapStep(t) BY <2>2 DEF HeapNext
  <2>5. ~Resize(t) BY <2>1 DEF Resize
  <2>6. Carve(t) \/ FreeBlock(t)
    BY <2>1, <2>4, <2>5
    DEF HeapStep, Malloc, Free, Realloc, HeapCall, HeapSchedule, HeapReschedule, HeapAgain, Search,
        heapvars
  <2>7. CASE Carve(t)
    <3>1. /\ req[t].at \in Header(heap) \ {HeapEnd} /\ ~heap.used[req[t].at]
          /\ req[t].size \in Nat
      BY <2>3, <2>7, HeldBlock, Sizes DEF Carve, HeapOK, Requests, Running, Request, Size
    <3> QED BY <2>1, <2>3, <2>7, <3>1, CarvedOK DEF Carve, Whole
  <2>8. CASE FreeBlock(t)
    <3>1. req[t].at \in UsedIn(heap) BY <2>3, <2>8, HeldBlock DEF FreeBlock, Holds
    <3> QED BY <2>1, <2>3, <2>8, <3>1, FreedOK DEF FreeBlock, Whole
  <2> QED BY <2>6, <2>7, <2>8
<1>2. HeapInv /\ [Next]_vars => [A]_heapvars BY <1>1
<1> QED BY <1>2, HeapInvariance, PTL DEF Spec, LfreeLostByRealloc

-----------------------------------------------------------------------------
(* The memory pool: each block is on the free list or in one pair of hands.*)

PoolOK(p, o) ==
  /\ p \in [block_list : Seq(Block), block_free_count : Nat, suspend_thread_count : Int]
  /\ NoDup(p.block_list) /\ p.block_free_count = Len(p.block_list)
  /\ ToSet(p.block_list) \cap o = {} /\ ToSet(p.block_list) \cup o = Block

\* A pool with the list q of free blocks.
LEMMA PoolOf ==
  ASSUME NEW q \in Seq(Block), NoDup(q), NEW n, n = Len(q), NEW c \in Int, NEW o,
         ToSet(q) \cap o = {}, ToSet(q) \cup o = Block
  PROVE  PoolOK([block_list |-> q, block_free_count |-> n, suspend_thread_count |-> c], o)
<1> DEFINE r == [block_list |-> q, block_free_count |-> n, suspend_thread_count |-> c]
<1>1. n \in Nat OBVIOUS
<1>2. r \in [block_list : Seq(Block), block_free_count : Nat, suspend_thread_count : Int]
  <2> DEFINE S == Seq(Block)
  <2>1. q \in S /\ n \in Nat /\ c \in Int BY <1>1
  <2> HIDE DEF S
  <2>2. r \in [block_list : S, block_free_count : Nat, suspend_thread_count : Int] BY ONLY <2>1
  <2> QED BY <2>2 DEF S
<1>3. r.block_list = q /\ r.block_free_count = n OBVIOUS
<1> HIDE DEF r
<1>4. PoolOK(r, o) BY <1>2, <1>3 DEF PoolOK
<1> QED BY <1>4 DEF r

LEMMA PoolNew == PoolOK(NewPool, {})
<1>1. IsFiniteSet(Block) BY MpAssumption
<1>2. /\ SetToSeq(Block) \in Seq(Block) /\ ToSet(SetToSeq(Block)) = Block
      /\ NoDup(SetToSeq(Block)) /\ Cardinality(Block) = Len(SetToSeq(Block))
  BY <1>1, SetAsSeq
<1> QED BY <1>2, PoolOf DEF NewPool

\* The counter that is tested before an allocation is above zero only while
\* there is a block to take.
LEMMA PoolTake ==
  ASSUME NEW p, NEW o, PoolOK(p, o), p.block_free_count > 0
  PROVE  PoolOK(TakeBlock(p), o \cup {Head(p.block_list)})
<1> DEFINE q == p.block_list
           n == p.block_free_count
           c == p.suspend_thread_count
<1>1. /\ q \in Seq(Block) /\ NoDup(q) /\ n = Len(q) /\ c \in Int
      /\ ToSet(q) \cap o = {} /\ ToSet(q) \cup o = Block /\ n > 0
      /\ p = [block_list |-> q, block_free_count |-> n, suspend_thread_count |-> c]
  <2> DEFINE S == Seq(Block)
  <2>1. p \in [block_list : S, block_free_count : Nat, suspend_thread_count : Int]
    BY DEF PoolOK
  <2>2. /\ NoDup(q) /\ n = Len(q) /\ ToSet(q) \cap o = {} /\ ToSet(q) \cup o = Block /\ n > 0
    BY DEF PoolOK
  <2> HIDE DEF S
  <2>3. q \in S /\ c \in Int BY ONLY <2>1
  <2>4. p = [block_list |-> q, block_free_count |-> n, suspend_thread_count |-> c]
    BY ONLY <2>1
  <2> QED BY <2>2, <2>3, <2>4 DEF S
<1> HIDE DEF q, n, c
<1>2. TakeBlock(p) = [block_list |-> Tail(q), block_free_count |-> n - 1, suspend_thread_count |-> c]
  <2>1. p.block_list = q /\ p.block_free_count = n BY ONLY <1>1
  <2> DEFINE t == Tail(q)
             m == n - 1
  <2>2. TakeBlock(p) = [p EXCEPT !.block_list = t, !.block_free_count = m]
    BY <2>1 DEF TakeBlock
  <2> HIDE DEF t, m
  <2>3. TakeBlock(p) = [block_list |-> t, block_free_count |-> m, suspend_thread_count |-> c]
    BY ONLY <1>1, <2>2
  <2> QED BY <2>3 DEF t, m
<1>3. q # <<>> BY <1>1
<1>4. Head(q) \in ToSet(q) BY <1>1, <1>3, EmptyList
<1>5. Tail(q) \in Seq(Block) /\ ToSet(Tail(q)) = ToSet(q) \ {Head(q)} /\ NoDup(Tail(q))
  BY <1>1, <1>3, TailList
<1>6. n - 1 = Len(Tail(q)) BY <1>1, <1>3
<1>7. /\ ToSet(Tail(q)) \cap (o \cup {Head(q)}) = {}
      /\ ToSet(Tail(q)) \cup (o \cup {Head(q)}) = Block
  BY <1>1, <1>4, <1>5
<1> DEFINE r == Tail(q)
           m == n - 1
           a == o \cup {Head(q)}
<1>8. /\ r \in Seq(Block) /\ NoDup(r) /\ m = Len(r) /\ c \in Int
      /\ ToSet(r) \cap a = {} /\ ToSet(r) \cup a = Block
      /\ TakeBlock(p) = [block_list |-> r, block_free_count |-> m, suspend_thread_count |-> c]
  BY <1>1, <1>2, <1>5, <1>6, <1>7
<1>9. PoolOK(TakeBlock(p), a)
  <2> HIDE DEF r, m, a
  <2> QED BY <1>8, PoolOf
<1> QED BY <1>9 DEF q

LEMMA PoolGive ==
  ASSUME PoolOK(mp, out), NEW b \in out
  PROVE  PoolOK(Linked(b), out \ {b})
<1> DEFINE p == mp
           q == mp.block_list
           n == mp.block_free_count
           c == mp.suspend_thread_count
<1>1. /\ q \in Seq(Block) /\ NoDup(q) /\ n = Len(q) /\ c \in Int
      /\ ToSet(q) \cap out = {} /\ ToSet(q) \cup out = Block
      /\ p = [block_list |-> q, block_free_count |-> n, suspend_thread_count |-> c]
  BY DEF PoolOK
<1>2. Linked(b) = [p EXCEPT !.block_free_count = @ + 1, !.block_list = <<b>> \o @]
  BY DEF Linked
<1> HIDE DEF p, q, n, c
<1>3. Linked(b) = [block_list |-> <<b>> \o q, block_free_count |-> n + 1, suspend_thread_count |-> c]
  BY <1>1, <1>2
<1>4. b \in Block /\ b \notin ToSet(q) BY <1>1
<1>5. /\ <<b>> \o q \in Seq(Block) /\ ToSet(<<b>> \o q) = ToSet(q) \cup {b}
      /\ NoDup(<<b>> \o q)
  BY <1>1, <1>4, PrependList
<1>6. n + 1 = Len(<<b>> \o q)
  <2> DEFINE e == <<b>>
  <2>1. e \in Seq(Block) /\ Len(e) = 1 BY <1>4
  <2> HIDE DEF e
  <2>2. q \in Seq(Block) /\ n = Len(q) BY <1>1
  <2>3. Len(e \o q) = Len(e) + Len(q) BY ONLY <2>1, <2>2, ConcatProperties
  <2>4. n \in Nat BY ONLY <2>2
  <2>5. n + 1 = Len(e \o q) BY ONLY <2>1, <2>2, <2>3, <2>4
  <2> QED BY <2>5 DEF e
<1>7. /\ ToSet(<<b>> \o q) \cap (out \ {b}) = {} /\ ToSet(<<b>> \o q) \cup (out \ {b}) = Block
  BY <1>1, <1>4, <1>5
<1> DEFINE r == <<b>> \o q
           m == n + 1
           a == out \ {b}
<1>8. /\ r \in Seq(Block) /\ NoDup(r) /\ m = Len(r) /\ c \in Int
      /\ ToSet(r) \cap a = {} /\ ToSet(r) \cup a = Block
      /\ Linked(b) = [block_list |-> r, block_free_count |-> m, suspend_thread_count |-> c]
  BY <1>1, <1>3, <1>5, <1>6, <1>7
<1> HIDE DEF r, m
<1> QED BY <1>8, PoolOf

\* The count of waiters is no part of it.
LEMMA PoolCount ==
  ASSUME NEW p, NEW o, PoolOK(p, o), NEW c \in Int
  PROVE  PoolOK([p EXCEPT !.suspend_thread_count = c], o)
<1> DEFINE q == p.block_list
           n == p.block_free_count
           d == p.suspend_thread_count
           r == [p EXCEPT !.suspend_thread_count = c]
<1>1. /\ q \in Seq(Block) /\ NoDup(q) /\ n = Len(q)
      /\ ToSet(q) \cap o = {} /\ ToSet(q) \cup o = Block
      /\ p = [block_list |-> q, block_free_count |-> n, suspend_thread_count |-> d]
  BY DEF PoolOK
<1>2. r = [p EXCEPT !.suspend_thread_count = c] OBVIOUS
<1> HIDE DEF q, n, d, r
<1>3. r = [block_list |-> q, block_free_count |-> n, suspend_thread_count |-> c] BY <1>1, <1>2
<1>4. PoolOK(r, o) BY <1>1, <1>3, PoolOf
<1> QED BY <1>4 DEF r

-----------------------------------------------------------------------------
(* The threads of the pool.  The latest waiter is the first in the list.   *)

LEMMA FirstInLine ==
  ASSUME NEW S, NEW q \in Seq(S), NEW t \in S
  PROVE  <<t>> \o q = InsertAt(q, 1, t) /\ Len(<<t>> \o q) = Len(q) + 1
<1> DEFINE e == <<t>>
           a == e \o q
           b == InsertAt(q, 1, t)
           n == Len(q)
<1>1. n \in Nat OBVIOUS
<1>2. e \in Seq(S) /\ Len(e) = 1 /\ e[1] = t OBVIOUS
<1> HIDE DEF e
<1>3. /\ a \in Seq(S) /\ Len(a) = Len(e) + Len(q)
      /\ \A i \in 1..(Len(e) + Len(q)) : a[i] = IF i <= Len(e) THEN e[i] ELSE q[i - Len(e)]
  BY <1>2, ConcatProperties
<1>4. b \in Seq(S) /\ DOMAIN b = 1..(Len(q) + 1) /\ b[1] = t /\ \A i \in 1..Len(q) : b[i + 1] = q[i]
  <2>1. 1 \in 1..(Len(q) + 1) BY <1>1
  <2> QED BY <2>1, InsertPositions
<1> HIDE DEF a, b
<1>5. Len(a) = n + 1 /\ Len(b) = n + 1 BY <1>1, <1>2, <1>3, <1>4
<1>6. ASSUME NEW i \in 1..(n + 1) PROVE a[i] = b[i]
  <2>1. CASE i = 1 BY <1>1, <1>2, <1>3, <1>4, <2>1
  <2>2. CASE i # 1
    <3>1. /\ i \in 1..(Len(e) + Len(q)) /\ ~(i <= Len(e)) /\ i - Len(e) = i - 1
          /\ i - 1 \in 1..Len(q) /\ (i - 1) + 1 = i
      BY <1>1, <1>2, <2>2
    <3> QED BY <1>3, <1>4, <3>1
  <2> QED BY <2>1, <2>2
<1>7. a = b BY <1>3, <1>4, <1>5, <1>6, SeqEqual
<1> QED BY <1>5, <1>7 DEF a, b, e

\* A caller goes to sleep in front of the others.
LEMMA PoolBlockOK ==
  ASSUME NEW s, Settled(s), NEW t \in Thread \ {Idle}, s.stat[t] = "READY", NEW time \in Timeout
  PROVE  LET r == MpBlock(s, t, time)
         IN  /\ Settled(r) /\ Same(s, r, {t}) /\ r.cur = s.cur
             /\ r.stat[t] = "SUSPEND" /\ r.err[t] = "EOK" /\ OnlyOn(r, t, MpList)
             /\ Len(r.list[MpList]) = Len(s.list[MpList]) + 1
<1> DEFINE one == 1
           a == [s EXCEPT !.err[t] = "EOK"]
           u == rt_timer_stop(rt_schedule_remove_thread([a EXCEPT !.stat[t] = "SUSPEND"], t), t)
           v == [u EXCEPT !.list[MpList] = InsertAt(@, one, t)]
           c == rt_timer_start(v, t, time)
           r == MpBlock(s, t, time)
           q == s.list[MpList]
<1>0. MpList \in WaitList BY MpAssumption
<1>1. /\ KernelOK(a) /\ Kept(s, a) /\ a.stat = s.stat /\ a.list = s.list
      /\ a.err = [s.err EXCEPT ![t] = "EOK"]
  BY SetError DEF Settled, Resting, Error
<1>2. Same(s, a, {t}) BY ErrorSame DEF Settled, Resting, Error
<1>3. r = IF time = Forever THEN [u EXCEPT !.list[MpList] = <<t>> \o @]
          ELSE rt_timer_start([u EXCEPT !.list[MpList] = <<t>> \o @], t, time)
  BY <1>1 DEF MpBlock, rt_thread_suspend
<1>4. a.err[t] = "EOK" BY <1>1, SettledFields
<1> HIDE DEF a
<1>5. /\ KernelOK(u) /\ Kept(a, u) /\ u.stat[t] = "SUSPEND" /\ Off(u, t)
      /\ Same(a, u, {t}) /\ Unmoved(a, u) /\ u.err = a.err
  BY <1>1, SuspendThread, SuspendSame
<1> HIDE DEF u
<1>6. u.list \in [ListHead -> Seq(Thread)] /\ MpList \in ListHead /\ u.list[MpList] = q
  BY <1>0, <1>1, <1>5, KernelFields DEF KernelOK, ListHead, Unmoved
<1>7. q \in Seq(Thread) /\ one \in 1..(Len(q) + 1) /\ one = 1
  <2>1. q \in Seq(Thread) BY <1>6
  <2> QED BY <2>1
<1>8. <<t>> \o q = InsertAt(q, one, t) /\ Len(<<t>> \o q) = Len(q) + 1 BY <1>7, FirstInLine
<1>9. [u EXCEPT !.list[MpList] = <<t>> \o @] = v BY <1>5, <1>6, <1>8 DEF KernelOK, KernelState
<1>10. /\ KernelOK(v) /\ Frame(u, v, t) /\ Kept(u, v) /\ Codes(u, v) /\ v.stat = u.stat
  <2>1. MpList \in WaitList /\ one \in 1..(Len(u.list[MpList]) + 1) BY <1>0, <1>6, <1>7
  <2> HIDE DEF one
  <2> QED BY <1>5, <2>1, WaitOn
<1>11. v.list = [u.list EXCEPT ![MpList] = InsertAt(q, one, t)]
  BY <1>5, <1>6 DEF KernelOK, KernelState
<1> HIDE DEF v
<1>12. ToSet(InsertAt(q, one, t)) = ToSet(q) \cup {t} BY <1>7, InsertList
<1>13. \A l \in WaitList : On(v, l) = IF l = MpList THEN On(u, l) \cup {t} ELSE On(u, l)
  BY <1>6, <1>11, <1>12 DEF On, ListHead
<1>14. Same(u, v, {t}) BY <1>10, <1>13 DEF Same, Frame, Codes
<1>15. Len(v.list[MpList]) = Len(q) + 1 BY <1>6, <1>8, <1>11
<1>16. /\ KernelOK(r) /\ Kept(v, r) /\ r.stat[t] = "SUSPEND" /\ r.err = v.err
       /\ Same(v, r, {t}) /\ Unmoved(v, r)
  <2>1. CASE time = Forever
    <3>1. r = v BY <1>3, <1>9, <2>1
    <3> HIDE DEF r
    <3> QED BY <1>5, <1>10, <3>1 DEF Kept, Same, Unmoved
  <2>2. CASE time # Forever
    <3>1. time \in Nat BY <2>2, BoundAssumption DEF Timeout
    <3>2. r = c BY <1>3, <1>9, <2>2
    <3>3. v.stat[t] = "SUSPEND" BY <1>5, <1>10
    <3>4. KernelOK(c) /\ Kept(v, c) /\ c.stat = v.stat BY <1>10, <3>1, <3>3, TimerStart
    <3>5. Codes(v, c) BY <1>10, TimerCodes DEF KernelOK
    <3>6. Same(v, c, {t}) /\ Unmoved(v, c) BY <1>10, <3>1, <3>3, StartSame
    <3> HIDE DEF c, r
    <3> QED BY <3>2, <3>3, <3>4, <3>5, <3>6 DEF Codes
  <2> QED BY <2>1, <2>2
<1> HIDE DEF r, c
<1>17. Same(s, r, {t})
  <2>1. Same(s, u, {t}) BY <1>2, <1>5, SameTrans
  <2>2. Same(s, v, {t}) BY <1>14, <2>1, SameTrans
  <2> QED BY <1>16, <2>2, SameTrans
<1>18. r.cur = s.cur /\ r.nest = 0 /\ r.err[t] = "EOK"
  BY <1>1, <1>4, <1>5, <1>10, <1>16 DEF Kept, Codes, Settled, Resting
<1>19. Settled(r)
  <2>1. t \in Thread OBVIOUS
  <2> QED BY <1>16, <1>17, <1>18, <2>1, OneAsleep
<1>20. t \in On(r, MpList) /\ Len(r.list[MpList]) = Len(q) + 1
  BY <1>0, <1>13, <1>15, <1>16 DEF Unmoved, On
<1>21. OnlyOn(r, t, MpList) BY <1>0, <1>19, <1>20, SettledFields
<1> QED BY <1>16, <1>17, <1>18, <1>19, <1>20, <1>21 DEF r, q

MpPc == {"run", "sched"} \cup MpLabel
MpWaitPc == {"mp_sched", "mp_back"}
MpClosePc == {"mp_close", "mp_resume", "mp_object"}
Waiting == On(k, MpList)

MpRuns ==
  /\ Settled(k) /\ isr \in {"none", "timer"}
  /\ isr = "timer" => k.timers # <<>>
  /\ k.cur \in Thread /\ (pc[k.cur] = "mp_sched" \/ k.stat[k.cur] = "READY")
  /\ pc \in [Thread -> MpPc] /\ pc[Idle] = "run" /\ timeout \in [Thread -> Timeout]
  /\ \A t \in Waiting : pc[t] \in MpWaitPc
  /\ \A t \in Thread : k.stat[t] = "SUSPEND" => t \in Waiting

\* MpNobodyStranded by sets of threads.
MpCounts ==
  /\ Waiting # {} => mp.block_free_count <= Cardinality(WokenAllocators)
  /\ Cardinality(Waiting) <= mp.suspend_thread_count

\* Once deletion has begun no thread that was woken goes on in its loop, and at
\* its end no thread waits.  One thread deletes.
MpClosing ==
  /\ mpalive \in {"alive", "dying", "gone"}
  /\ mpalive # "alive" => WokenAllocators = {}
  /\ mpalive = "gone" => Waiting = {} /\ out = {}
  /\ \A t \in Thread : pc[t] \in MpClosePc =>
       /\ mpalive = "dying" /\ \A u \in Thread : pc[u] \in MpClosePc => u = t
       /\ pc[t] = "mp_object" => Waiting = {}

MpOK == PoolOK(mp, out) /\ MpRuns /\ MpCounts /\ MpClosing

LEMMA DistinctLen ==
  ASSUME NEW S, NEW q \in Seq(S), NoDup(q)
  PROVE  IsFiniteSet(ToSet(q)) /\ Len(q) = Cardinality(ToSet(q))
<1> DEFINE n == Len(q)
           R == ToSet(q)
<1>1. n \in Nat /\ DOMAIN q = 1..n OBVIOUS
<1>2. q \in Bijection(1..n, R)
  BY <1>1 DEF Bijection, Injection, Surjection, ToSet, IsInjective, NoDup
<1>3. IsFiniteSet(1..n) /\ Cardinality(1..n) = n BY <1>1, FS_Interval
<1>4. IsFiniteSet(R) /\ Cardinality(R) = n BY <1>2, <1>3, FS_Bijection DEF ExistsBijection
<1> QED BY <1>4

\* The list has as many nodes as threads.
LEMMA WaitersLen ==
  ASSUME NEW s, Settled(s)
  PROVE  IsFiniteSet(On(s, MpList)) /\ Len(s.list[MpList]) = Cardinality(On(s, MpList))
<1>1. MpList \in ListHead /\ s.list[MpList] \in Seq(Thread)
  BY SettledFields, MpAssumption
<1>2. NoDup(s.list[MpList]) BY <1>1 DEF Settled, Resting, KernelOK, Apart
<1> QED BY <1>1, <1>2, DistinctLen DEF On

LEMMA MpFacts ==
  ASSUME MpRuns
  PROVE  /\ MpList \in WaitList /\ Idle \in Thread /\ Settled(k) /\ Waiting \subseteq Thread
         /\ k.list[MpList] = <<>> <=> Waiting = {}
         /\ \A t \in Waiting : k.stat[t] = "SUSPEND"
         /\ \A t \in Thread : k.stat[t] = "READY" => t \notin Waiting
         /\ DOMAIN pc = Thread /\ IsFiniteSet(Thread) /\ 0 \in Timeout
<1>1. MpList \in WaitList /\ Idle \in Thread /\ IsFiniteSet(Thread) /\ 0 \in Timeout
  BY MpAssumption, ThreadAssumption, IpcAssumption, BoundAssumption DEF Timeout
<1>2. Settled(k) BY DEF MpRuns
<1>3. /\ Waiting \subseteq Thread /\ (k.list[MpList] = <<>> <=> Waiting = {})
      /\ \A t \in Waiting : k.stat[t] = "SUSPEND"
  BY <1>1, <1>2, SettledFields DEF Waiting
<1>4. \A t \in Thread : k.stat[t] = "READY" => t \notin Waiting
  BY <1>1, <1>2, ReadyOnNone DEF OnNone, Waiting
<1> QED BY <1>1, <1>2, <1>3, <1>4 DEF MpRuns

\* Who was woken, thread by thread.
LEMMA WokenAre ==
  /\ \A t : t \in WokenAllocators <=> /\ t \in Thread /\ pc[t] \in MpWaitPc
                                      /\ t \notin Waiting /\ k.err[t] = "EOK"
  /\ \A t : t \in WokenAllocators' <=> /\ t \in Thread /\ pc'[t] \in MpWaitPc
                                       /\ t \notin Waiting' /\ k'.err[t] = "EOK"
  BY DEF WokenAllocators, MpWaitPc, Waiting, On

LEMMA MpGoes ==
  ASSUME MpRuns, NEW t \in Thread, NEW l \in MpPc, Goto(t, l)
  PROVE  /\ pc' \in [Thread -> MpPc] /\ pc'[t] = l /\ \A u \in Thread : u # t => pc'[u] = pc[u]
         /\ t # Idle \/ l = "run" => pc'[Idle] = "run"
<1>1. pc \in [Thread -> MpPc] /\ pc[Idle] = "run" /\ Idle \in Thread BY ThreadAssumption DEF MpRuns
<1>2. pc' = [pc EXCEPT ![t] = l] BY DEF Goto
<1> QED BY <1>1, <1>2

\* The thread that runs, outside rt_schedule, is ready and does not wait.
LEMMA MpAtWork ==
  ASSUME MpRuns, NEW t \in Thread, NEW l, Running(t, l), l # "mp_sched"
  PROVE  isr = "none" /\ k.cur = t /\ pc[t] = l /\ k.stat[t] = "READY"
         /\ t \notin Waiting /\ (l # "run" => t # Idle)
  BY MpFacts DEF MpRuns, Running

\* What only a caller does.
LEMMA MpCaller ==
  ASSUME MpRuns, NEW t \in Thread, NEW op, Calls(t, op)
  PROVE  /\ isr = "none" /\ k.cur = t /\ pc[t] = "run" /\ k.stat[t] = "READY"
         /\ t \notin Waiting /\ t # Idle
  BY MpAtWork, DriverAssumption DEF Calls

\* The threads of M are made ready or stay so; nobody begins to wait.
LEMMA MpAfter ==
  ASSUME MpRuns, NEW M \in SUBSET Thread, Settled(k'), Same(k, k', M),
         \A u \in M : k'.stat[u] = "READY" /\ OnNone(k', u),
         k'.cur \in Thread, pc'[k'.cur] = "mp_sched" \/ k'.stat[k'.cur] = "READY",
         isr' \in {"none", "timer"}, isr' = "timer" => k'.timers # <<>>,
         pc' \in [Thread -> MpPc], pc'[Idle] = "run", timeout' \in [Thread -> Timeout],
         \A u \in Waiting : pc'[u] \in MpWaitPc
  PROVE  MpRuns' /\ Waiting' = Waiting \ M
<1>1. MpList \in WaitList /\ Waiting \subseteq Thread /\ Waiting' \subseteq Thread
  BY MpFacts, SettledFields DEF Waiting
<1>2. \A u \in M : u \notin Waiting' BY <1>1 DEF OnNone, Waiting
<1>3. \A u \in Thread \ M : /\ u \in Waiting' <=> u \in Waiting
                            /\ k'.stat[u] = k.stat[u]
  BY <1>1 DEF Same, Waiting
<1>4. Waiting' = Waiting \ M BY <1>1, <1>2, <1>3
<1>5. \A u \in Thread : k'.stat[u] = "SUSPEND" => u \in Waiting' BY <1>3 DEF MpRuns
<1> QED BY <1>4, <1>5 DEF MpRuns

\* The pool is left alone and who was woken is as before.
LEMMA MpFewer ==
  ASSUME MpOK, MpRuns', Waiting' \subseteq Waiting, WokenAllocators' = WokenAllocators,
         UNCHANGED mpvars, \A u \in Thread : pc'[u] \in MpClosePc => pc'[u] = pc[u]
  PROVE  MpOK'
<1> USE DEF mpvars
<1>1. PoolOK(mp, out)' BY DEF MpOK
<1>2. MpCounts'
  <2>1. IsFiniteSet(Waiting) BY WaitersLen DEF MpOK, MpRuns, Waiting
  <2>2. IsFiniteSet(Waiting') /\ Cardinality(Waiting') <= Cardinality(Waiting)
    BY <2>1, FS_Subset
  <2>3. Cardinality(Waiting) \in Nat /\ Cardinality(Waiting') \in Nat
    BY <2>1, <2>2, FS_CardinalityType
  <2>4. mp.suspend_thread_count \in Int BY DEF MpOK, PoolOK
  <2>5. Cardinality(Waiting') <= mp.suspend_thread_count BY <2>2, <2>3, <2>4 DEF MpOK, MpCounts
  <2>6. Waiting' # {} => mp.block_free_count <= Cardinality(WokenAllocators)
    BY DEF MpOK, MpCounts
  <2> QED BY <2>5, <2>6 DEF MpCounts
<1>3. MpClosing' BY DEF MpOK, MpClosing
<1> QED BY <1>1, <1>2, <1>3 DEF MpOK

LEMMA MpScheduleOK ==
  ASSUME MpOK, NEW t \in Thread, UNCHANGED mpvars,
         IpcSchedule(t, "mp_sched", "mp_back") \/ IpcSchedule(t, "sched", "run")
  PROVE  MpOK'
<1>1. PICK x, y \in MpPc :
        /\ Running(t, x) /\ k' = rt_schedule(k) /\ Goto(t, y) /\ UNCHANGED <<isr, timeout>>
        /\ <<x, y>> \in {<<"mp_sched", "mp_back">>, <<"sched", "run">>}
  BY DEF IpcSchedule, ScheduleStep, MpPc, MpLabel
<1>2. MpRuns /\ isr = "none" /\ k.cur = t /\ pc[t] = x BY <1>1 DEF Running, MpOK
<1>3. t # Idle BY <1>1, <1>2 DEF MpRuns
<1>4. /\ pc' \in [Thread -> MpPc] /\ pc'[t] = y /\ pc'[Idle] = "run"
      /\ \A u \in Thread : u # t => pc'[u] = pc[u]
  BY <1>1, <1>2, <1>3, MpGoes
<1>5. Settled(k') /\ Same(k, k', {}) /\ Serves(k') BY <1>1, <1>2, ScheduleOK DEF MpRuns
<1>6. \A u \in Thread : pc'[u] \in MpWaitPc <=> pc[u] \in MpWaitPc
  BY <1>1, <1>2, <1>4 DEF MpWaitPc
<1>7. MpRuns' /\ Waiting' = Waiting
  <2> DEFINE M == {}
  <2>1. M \in SUBSET Thread /\ \A u \in M : k'.stat[u] = "READY" /\ OnNone(k', u) OBVIOUS
  <2>2. Same(k, k', M) BY <1>5
  <2>3. Waiting \ M = Waiting OBVIOUS
  <2> HIDE DEF M
  <2>4. \A u \in Waiting : pc'[u] \in MpWaitPc BY <1>2, <1>6, MpFacts DEF MpRuns
  <2> QED BY <1>1, <1>2, <1>4, <1>5, <2>1, <2>2, <2>3, <2>4, MpAfter DEF Serves, MpRuns
<1>8. WokenAllocators' = WokenAllocators
  <2>1. \A u : u \in WokenAllocators' <=> u \in WokenAllocators
    BY <1>5, <1>6, <1>7, WokenAre DEF Same
  <2> QED BY <2>1
<1>9. \A u \in Thread : pc'[u] \in MpClosePc => pc'[u] = pc[u]
  BY <1>1, <1>2, <1>4 DEF MpClosePc
<1> QED BY <1>7, <1>8, <1>9, MpFewer

LEMMA MpTickOK ==
  ASSUME MpOK, IpcTick, UNCHANGED mpvars
  PROVE  MpOK'
<1> USE DEF IpcTick, rt_tick_increase
<1>1. MpRuns BY DEF MpOK
<1>2. Settled(k') /\ Same(k, k', {}) /\ (k'.cur = k.cur \/ Serves(k'))
  BY <1>1, TickOK DEF MpRuns
<1>3. isr' \in {"none", "timer"} /\ (isr' = "timer" => k'.timers # <<>>)
  BY DEF IsrAfter, TimerExpired
<1>4. timeout' \in [Thread -> Timeout]
  BY <1>1, BoundAssumption DEF Elapsed, Timeout, Forever, MpRuns
<1>5. k'.cur \in Thread /\ (pc'[k'.cur] = "mp_sched" \/ k'.stat[k'.cur] = "READY")
  BY <1>1, <1>2 DEF MpRuns, Serves, Same
<1>6. MpRuns' /\ Waiting' = Waiting
  <2> DEFINE M == {}
  <2>1. M \in SUBSET Thread /\ \A u \in M : k'.stat[u] = "READY" /\ OnNone(k', u) OBVIOUS
  <2>2. Same(k, k', M) BY <1>2
  <2>3. Waiting \ M = Waiting OBVIOUS
  <2> HIDE DEF M
  <2> QED BY <1>1, <1>2, <1>3, <1>4, <1>5, <2>1, <2>2, <2>3, MpAfter DEF MpRuns
<1>7. WokenAllocators' = WokenAllocators
  <2>1. \A u : u \in WokenAllocators' <=> u \in WokenAllocators
    BY <1>2, <1>6, WokenAre DEF Same
  <2> QED BY <2>1
<1> QED BY <1>6, <1>7, MpFewer

\* A wait that times out leaves the list, and its thread was not woken.
LEMMA MpTimerOK ==
  ASSUME MpOK, IpcTimerCheck, UNCHANGED mpvars
  PROVE  MpOK'
<1> USE DEF IpcTimerCheck, rt_timer_check
<1> DEFINE h == Head(k.timers)
           M == {h}
<1>1. MpRuns BY DEF MpOK
<1>2. /\ h \in Thread /\ k.stat[h] = "SUSPEND" /\ Settled(k') /\ Same(k, k', {h}) /\ Serves(k')
      /\ k'.stat[h] = "READY" /\ k'.err[h] = "ETIMEOUT" /\ OnNone(k', h)
  BY <1>1, FireOK DEF MpRuns
<1> HIDE DEF h
<1>3. isr' \in {"none", "timer"} /\ (isr' = "timer" => k'.timers # <<>>)
  BY DEF IsrAfter, TimerExpired
<1>4. MpRuns' /\ Waiting' = Waiting \ M
  <2>1. /\ M \in SUBSET Thread /\ Same(k, k', M)
        /\ \A u \in M : k'.stat[u] = "READY" /\ OnNone(k', u)
    BY <1>2
  <2> HIDE DEF M
  <2> QED BY <1>1, <1>2, <1>3, <2>1, MpAfter DEF MpRuns, Serves
<1>5. WokenAllocators' = WokenAllocators
  <2>1. h \in Waiting BY <1>1, <1>2 DEF MpRuns
  <2>2. h \notin WokenAllocators /\ h \notin WokenAllocators' BY <1>2, <2>1, WokenAre
  <2>3. \A u \in Thread \ {h} : u \in WokenAllocators' <=> u \in WokenAllocators
    BY <1>2, <1>4, WokenAre DEF Same
  <2>4. \A u : u \in WokenAllocators' <=> u \in WokenAllocators
    BY <2>2, <2>3, WokenAre
  <2> QED BY <2>4
<1> QED BY <1>4, <1>5, MpFewer

-----------------------------------------------------------------------------
(* rt_mp_alloc and rt_mp_free.                                             *)

\* A call returns, with a block or without one.
LEMMA MpReturned ==
  ASSUME MpRuns, NEW t \in Thread, k.cur = t, k.stat[t] = "READY", isr = "none", Return(t),
         UNCHANGED isr
  PROVE  /\ MpRuns' /\ Waiting' = Waiting /\ WokenAllocators' = WokenAllocators \ {t}
         /\ \A u \in Thread : pc'[u] = IF u = t THEN "run" ELSE pc[u]
<1> DEFINE M == {t}
<1>1. /\ KernelOK(k') /\ Kept(k, k') /\ k'.stat = k.stat /\ k'.list = k.list /\ Still(k, k')
      /\ Same(k, k', M)
  BY SetError, ErrorSame DEF Return, MpRuns, Settled, Resting, Error
<1>2. /\ pc' \in [Thread -> MpPc] /\ pc'[t] = "run" /\ pc'[Idle] = "run"
      /\ \A u \in Thread : u # t => pc'[u] = pc[u]
  BY MpGoes DEF Return, MpPc
<1>3. timeout' \in [Thread -> Timeout] BY MpFacts DEF Return, WaitsFor, MpRuns
<1>4. Settled(k')
  <2>1. k'.stat[t] = "READY" /\ ~Off(k', t) /\ k'.nest = 0
    BY <1>1 DEF Still, Kept, Settled, Resting, MpRuns
  <2> QED BY <1>1, <2>1, OneReady DEF MpRuns
<1>5. OnNone(k', t) BY <1>1, <1>4, ReadyOnNone
<1>6. t \notin Waiting /\ k'.cur = t BY <1>1, MpFacts DEF Kept
<1>7. \A u \in Waiting : pc'[u] \in MpWaitPc BY <1>2, <1>6, MpFacts DEF MpRuns
<1>8. MpRuns' /\ Waiting' = Waiting
  <2>1. M \in SUBSET Thread /\ \A u \in M : k'.stat[u] = "READY" /\ OnNone(k', u)
    BY <1>1, <1>5
  <2>2. Waiting \ M = Waiting BY <1>6
  <2> HIDE DEF M
  <2> QED BY <1>1, <1>2, <1>3, <1>4, <1>6, <1>7, <2>1, <2>2, MpAfter DEF MpRuns
<1>9. WokenAllocators' = WokenAllocators \ {t}
  <2>1. t \notin WokenAllocators' BY <1>2, WokenAre DEF MpWaitPc
  <2>2. \A u \in Thread \ {t} : u \in WokenAllocators' <=> u \in WokenAllocators
    BY <1>1, <1>2, <1>8, WokenAre DEF Same
  <2>3. \A u : u \in WokenAllocators' <=> u \in WokenAllocators /\ u # t
    BY <2>1, <2>2, WokenAre
  <2> QED BY <2>3
<1> QED BY <1>2, <1>8, <1>9

\* A block is taken by t, one of those who were woken or another thread.
LEMMA MpTaken ==
  ASSUME MpOK, MpRuns', Waiting' = Waiting, NEW t, WokenAllocators \ {t} \subseteq WokenAllocators',
         mpalive = "alive", mpalive' = mpalive, mp.block_free_count > 0, mp' = TakeBlock(mp),
         out' = out \cup {Head(mp.block_list)},
         \A u \in Thread : pc'[u] \in MpClosePc => pc[u] \in MpClosePc
  PROVE  MpOK'
<1>1. PoolOK(mp', out') BY PoolTake DEF MpOK
<1>2. /\ mp'.block_free_count = mp.block_free_count - 1
      /\ mp'.suspend_thread_count = mp.suspend_thread_count
      /\ mp.block_free_count \in Nat
  BY DEF TakeBlock, MpOK, PoolOK
<1>3. MpCounts'
  <2> DEFINE W == WokenAllocators
             V == WokenAllocators'
             n == mp.block_free_count
  <2>1. W \in SUBSET Thread /\ V \in SUBSET Thread /\ IsFiniteSet(Thread) /\ n \in Nat
    BY <1>2, WokenAre, IpcAssumption
  <2>2. Waiting # {} => n <= Cardinality(W) BY DEF MpOK, MpCounts
  <2>3. W \ {t} \subseteq V OBVIOUS
  <2> HIDE DEF W, V, n
  <2>4. Waiting # {} => n - 1 <= Cardinality(V) BY <2>1, <2>2, <2>3, WokenCount
  <2> QED BY <1>2, <2>4 DEF MpOK, MpCounts, V, n
<1>4. MpClosing' BY DEF MpOK, MpClosing
<1> QED BY <1>1, <1>3, <1>4 DEF MpOK

\* A caller goes to sleep where no block is free.
LEMMA MpAsleep ==
  ASSUME MpOK, NEW t \in Thread \ {Idle}, k.cur = t, k.stat[t] = "READY", isr = "none", isr' = isr,
         NEW time \in Timeout, mpalive = "alive", UNCHANGED <<mpalive, out>>,
         ~(mp.block_free_count > 0), k' = MpBlock(k, t, time), Goto(t, "mp_sched"),
         WaitsFor(t, time), mp' = [mp EXCEPT !.suspend_thread_count = @ + 1]
  PROVE  MpOK'
<1> DEFINE c == mp.suspend_thread_count + 1
<1>1. /\ MpRuns /\ Settled(k) /\ MpList \in WaitList /\ IsFiniteSet(Thread) /\ t \notin Waiting
      /\ Waiting \subseteq Thread
  BY MpFacts DEF MpOK
<1>2. /\ Settled(k') /\ Same(k, k', {t}) /\ k'.cur = k.cur
      /\ k'.stat[t] = "SUSPEND" /\ OnlyOn(k', t, MpList)
  <2>1. /\ Settled(k) /\ t \in Thread \ {Idle} /\ k.stat[t] = "READY" /\ time \in Timeout
        /\ k' = MpBlock(k, t, time)
    BY <1>1
  <2> QED BY ONLY <2>1, PoolBlockOK
<1>3. /\ pc' \in [Thread -> MpPc] /\ pc'[t] = "mp_sched" /\ pc'[Idle] = "run"
      /\ \A u \in Thread : u # t => pc'[u] = pc[u]
  BY <1>1, MpGoes DEF MpPc, MpLabel
<1>4. timeout' \in [Thread -> Timeout] BY <1>1 DEF WaitsFor, MpRuns
<1>5. Waiting' = Waiting \cup {t}
  <2>1. Waiting' \subseteq Thread /\ t \in Waiting' BY <1>1, <1>2, SettledFields DEF Waiting, OnlyOn
  <2>2. \A u \in Thread : u # t => (u \in Waiting' <=> u \in Waiting) BY <1>1, <1>2 DEF Same, Waiting
  <2> QED BY <1>1, <2>1, <2>2
<1>6. MpRuns'
  <2>1. \A u \in Waiting' : pc'[u] \in MpWaitPc BY <1>1, <1>3, <1>5 DEF MpRuns, MpWaitPc
  <2>2. \A u \in Thread : k'.stat[u] = "SUSPEND" => u \in Waiting'
    BY <1>1, <1>2, <1>5 DEF MpRuns, Same
  <2> QED BY <1>1, <1>2, <1>3, <1>4, <2>1, <2>2 DEF MpRuns
<1>7. mp'.block_free_count = 0 /\ mp'.suspend_thread_count = c /\ mp.suspend_thread_count \in Int
  BY DEF MpOK, PoolOK
<1>8. PoolOK(mp', out')
  <2>1. mp' = [mp EXCEPT !.suspend_thread_count = c] /\ c \in Int BY <1>7
  <2> HIDE DEF c
  <2> QED BY <2>1, PoolCount DEF MpOK
<1>9. MpCounts'
  <2>1. Cardinality(WokenAllocators') \in Nat
    <3>1. WokenAllocators' \subseteq Thread BY WokenAre
    <3> QED BY <1>1, <3>1, FS_Subset, FS_CardinalityType
  <2>2. IsFiniteSet(Waiting) /\ Cardinality(Waiting) \in Nat
    BY <1>1, FS_Subset, FS_CardinalityType
  <2>3. Cardinality(Waiting') = Cardinality(Waiting) + 1 BY <1>1, <1>5, <2>2, FS_AddElement
  <2>4. Cardinality(Waiting) <= mp.suspend_thread_count BY DEF MpOK, MpCounts
  <2> QED BY <1>7, <2>1, <2>2, <2>3, <2>4 DEF MpCounts
<1>10. MpClosing'
  <2>1. \A u \in Thread : pc'[u] \in MpClosePc => pc[u] \in MpClosePc
    BY <1>3 DEF MpClosePc
  <2> QED BY <2>1 DEF MpOK, MpClosing
<1> QED BY <1>6, <1>8, <1>9, <1>10 DEF MpOK

\* The loop of rt_mp_alloc.
LEMMA AllocBodyOK ==
  ASSUME MpOK, NEW t \in Thread \ {Idle}, k.cur = t, k.stat[t] = "READY", isr = "none", isr' = isr,
         NEW time \in Timeout, mpalive = "alive", mpalive' = mpalive, AllocBody(t, time)
  PROVE  MpOK'
<1>1. MpRuns /\ t \in Thread BY DEF MpOK
<1>2. CASE mp.block_free_count > 0
  <2>1. mp' = TakeBlock(mp) /\ out' = out \cup {Head(mp.block_list)} /\ Return(t)
    BY <1>2 DEF AllocBody
  <2>2. /\ MpRuns' /\ Waiting' = Waiting /\ WokenAllocators' = WokenAllocators \ {t}
        /\ \A u \in Thread : pc'[u] = IF u = t THEN "run" ELSE pc[u]
    BY <1>1, <2>1, MpReturned
  <2>3. \A u \in Thread : pc'[u] \in MpClosePc => pc[u] \in MpClosePc BY <2>2 DEF MpClosePc
  <2> QED BY <1>2, <2>1, <2>2, <2>3, MpTaken
<1>3. CASE ~(mp.block_free_count > 0) /\ time = 0
  <2>1. UNCHANGED <<mp, out>> /\ Return(t) BY <1>3 DEF AllocBody
  <2>2. /\ MpRuns' /\ Waiting' = Waiting /\ WokenAllocators' \subseteq WokenAllocators
        /\ \A u \in Thread : pc'[u] = IF u = t THEN "run" ELSE pc[u]
    BY <1>1, <2>1, MpReturned
  <2>3. MpCounts'
    <3>1. WokenAllocators' \subseteq Thread BY WokenAre
    <3>2. Cardinality(WokenAllocators') \in Nat
      BY <3>1, IpcAssumption, FS_Subset, FS_CardinalityType
    <3>3. mp'.block_free_count = 0 BY <1>3, <2>1 DEF MpOK, PoolOK
    <3> QED BY <2>1, <2>2, <3>2, <3>3 DEF MpCounts, MpOK
  <2>4. MpClosing' BY <2>2 DEF MpOK, MpClosing, MpClosePc
  <2> QED BY <2>1, <2>2, <2>3, <2>4 DEF MpOK
<1>4. CASE ~(mp.block_free_count > 0) /\ time # 0
  BY <1>4, MpAsleep DEF AllocBody
<1> QED BY <1>2, <1>3, <1>4

LEMMA MpAllocOK ==
  ASSUME MpOK, NEW t \in Thread, NEW time \in Timeout, MpAlloc(t, time)
  PROVE  MpOK'
<1>1. /\ mpalive = "alive" /\ AllocBody(t, time) /\ isr' = isr /\ mpalive' = mpalive
      /\ \E op : Calls(t, op)
  BY DEF MpAlloc
<1>2. isr = "none" /\ k.cur = t /\ k.stat[t] = "READY" /\ t # Idle
  BY <1>1, MpCaller DEF MpOK
<1> QED BY <1>1, <1>2, AllocBodyOK

\* Woken without an error, the thread was woken while the pool was there.
LEMMA MpBackOK ==
  ASSUME MpOK, NEW t \in Thread, MpBack(t)
  PROVE  MpOK'
<1>1. MpRuns /\ Running(t, "mp_back") /\ isr' = isr /\ mpalive' = mpalive BY DEF MpBack, MpOK
<1>2. /\ isr = "none" /\ k.cur = t /\ pc[t] = "mp_back" /\ k.stat[t] = "READY"
      /\ t \notin Waiting /\ t # Idle
  BY <1>1, MpAtWork
<1>3. CASE k.err[t] = "EOK"
  <2>1. t \in WokenAllocators BY <1>2, <1>3, WokenAre DEF MpWaitPc
  <2>2. mpalive = "alive" /\ timeout[t] \in Timeout BY <2>1 DEF MpOK, MpClosing, MpRuns
  <2> QED BY <1>1, <1>2, <1>3, <2>2, AllocBodyOK DEF MpBack
<1>4. CASE k.err[t] # "EOK"
  <2>1. Return(t) /\ UNCHANGED <<mp, out>> BY <1>4 DEF MpBack
  <2>2. t \notin WokenAllocators BY <1>4, WokenAre
  <2>3. /\ MpRuns' /\ Waiting' = Waiting /\ WokenAllocators' = WokenAllocators \ {t}
        /\ \A u \in Thread : pc'[u] = IF u = t THEN "run" ELSE pc[u]
    BY <1>1, <1>2, <2>1, MpReturned
  <2>4. WokenAllocators' = WokenAllocators BY <2>2, <2>3
  <2>5. \A u \in Thread : pc'[u] \in MpClosePc => pc'[u] = pc[u] BY <2>3 DEF MpClosePc
  <2> QED BY <1>1, <2>1, <2>3, <2>4, <2>5, MpFewer DEF mpvars
<1> QED BY <1>3, <1>4

LEMMA MpIsrAllocOK ==
  ASSUME MpOK, MpIsrAlloc
  PROVE  MpOK'
<1> USE DEF MpIsrAlloc
<1>1. Waiting' = Waiting BY DEF Waiting
<1>2. WokenAllocators' = WokenAllocators BY DEF WokenAllocators
<1>3. MpRuns' BY <1>1 DEF MpOK, MpRuns
<1>4. \A u \in Thread : pc'[u] \in MpClosePc => pc[u] \in MpClosePc OBVIOUS
<1> QED BY <1>1, <1>2, <1>3, <1>4, MpTaken

\* The thread that is made ready is the first of those who wait.
LEMMA WokenOneOK ==
  ASSUME NEW s, Settled(s), s.list[MpList] # <<>>
  PROVE  LET t == Head(s.list[MpList])
             r == WokenOne(s)
         IN  /\ t \in Thread /\ t \in On(s, MpList) /\ Settled(r) /\ Same(s, r, {t}) /\ r.cur = s.cur
             /\ r.stat[t] = "READY" /\ r.err[t] = "EOK" /\ OnNone(r, t)
<1> DEFINE t == Head(s.list[MpList])
           a == [s EXCEPT !.err[t] = "EOK"]
           r == WokenOne(s)
<1>1. /\ t \in Thread /\ t \in On(s, MpList) /\ s.stat[t] = "SUSPEND"
      /\ s.err \in [Thread -> Error]
  BY SettledFields, MpAssumption
<1> HIDE DEF t
<1>2. /\ KernelOK(a) /\ Kept(s, a) /\ a.err = [s.err EXCEPT ![t] = "EOK"] /\ a.stat = s.stat
      /\ Same(s, a, {t})
  BY <1>1, SetError, ErrorSame DEF Settled, Resting, Error
<1>3. r = rt_thread_resume(a, t) BY DEF WokenOne, t
<1> HIDE DEF a, r
<1>4. Settled(a) /\ a.stat[t] = "SUSPEND" BY <1>1, <1>2, OneAsleep DEF Kept, Settled, Resting
<1>5. /\ Settled(r) /\ Same(a, r, {t}) /\ r.cur = a.cur
      /\ r.stat[t] = "READY" /\ r.err = a.err /\ OnNone(r, t)
  BY <1>1, <1>3, <1>4, ResumeOne
<1>6. Same(s, r, {t}) BY <1>2, <1>5, SameTrans
<1>7. r.cur = s.cur /\ r.err[t] = "EOK" BY <1>1, <1>2, <1>5 DEF Kept
<1> QED BY <1>1, <1>5, <1>6, <1>7 DEF t, r

LEMMA MpWakes ==
  ASSUME MpRuns, NEW h \in Waiting, Settled(k'), Same(k, k', {h}), k'.stat[h] = "READY",
         k'.err[h] = "EOK", OnNone(k', h), Serves(k'), isr = "none", UNCHANGED <<isr, timeout>>,
         pc' \in [Thread -> MpPc], pc'[Idle] = "run",
         \A u \in Thread : pc'[u] \in MpWaitPc <=> pc[u] \in MpWaitPc
  PROVE  MpRuns' /\ Waiting' = Waiting \ {h} /\ WokenAllocators' = WokenAllocators \cup {h}
<1> DEFINE M == {h}
<1>1. h \in Thread /\ Waiting \subseteq Thread /\ pc[h] \in MpWaitPc BY MpFacts DEF MpRuns
<1>2. MpRuns' /\ Waiting' = Waiting \ M
  <2>1. /\ M \in SUBSET Thread /\ Same(k, k', M)
        /\ \A u \in M : k'.stat[u] = "READY" /\ OnNone(k', u)
    BY <1>1
  <2>2. \A u \in Waiting : pc'[u] \in MpWaitPc BY <1>1 DEF MpRuns
  <2> HIDE DEF M
  <2> QED BY <2>1, <2>2, MpAfter DEF MpRuns, Serves
<1>3. h \in WokenAllocators' BY <1>1, <1>2, WokenAre
<1>4. \A u \in Thread \ {h} : u \in WokenAllocators' <=> u \in WokenAllocators
  BY <1>2, WokenAre DEF Same
<1>5. \A u : u \in WokenAllocators' <=> u \in WokenAllocators \/ u = h
  BY <1>3, <1>4, WokenAre
<1> QED BY <1>2, <1>5

\* One block more, and one thread more that was woken if any waits.
LEMMA MpGiven ==
  ASSUME MpOK, MpRuns', NEW b \in Block, FreeBody(b), mpalive' = mpalive,
         \A u \in Thread : pc'[u] \in MpClosePc => pc[u] \in MpClosePc,
         \/ /\ ~WakesWaiter(mp) /\ Waiting' = Waiting
         \/ /\ WakesWaiter(mp)
            /\ \E h \in Waiting : /\ Waiting' = Waiting \ {h}
                                  /\ WokenAllocators' = WokenAllocators \cup {h}
  PROVE  MpOK'
<1> DEFINE p == Linked(b)
           c == p.suspend_thread_count - 1
<1>1. /\ b \in out /\ out' = out \ {b} /\ mpalive = "alive"
      /\ mp' = IF WakesWaiter(mp) THEN [p EXCEPT !.suspend_thread_count = c] ELSE p
  BY DEF FreeBody
<1>2. PoolOK(p, out') BY <1>1, PoolGive DEF MpOK
<1>3. /\ c \in Int /\ p.suspend_thread_count = mp.suspend_thread_count
      /\ c = mp.suspend_thread_count - 1 /\ p.block_free_count = mp.block_free_count + 1
      /\ mp.suspend_thread_count \in Int /\ mp.block_free_count \in Nat
  BY <1>2 DEF PoolOK, Linked, MpOK
<1>4. /\ mp'.block_free_count = mp.block_free_count + 1
      /\ mp'.suspend_thread_count = IF WakesWaiter(mp) THEN mp.suspend_thread_count - 1
                                    ELSE mp.suspend_thread_count
  BY <1>1, <1>2, <1>3 DEF PoolOK
<1> HIDE DEF p, c
<1>5. PoolOK(mp', out')
  <2>1. PoolOK([p EXCEPT !.suspend_thread_count = c], out') BY <1>2, <1>3, PoolCount
  <2> QED BY <1>1, <1>2, <2>1
<1>6. Waiting \subseteq Thread /\ IsFiniteSet(Waiting) /\ Cardinality(Waiting) \in Nat
  BY MpFacts, FS_Subset, FS_CardinalityType DEF MpOK
<1>7. /\ Waiting # {} => mp.block_free_count <= Cardinality(WokenAllocators)
      /\ Cardinality(Waiting) <= mp.suspend_thread_count
  BY DEF MpOK, MpCounts
<1>8. MpCounts'
  <2>1. CASE ~WakesWaiter(mp) /\ Waiting' = Waiting
    <3>1. Cardinality(Waiting) = 0 BY <1>3, <1>6, <1>7, <2>1 DEF WakesWaiter
    <3>2. Waiting = {} BY <1>6, <3>1, FS_EmptySet
    <3> QED BY <1>3, <1>4, <1>7, <2>1, <3>2 DEF MpCounts
  <2>2. ASSUME WakesWaiter(mp), NEW h \in Waiting, Waiting' = Waiting \ {h},
               WokenAllocators' = WokenAllocators \cup {h}
        PROVE  MpCounts'
    <3>1. Cardinality(Waiting') = Cardinality(Waiting) - 1 BY <1>6, <2>2, FS_RemoveElement
    <3> DEFINE W == WokenAllocators
               V == WokenAllocators'
               n == mp.block_free_count
    <3>2. /\ W \in SUBSET Thread /\ V \in SUBSET Thread /\ IsFiniteSet(Thread) /\ n \in Nat
          /\ h \in Thread \ W /\ V = W \cup {h} /\ n <= Cardinality(W)
      BY <1>3, <1>6, <1>7, <2>2, WokenAre, IpcAssumption
    <3> HIDE DEF W, V, n
    <3>3. n + 1 <= Cardinality(V) BY <3>2, WokenCount
    <3> QED BY <1>3, <1>4, <1>6, <1>7, <2>2, <3>1, <3>3 DEF MpCounts, V, n
  <2> QED BY <2>1, <2>2
<1>9. MpClosing' BY <1>1 DEF MpOK, MpClosing
<1> QED BY <1>5, <1>8, <1>9 DEF MpOK

LEMMA MpFreeOK ==
  ASSUME MpOK, NEW t \in Thread, NEW b \in Block, MpFree(t, b)
  PROVE  MpOK'
<1> DEFINE l == IF WakesWaiter(mp) THEN "sched" ELSE "run"
<1>1. /\ MpRuns /\ FreeBody(b) /\ Calls(t, "mp_free") /\ Goto(t, l) /\ UNCHANGED <<isr, timeout, mpalive>>
      /\ k' = IF WakesWaiter(mp) THEN WokenOne(k) ELSE k
  BY DEF MpFree, MpOK
<1>2. /\ isr = "none" /\ k.cur = t /\ pc[t] = "run" /\ k.stat[t] = "READY"
      /\ t \notin Waiting /\ t # Idle
  BY <1>1, MpCaller
<1>3. /\ pc' \in [Thread -> MpPc] /\ pc'[t] = l /\ pc'[Idle] = "run"
      /\ \A u \in Thread : u # t => pc'[u] = pc[u]
  BY <1>1, <1>2, MpGoes DEF MpPc
<1>4. \A u \in Thread : /\ pc'[u] \in MpWaitPc <=> pc[u] \in MpWaitPc
                        /\ pc'[u] \in MpClosePc => pc[u] \in MpClosePc
  BY <1>2, <1>3 DEF MpWaitPc, MpClosePc
<1>5. CASE WakesWaiter(mp)
  <2> DEFINE h == Head(k.list[MpList])
  <2>1. k.list[MpList] # <<>> /\ k' = WokenOne(k) BY <1>1, <1>5 DEF FreeBody
  <2>2. /\ h \in Waiting /\ Settled(k') /\ Same(k, k', {h}) /\ k'.cur = k.cur
        /\ k'.stat[h] = "READY" /\ k'.err[h] = "EOK" /\ OnNone(k', h)
    BY <1>1, <2>1, WokenOneOK DEF MpRuns, Waiting
  <2> HIDE DEF h
  <2>3. Serves(k') BY <1>2, <2>2 DEF Serves, Same
  <2>4. MpRuns' /\ Waiting' = Waiting \ {h} /\ WokenAllocators' = WokenAllocators \cup {h}
    BY <1>1, <1>2, <1>3, <1>4, <2>2, <2>3, MpWakes
  <2> QED BY <1>1, <1>4, <1>5, <2>2, <2>4, MpGiven
<1>6. CASE ~WakesWaiter(mp)
  <2>1. k' = k BY <1>1, <1>6
  <2>2. Waiting' = Waiting BY <2>1 DEF Waiting
  <2>3. \A u \in Waiting : pc'[u] \in MpWaitPc BY <1>1, <1>4, MpFacts DEF MpRuns
  <2>4. MpRuns'
    <3> HIDE DEF l
    <3> QED BY <1>1, <1>2, <1>3, <2>1, <2>2, <2>3 DEF MpRuns
  <2> QED BY <1>1, <1>4, <1>6, <2>2, <2>4, MpGiven
<1> QED BY <1>5, <1>6

LEMMA MpIsrFreeOK ==
  ASSUME MpOK, NEW b \in Block, MpIsrFree(b)
  PROVE  MpOK'
<1>1. /\ MpRuns /\ FreeBody(b) /\ isr = "none" /\ UNCHANGED <<isr, pc, timeout, mpalive>>
      /\ k' = IF WakesWaiter(mp) THEN rt_schedule(WokenOne(k)) ELSE k
  BY DEF MpIsrFree, MpOK
<1>2. CASE WakesWaiter(mp)
  <2> DEFINE h == Head(k.list[MpList])
             r == WokenOne(k)
  <2>1. k.list[MpList] # <<>> /\ k' = rt_schedule(r) BY <1>1, <1>2 DEF FreeBody
  <2>2. /\ h \in Waiting /\ h \in Thread /\ Settled(r) /\ Same(k, r, {h})
        /\ r.stat[h] = "READY" /\ r.err[h] = "EOK" /\ OnNone(r, h)
    BY <1>1, <2>1, WokenOneOK DEF MpRuns, Waiting
  <2> HIDE DEF h, r
  <2>3. Settled(k') /\ Same(r, k', {}) /\ Serves(k') BY <2>1, <2>2, ScheduleOK
  <2>4. /\ Same(k, k', {h}) /\ k'.stat[h] = "READY" /\ k'.err[h] = "EOK" /\ OnNone(k', h)
    BY <2>2, <2>3 DEF Same, OnNone
  <2>5. MpRuns' /\ Waiting' = Waiting \ {h} /\ WokenAllocators' = WokenAllocators \cup {h}
    BY <1>1, <2>2, <2>3, <2>4, MpWakes DEF MpRuns
  <2> QED BY <1>1, <1>2, <2>2, <2>5, MpGiven
<1>3. CASE ~WakesWaiter(mp)
  <2>1. k' = k BY <1>1, <1>3
  <2>2. Waiting' = Waiting BY <2>1 DEF Waiting
  <2>3. MpRuns' BY <1>1, <2>1, <2>2 DEF MpRuns
  <2> QED BY <1>1, <1>3, <2>2, <2>3, MpGiven
<1> QED BY <1>2, <1>3

-----------------------------------------------------------------------------
(* rt_mp_delete and a new pool in the same place.                          *)

LEMMA MpDeleteOK ==
  ASSUME MpOK, NEW t \in Thread, MpDelete(t)
  PROVE  MpOK'
<1>1. /\ MpRuns /\ Calls(t, "mp_delete") /\ mpalive = "alive" /\ WokenAllocators = {}
      /\ mpalive' = "dying" /\ Goto(t, "mp_close") /\ UNCHANGED <<k, isr, timeout, mp, out>>
  BY DEF MpDelete, MpOK
<1>2. /\ isr = "none" /\ k.cur = t /\ pc[t] = "run" /\ k.stat[t] = "READY"
      /\ t \notin Waiting /\ t # Idle
  BY <1>1, MpCaller
<1>3. /\ pc' \in [Thread -> MpPc] /\ pc'[t] = "mp_close" /\ pc'[Idle] = "run"
      /\ \A u \in Thread : u # t => pc'[u] = pc[u]
  BY <1>1, <1>2, MpGoes DEF MpPc, MpLabel
<1>4. Waiting' = Waiting BY <1>1 DEF Waiting
<1>5. \A u \in Thread : pc'[u] \in MpWaitPc <=> pc[u] \in MpWaitPc BY <1>2, <1>3 DEF MpWaitPc
<1>6. \A u : u \in WokenAllocators' <=> u \in WokenAllocators BY <1>1, <1>4, <1>5, WokenAre
<1>7. WokenAllocators' = {} BY <1>1, <1>6
<1>8. MpRuns' BY <1>1, <1>2, <1>3, <1>4, <1>5, MpFacts DEF MpRuns
<1>9. MpCounts' BY <1>1, <1>4, <1>7 DEF MpOK, MpCounts
<1>10. MpClosing'
  <2>1. \A u \in Thread : pc[u] \notin MpClosePc BY <1>1 DEF MpOK, MpClosing
  <2>2. \A u \in Thread : pc'[u] \in MpClosePc => u = t /\ pc'[u] = "mp_close" BY <1>3, <2>1
  <2> QED BY <1>1, <1>7, <2>2 DEF MpClosing
<1> QED BY <1>1, <1>8, <1>9, <1>10 DEF MpOK

\* The loop that fails who still waits: its test, or one waiter and its place
\* in the count.
LEMMA MpDeleteResumeOK ==
  ASSUME MpOK, NEW t \in Thread, MpDeleteResume(t)
  PROVE  MpOK'
<1>1. MpRuns /\ UNCHANGED <<isr, timeout, out, mpalive>> BY DEF MpDeleteResume, MpOK
<1>2. CASE /\ Running(t, "mp_close") /\ UNCHANGED k
           /\ Goto(t, IF k.list[MpList] # <<>> THEN "mp_resume" ELSE "mp_object")
  <2> DEFINE l == IF k.list[MpList] # <<>> THEN "mp_resume" ELSE "mp_object"
  <2>1. /\ isr = "none" /\ k.cur = t /\ pc[t] = "mp_close" /\ k.stat[t] = "READY" /\ t # Idle
        /\ t \notin Waiting
    BY <1>1, <1>2, MpAtWork
  <2>2. mp' = mp BY <2>1 DEF MpDeleteResume
  <2>3. /\ pc' \in [Thread -> MpPc] /\ pc'[t] = l /\ pc'[Idle] = "run"
        /\ \A u \in Thread : u # t => pc'[u] = pc[u]
    BY <1>1, <1>2, <2>1, MpGoes DEF MpPc, MpLabel
  <2>4. /\ l \in MpClosePc /\ l \notin MpWaitPc /\ (l = "mp_object" => Waiting = {})
    BY <1>1, MpFacts DEF MpClosePc, MpWaitPc
  <2> HIDE DEF l
  <2>5. Waiting' = Waiting BY <1>2 DEF Waiting
  <2>6. \A u \in Thread : /\ pc'[u] \in MpWaitPc <=> pc[u] \in MpWaitPc
                          /\ pc'[u] \in MpClosePc <=> pc[u] \in MpClosePc
    BY <2>1, <2>3, <2>4 DEF MpWaitPc, MpClosePc
  <2>7. \A u : u \in WokenAllocators' <=> u \in WokenAllocators BY <1>2, <2>5, <2>6, WokenAre
  <2>8. WokenAllocators' = WokenAllocators BY <2>7
  <2>9. MpRuns' BY <1>1, <1>2, <2>1, <2>3, <2>5, <2>6, MpFacts DEF MpRuns
  <2>10. MpCounts' BY <2>2, <2>5, <2>8 DEF MpOK, MpCounts
  <2>11. MpClosing'
    <3>1. mpalive = "dying" /\ \A u \in Thread : pc[u] \in MpClosePc => u = t
      BY <2>1 DEF MpOK, MpClosing, MpClosePc
    <3>2. \A u \in Thread : pc'[u] \in MpClosePc => u = t /\ pc'[u] = l BY <2>3, <2>6, <3>1
    <3> QED BY <1>1, <2>4, <2>5, <2>8, <3>1, <3>2 DEF MpOK, MpClosing
  <2> QED BY <1>1, <2>2, <2>9, <2>10, <2>11 DEF MpOK
<1>3. CASE /\ Running(t, "mp_resume") /\ k.list[MpList] # <<>>
           /\ k' = ResumeWithError(k, MpList) /\ Goto(t, "mp_close")
  <2> DEFINE h == Head(k.list[MpList])
             M == {h}
             c == mp.suspend_thread_count - 1
  <2>1. /\ isr = "none" /\ k.cur = t /\ pc[t] = "mp_resume" /\ k.stat[t] = "READY" /\ t # Idle
        /\ t \notin Waiting
    BY <1>1, <1>3, MpAtWork
  <2>2. mp' = [mp EXCEPT !.suspend_thread_count = c] BY <2>1 DEF MpDeleteResume
  <2>3. /\ pc' \in [Thread -> MpPc] /\ pc'[t] = "mp_close" /\ pc'[Idle] = "run"
        /\ \A u \in Thread : u # t => pc'[u] = pc[u]
    BY <1>1, <1>3, <2>1, MpGoes DEF MpPc, MpLabel
  <2>4. /\ h \in Thread /\ h \in Waiting /\ k.stat[h] = "SUSPEND" /\ Settled(k') /\ Same(k, k', {h})
        /\ k'.cur = k.cur /\ k'.stat[h] = "READY" /\ k'.err[h] = "ERROR" /\ OnNone(k', h)
    BY <1>1, <1>3, MpFacts, ErrorOK DEF Waiting
  <2> HIDE DEF h
  <2>5. k'.stat[t] = "READY" BY <2>1, <2>4 DEF Same
  <2>6. \A u \in Thread : /\ pc'[u] \in MpWaitPc <=> pc[u] \in MpWaitPc
                          /\ pc'[u] \in MpClosePc <=> pc[u] \in MpClosePc
    BY <2>1, <2>3 DEF MpWaitPc, MpClosePc
  <2>7. MpRuns' /\ Waiting' = Waiting \ M
    <3>1. M \in SUBSET Thread /\ Same(k, k', M) /\ \A u \in M : k'.stat[u] = "READY" /\ OnNone(k', u)
      BY <2>4
    <3>2. \A u \in Waiting : pc'[u] \in MpWaitPc BY <1>1, <2>6, MpFacts DEF MpRuns
    <3> HIDE DEF M
    <3> QED BY <1>1, <2>1, <2>3, <2>4, <2>5, <3>1, <3>2, MpAfter DEF MpRuns
  <2>8. WokenAllocators' = WokenAllocators
    <3>1. h \notin WokenAllocators /\ h \notin WokenAllocators' BY <2>4, WokenAre
    <3>2. \A u \in Thread \ {h} : u \in WokenAllocators' <=> u \in WokenAllocators
      BY <2>4, <2>6, <2>7, WokenAre DEF Same
    <3>3. \A u : u \in WokenAllocators' <=> u \in WokenAllocators BY <3>1, <3>2, WokenAre
    <3> QED BY <3>3
  <2>9. /\ c \in Int /\ mp'.suspend_thread_count = c /\ mp'.block_free_count = mp.block_free_count
        /\ mp.suspend_thread_count \in Int
    BY <2>2 DEF MpOK, PoolOK
  <2>10. PoolOK(mp', out')
    <3> HIDE DEF c
    <3>1. PoolOK([mp EXCEPT !.suspend_thread_count = c], out) BY <2>9, PoolCount DEF MpOK
    <3> QED BY <1>1, <2>2, <3>1
  <2>11. MpCounts'
    <3>1. IsFiniteSet(Waiting) /\ Cardinality(Waiting) \in Nat
      BY <1>1, MpFacts, FS_Subset, FS_CardinalityType
    <3>2. Cardinality(Waiting') = Cardinality(Waiting) - 1
      BY <2>4, <2>7, <3>1, FS_RemoveElement
    <3> QED BY <2>7, <2>8, <2>9, <3>1, <3>2 DEF MpOK, MpCounts
  <2>12. MpClosing'
    <3>1. /\ mpalive = "dying" /\ \A u \in Thread : pc[u] \in MpClosePc => u = t
      BY <2>1 DEF MpOK, MpClosing, MpClosePc
    <3>2. \A u \in Thread : pc'[u] \in MpClosePc => u = t /\ pc'[u] = "mp_close" BY <2>3, <2>6, <3>1
    <3> QED BY <1>1, <2>8, <3>1, <3>2 DEF MpOK, MpClosing
  <2> QED BY <2>7, <2>10, <2>11, <2>12 DEF MpOK
<1> QED BY <1>2, <1>3 DEF MpDeleteResume, CloseList

LEMMA MpDeleteObjectOK ==
  ASSUME MpOK, NEW t \in Thread, MpDeleteObject(t)
  PROVE  MpOK'
<1>1. /\ MpRuns /\ Running(t, "mp_object") /\ mpalive' = "gone" /\ mp' = NewPool /\ out' = {}
      /\ Goto(t, "run") /\ UNCHANGED <<k, isr, timeout>>
  BY DEF MpDeleteObject, MpOK
<1>2. /\ isr = "none" /\ k.cur = t /\ pc[t] = "mp_object" /\ k.stat[t] = "READY"
      /\ t \notin Waiting /\ t # Idle
  BY <1>1, MpAtWork
<1>3. /\ pc' \in [Thread -> MpPc] /\ pc'[t] = "run" /\ pc'[Idle] = "run"
      /\ \A u \in Thread : u # t => pc'[u] = pc[u]
  BY <1>1, <1>2, MpGoes DEF MpPc
<1>4. /\ Waiting = {} /\ WokenAllocators = {} /\ \A u \in Thread : pc[u] \in MpClosePc => u = t
  BY <1>2 DEF MpOK, MpClosing, MpClosePc
<1>5. Waiting' = {} BY <1>1, <1>4 DEF Waiting
<1>6. \A u \in Thread : pc'[u] \in MpWaitPc <=> pc[u] \in MpWaitPc BY <1>2, <1>3 DEF MpWaitPc
<1>7. \A u : u \in WokenAllocators' <=> u \in WokenAllocators BY <1>1, <1>4, <1>5, <1>6, WokenAre
<1>8. WokenAllocators' = {} BY <1>4, <1>7
<1>9. MpRuns' BY <1>1, <1>2, <1>3, <1>4, <1>5 DEF MpRuns
<1>10. PoolOK(mp', out') BY <1>1, PoolNew
<1>11. MpCounts' BY <1>1, <1>5, FS_EmptySet DEF MpCounts, NewPool
<1>12. MpClosing' BY <1>1, <1>3, <1>4, <1>5, <1>8 DEF MpClosing, MpClosePc
<1> QED BY <1>9, <1>10, <1>11, <1>12 DEF MpOK

LEMMA MpCreateOK ==
  ASSUME MpOK, NEW t \in Thread, MpCreate(t)
  PROVE  MpOK'
<1>1. /\ MpRuns /\ Calls(t, "mp_create") /\ mpalive = "gone" /\ mpalive' = "alive" /\ mp' = NewPool
      /\ k' = [k EXCEPT !.list[MpList] = <<>>] /\ UNCHANGED <<isr, pc, timeout, out>>
  BY DEF MpCreate, MpOK
<1>2. Waiting = {} /\ out = {} /\ WokenAllocators = {} BY <1>1 DEF MpOK, MpClosing
<1>3. k' = k
  <2>1. k \in KernelState /\ MpList \in ListHead /\ k.list \in [ListHead -> Seq(Thread)]
    BY <1>1, SettledFields, MpFacts
  <2>2. k.list[MpList] = <<>> BY <1>1, <1>2, MpFacts
  <2>3. [k.list EXCEPT ![MpList] = <<>>] = k.list BY <2>1, <2>2
  <2>4. k' = [k EXCEPT !.list = [k.list EXCEPT ![MpList] = <<>>]] BY <1>1, <2>1 DEF KernelState
  <2>5. [k EXCEPT !.list = k.list] = k BY <2>1 DEF KernelState
  <2> QED BY <2>3, <2>4, <2>5
<1>4. Waiting' = {} BY <1>2, <1>3 DEF Waiting
<1>5. \A u : u \in WokenAllocators' <=> u \in WokenAllocators BY <1>1, <1>2, <1>3, <1>4, WokenAre
<1>6. WokenAllocators' = {} BY <1>2, <1>5
<1>7. MpRuns' BY <1>1, <1>2, <1>3, <1>4 DEF MpRuns
<1>8. PoolOK(mp', out') BY <1>1, <1>2, PoolNew
<1>9. MpCounts' BY <1>1, <1>4, FS_EmptySet DEF MpCounts, NewPool
<1>10. MpClosing'
  <2>1. \A u \in Thread : pc[u] \notin MpClosePc BY <1>1 DEF MpOK, MpClosing
  <2> QED BY <1>1, <2>1 DEF MpClosing
<1> QED BY <1>7, <1>8, <1>9, <1>10 DEF MpOK

-----------------------------------------------------------------------------
(* The pool in every state.                                                *)

\* While the driver uses another helper the pool is as it was made.
MpInv == PoolOK(mp, out) /\ (helper = "mempool" => MpOK)

LEMMA MpInvInit ==
  ASSUME Init
  PROVE  MpInv
<1> USE DEF Init
<1>1. /\ mp = NewPool /\ out = {} /\ mpalive = "alive" /\ isr = "none"
      /\ pc = [t \in Thread |-> "run"] /\ timeout = [t \in Thread |-> 0]
  BY DEF MpInit, IpcInit
<1>2. PoolOK(mp, out) BY <1>1, PoolNew
<1>3. /\ KernelOK(k) /\ k.nest = 0 /\ k.cur \in Thread
      /\ \A t \in Thread : k.stat[t] = "READY" /\ ~Off(k, t)
  BY BootedOK, IpcAssumption DEF IpcInit
<1>4. Settled(k) BY <1>3 DEF Settled, Resting
<1>5. Waiting = {}
  <2>1. MpList \in WaitList BY MpAssumption
  <2>2. Waiting \subseteq Thread /\ \A t \in Waiting : k.stat[t] = "SUSPEND"
    BY <1>4, <2>1, SettledFields DEF Waiting
  <2> QED BY <1>3, <2>2
<1>6. MpRuns
  BY <1>1, <1>3, <1>4, <1>5, ThreadAssumption, BoundAssumption DEF MpRuns, MpPc, Timeout
<1>7. MpCounts BY <1>1, <1>5, FS_EmptySet DEF MpCounts, NewPool
<1>8. MpClosing BY <1>1 DEF MpClosing, MpClosePc
<1> QED BY <1>2, <1>6, <1>7, <1>8 DEF MpInv, MpOK

LEMMA MpInvNext ==
  ASSUME MpInv, [Next]_vars
  PROVE  MpInv'
<1>1. CASE UNCHANGED vars
  <2>1. UNCHANGED <<mpvars, k, isr, pc, timeout, helper>> BY <1>1 DEF vars
  <2>2. Waiting' = Waiting /\ WokenAllocators' = WokenAllocators
    BY <2>1 DEF Waiting, WokenAllocators
  <2>3. MpOK => MpOK'
    BY <2>1, <2>2 DEF mpvars, MpOK, MpRuns, MpCounts, MpClosing
  <2> QED BY <2>1, <2>3 DEF MpInv, mpvars
<1>2. CASE Next
  <2>1. helper' = helper BY <1>2 DEF Next
  <2>2. CASE UNCHANGED mpvars /\ helper # "mempool" BY <2>1, <2>2 DEF MpInv, mpvars
  <2>3. CASE helper = "mempool" /\ MpNext
    <3>1. MpOK BY <2>3 DEF MpInv
    <3>2. ASSUME NEW t \in Thread, MpStep(t) PROVE MpOK'
      BY <3>1, <3>2, MpAllocOK, MpScheduleOK, MpBackOK, MpFreeOK, MpDeleteOK, MpDeleteResumeOK,
         MpDeleteObjectOK, MpCreateOK DEF MpStep, MpSchedule
    <3>3. MpInterrupt => MpOK' BY <3>1, MpIsrAllocOK, MpIsrFreeOK DEF MpInterrupt
    <3>4. MpOK' BY <2>3, <3>2, <3>3 DEF MpNext
    <3> QED BY <2>1, <3>4 DEF MpInv, MpOK
  <2>4. CASE /\ helper = "mempool" /\ UNCHANGED mpvars
             /\ (\E t \in Thread : Schedule(t)) \/ Tick \/ TimerCheck
    <3>1. (\E t \in Thread : IpcSchedule(t, "sched", "run")) \/ IpcTick \/ IpcTimerCheck
      BY <2>4 DEF Schedule, Tick, TimerCheck
    <3>2. MpOK' BY <2>4, <3>1, MpScheduleOK, MpTickOK, MpTimerOK DEF MpInv
    <3> QED BY <2>1, <3>2 DEF MpInv, MpOK
  <2> QED BY <1>2, <2>2, <2>3, <2>4 DEF Next
<1> QED BY <1>1, <1>2

\* The pool is in order and counts whom it must wake, and no other helper
\* touches it, whatever threads and blocks there are.
THEOREM MpInvariance == Spec => []MpInv
<1>1. Init => MpInv BY MpInvInit
<1>2. MpInv /\ [Next]_vars => MpInv' BY MpInvNext
<1> QED BY <1>1, <1>2, PTL DEF Spec

\* Every block of the pool and of the heap is free or in one pair of hands, and
\* the counters that rt_mp_alloc and the statistics rely on are right, however
\* allocations, frees, time-outs and a deletion follow each other.
THEOREM EveryBlockAccounted == Spec => []BlocksAccounted
<1>1. ASSUME MpInv PROVE MpBlocksAccounted
  BY <1>1 DEF MpInv, PoolOK, MpBlocksAccounted, NoDup, IsInjective
<1> QED BY <1>1, MpInvariance, HeapIsAccounted, PTL DEF BlocksAccounted

\* No thread waits for a block that is free, but for the blocks that threads
\* which were woken are about to take, and suspend_thread_count hides no waiter
\* from rt_mp_free although a wait that timed out leaves it too high.
THEOREM PoolStrandsNobody == Spec => [](helper = "mempool" => MpNobodyStranded)
<1>1. ASSUME MpInv PROVE helper = "mempool" => MpNobodyStranded
  <2> SUFFICES ASSUME helper = "mempool" PROVE MpNobodyStranded OBVIOUS
  <2>1. MpRuns /\ MpCounts BY <1>1 DEF MpInv, MpOK
  <2>2. Len(k.list[MpList]) = Cardinality(Waiting) BY <2>1, WaitersLen DEF MpRuns, Waiting
  <2>3. k.list[MpList] = <<>> <=> Waiting = {} BY <2>1, MpFacts
  <2> QED BY <2>1, <2>2, <2>3 DEF MpCounts, MpNobodyStranded
<1> QED BY <1>1, MpInvariance, PTL
=============================================================================
