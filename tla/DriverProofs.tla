---------------------------- MODULE DriverProofs -----------------------------
(***************************************************************************)
(* The pipe, the data queue, the completion and the work queue of a driver,*)
(* for buffers of any size: the ring buffer is a queue of bytes, and stays *)
(* a legal ring whatever threads do with the pipe; the data queue is a     *)
(* bounded queue; and no thread waits on a helper for what is there.       *)
(***************************************************************************)
EXTENDS MemoryProofs

\* The mirrors differ when the writer has passed the end once more than the
\* reader; with equal indices they may or may not.
RingOK(rb) ==
  /\ rb \in Ring
  /\ rb.write_index > rb.read_index => rb.read_mirror = rb.write_mirror
  /\ rb.write_index < rb.read_index => rb.read_mirror # rb.write_mirror

\* How far a writer at w is ahead of a reader at r, on the same side or not.
Gap(r, w, rm, wm) == IF w > r THEN w - r
                   ELSE IF w < r THEN w - r + BufSize
                   ELSE IF rm = wm THEN 0 ELSE BufSize

\* What the indices and mirrors say of the number of bytes.
LEMMA LenOK ==
  ASSUME NEW rb \in Ring
  PROVE  /\ DataLen(rb) \in 0..BufSize
         /\ DataLen(rb) = Gap(rb.read_index, rb.write_index, rb.read_mirror, rb.write_mirror)
<1>1. rb.read_index \in 0..(BufSize - 1) /\ rb.write_index \in 0..(BufSize - 1)
  BY DEF Ring
<1>2. CASE rb.read_index # rb.write_index
  <2>1. RingStatus(rb) = "HALFFULL" BY <1>2 DEF RingStatus
  <2>2. DataLen(rb) = IF rb.write_index > rb.read_index THEN rb.write_index - rb.read_index
                      ELSE BufSize - (rb.read_index - rb.write_index)
    BY <2>1 DEF DataLen
  <2> QED BY <1>1, <1>2, <2>2, RingAssumption DEF Gap
<1>3. CASE rb.read_index = rb.write_index /\ rb.read_mirror = rb.write_mirror
  BY <1>1, <1>3, RingAssumption DEF DataLen, RingStatus, Gap
<1>4. CASE rb.read_index = rb.write_index /\ rb.read_mirror # rb.write_mirror
  <2>1. RingStatus(rb) = "FULL" BY <1>4 DEF RingStatus
  <2>2. DataLen(rb) = BufSize BY <2>1 DEF DataLen
  <2> QED BY <1>1, <1>4, <2>2, RingAssumption DEF Gap
<1> QED BY <1>2, <1>3, <1>4

\* A write of what there is room for moves the write index alone.
LEMMA WrittenIndex ==
  ASSUME NEW rb \in Ring, NEW data \in Seq(Byte), Len(data) <= BufSize
  PROVE  /\ Written(rb, data) \in Ring
         /\ Written(rb, data).read_index = rb.read_index
         /\ Written(rb, data).read_mirror = rb.read_mirror
         /\ Written(rb, data).write_index = Ahead(rb.write_index, Len(data))
         /\ Written(rb, data).write_mirror = Mirror(rb.write_mirror, rb.write_index, Len(data))
         /\ Written(rb, data).buffer = Copied(rb, data)
<1>1. Copied(rb, data) \in [0..(BufSize - 1) -> Byte]
  <2>1. ASSUME NEW i \in 0..(BufSize - 1), Distance(i, rb.write_index) < Len(data)
        PROVE  data[Distance(i, rb.write_index) + 1] \in Byte
    BY <2>1, RingAssumption DEF Distance, Ring
  <2>2. ASSUME NEW i \in 0..(BufSize - 1) PROVE rb.buffer[i] \in Byte
    BY <2>2 DEF Ring
  <2> QED BY <2>1, <2>2 DEF Copied
<1>2. Ahead(rb.write_index, Len(data)) \in 0..(BufSize - 1)
  BY RingAssumption DEF Ahead, Stays, Ring
<1>3. Mirror(rb.write_mirror, rb.write_index, Len(data)) \in 0..1
  BY RingAssumption DEF Mirror, Stays, Ring
<1> QED BY <1>1, <1>2, <1>3 DEF Written, Ring

\* Where the indices of a ring are.
LEMMA Indices ==
  ASSUME NEW rb \in Ring
  PROVE  /\ BufSize \in Nat \ {0}
         /\ rb.read_index \in 0..(BufSize - 1) /\ rb.write_index \in 0..(BufSize - 1)
         /\ rb.read_mirror \in {0, 1} /\ rb.write_mirror \in {0, 1}
         /\ rb.buffer \in [0..(BufSize - 1) -> Byte]
  BY RingAssumption DEF Ring

\* A writer that moves by n, at most what it may, is n further ahead.
LEMMA GapGrows ==
  ASSUME NEW r \in 0..(BufSize - 1), NEW w \in 0..(BufSize - 1),
         NEW rm \in {0, 1}, NEW wm \in {0, 1},
         w > r => rm = wm, w < r => rm # wm,
         NEW n \in Nat, n <= BufSize - Gap(r, w, rm, wm)
  PROVE  LET v == Ahead(w, n)
             vm == Mirror(wm, w, n)
         IN  /\ v \in 0..(BufSize - 1) /\ vm \in {0, 1}
             /\ v > r => rm = vm
             /\ v < r => rm # vm
             /\ Gap(r, v, rm, vm) = Gap(r, w, rm, wm) + n
<1>1. BufSize \in Nat \ {0} BY RingAssumption
<1>2. CASE BufSize - w > n
  BY <1>1, <1>2 DEF Gap, Ahead, Mirror, Stays
<1>3. CASE ~(BufSize - w > n)
  <2>1. Ahead(w, n) = n - (BufSize - w) /\ Mirror(wm, w, n) = 1 - wm
    BY <1>3 DEF Ahead, Mirror, Stays
  <2>2. CASE w > r BY <1>1, <1>3, <2>1, <2>2 DEF Gap
  <2>3. CASE w < r BY <1>1, <1>3, <2>1, <2>3 DEF Gap
  <2>4. CASE w = r /\ rm = wm BY <1>1, <1>3, <2>1, <2>4 DEF Gap
  <2>5. CASE w = r /\ rm # wm BY <1>1, <1>3, <2>1, <2>5 DEF Gap
  <2> QED BY <1>1, <2>2, <2>3, <2>4, <2>5
<1> QED BY <1>2, <1>3

\* Place i of the ring lies in front of the writer or behind it.
LEMMA PlaceOfByte ==
  ASSUME NEW r \in 0..(BufSize - 1), NEW w \in 0..(BufSize - 1), NEW rm \in {0, 1}, NEW wm \in {0, 1},
         NEW i \in 1..BufSize
  PROVE  /\ Place(r, i - 1) \in 0..(BufSize - 1)
         /\ Distance(Place(r, i - 1), w) = IF i <= Gap(r, w, rm, wm)
                                           THEN i - 1 - Gap(r, w, rm, wm) + BufSize
                                           ELSE i - 1 - Gap(r, w, rm, wm)
<1>1. BufSize \in Nat \ {0} BY RingAssumption
<1>2. CASE w > r BY <1>1, <1>2 DEF Place, Distance, Gap
<1>3. CASE w < r BY <1>1, <1>3 DEF Place, Distance, Gap
<1>4. CASE w = r BY <1>1, <1>4 DEF Place, Distance, Gap
<1> QED BY <1>1, <1>2, <1>3, <1>4

\* A write that fits adds its length.
LEMMA WrittenLen ==
  ASSUME NEW rb, RingOK(rb), NEW data \in Seq(Byte), Len(data) <= SpaceLen(rb)
  PROVE  /\ RingOK(Written(rb, data))
         /\ DataLen(Written(rb, data)) = DataLen(rb) + Len(data)
<1> DEFINE w == Written(rb, data)
           n == Len(data)
<1>1. rb \in Ring BY DEF RingOK
<1>2. n \in Nat /\ n <= BufSize - DataLen(rb) /\ n <= BufSize
  BY <1>1, LenOK, Indices DEF SpaceLen
<1>3. /\ w \in Ring
      /\ w.read_index = rb.read_index /\ w.read_mirror = rb.read_mirror
      /\ w.write_index = Ahead(rb.write_index, n)
      /\ w.write_mirror = Mirror(rb.write_mirror, rb.write_index, n)
  BY <1>1, <1>2, WrittenIndex
<1>4. DataLen(w) = Gap(w.read_index, w.write_index, w.read_mirror, w.write_mirror)
  BY <1>3, LenOK
<1>5. DataLen(rb) = Gap(rb.read_index, rb.write_index, rb.read_mirror, rb.write_mirror)
  BY <1>1, LenOK
<1>6. /\ rb.read_index \in 0..(BufSize - 1) /\ rb.write_index \in 0..(BufSize - 1)
      /\ rb.read_mirror \in {0, 1} /\ rb.write_mirror \in {0, 1}
      /\ rb.write_index > rb.read_index => rb.read_mirror = rb.write_mirror
      /\ rb.write_index < rb.read_index => rb.read_mirror # rb.write_mirror
  BY <1>1, Indices DEF RingOK
<1> HIDE DEF w, n
<1>7. /\ w.write_index > w.read_index => w.read_mirror = w.write_mirror
      /\ w.write_index < w.read_index => w.read_mirror # w.write_mirror
      /\ DataLen(w) = DataLen(rb) + n
  BY <1>2, <1>3, <1>4, <1>5, <1>6, GapGrows
<1> QED BY <1>3, <1>7 DEF RingOK, w, n

\* What is in the ring is a sequence of bytes.
LEMMA ContentOK ==
  ASSUME NEW rb \in Ring
  PROVE  /\ Content(rb) \in Seq(Byte) /\ Len(Content(rb)) = DataLen(rb)
         /\ \A i \in 1..DataLen(rb) : Content(rb)[i] = rb.buffer[Place(rb.read_index, i - 1)]
<1>1. \A i \in 1..DataLen(rb) : Place(rb.read_index, i - 1) \in 0..(BufSize - 1)
  BY LenOK, Indices DEF Place
<1>2. Content(rb) \in [1..DataLen(rb) -> Byte]
  BY <1>1, Indices DEF Content
<1> QED BY <1>2, LenOK DEF Content

\* A write that fits appends.
LEMMA WrittenContent ==
  ASSUME NEW rb, RingOK(rb), NEW data \in Seq(Byte), Len(data) <= SpaceLen(rb)
  PROVE  Content(Written(rb, data)) = Content(rb) \o data
<1> DEFINE w == Written(rb, data)
           q == Content(rb)
<1>1. rb \in Ring BY DEF RingOK
<1>2. /\ Len(data) \in Nat /\ Len(data) <= BufSize - DataLen(rb)
      /\ DataLen(rb) \in 0..BufSize /\ BufSize \in Nat
  BY <1>1, LenOK, Indices DEF SpaceLen
<1>3. w \in Ring /\ w.read_index = rb.read_index /\ w.buffer = Copied(rb, data)
  BY <1>1, <1>2, WrittenIndex
<1>4. DataLen(w) = DataLen(rb) + Len(data) BY WrittenLen
<1>5. /\ Content(w) \in Seq(Byte) /\ Len(Content(w)) = DataLen(rb) + Len(data)
      /\ q \in Seq(Byte) /\ Len(q) = DataLen(rb)
  BY <1>1, <1>3, <1>4, ContentOK
<1> HIDE DEF w, q
<1>6. ASSUME NEW i \in 1..(DataLen(rb) + Len(data))
      PROVE  Content(w)[i] = (q \o data)[i]
  <2> DEFINE p == Place(rb.read_index, i - 1)
  <2>1. /\ p \in 0..(BufSize - 1)
        /\ Distance(p, rb.write_index) = IF i <= DataLen(rb) THEN i - 1 - DataLen(rb) + BufSize
                                         ELSE i - 1 - DataLen(rb)
    <3>1. i \in 1..BufSize BY <1>2
    <3>2. DataLen(rb) = Gap(rb.read_index, rb.write_index, rb.read_mirror, rb.write_mirror)
      BY <1>1, LenOK
    <3>3. /\ rb.read_index \in 0..(BufSize - 1) /\ rb.write_index \in 0..(BufSize - 1)
          /\ rb.read_mirror \in {0, 1} /\ rb.write_mirror \in {0, 1}
      BY <1>1, Indices
    <3>4. LET gap == Gap(rb.read_index, rb.write_index, rb.read_mirror, rb.write_mirror)
          IN  /\ Place(rb.read_index, i - 1) \in 0..(BufSize - 1)
              /\ Distance(Place(rb.read_index, i - 1), rb.write_index) =
                   IF i <= gap THEN i - 1 - gap + BufSize ELSE i - 1 - gap
      BY <3>1, <3>3, PlaceOfByte
    <3> HIDE DEF p
    <3> QED BY <3>2, <3>4 DEF p
  <2>2. Content(w)[i] = Copied(rb, data)[p] BY <1>3, <1>4, ContentOK
  <2>3. Content(w)[i] = IF Distance(p, rb.write_index) < Len(data)
                        THEN data[Distance(p, rb.write_index) + 1] ELSE rb.buffer[p]
    BY <2>1, <2>2 DEF Copied
  <2>4. CASE i <= DataLen(rb)
    <3>1. Content(w)[i] = rb.buffer[p] BY <1>2, <2>1, <2>3, <2>4
    <3>2. q[i] = rb.buffer[p] BY <1>1, <1>2, <2>4, ContentOK DEF q
    <3> QED BY <1>2, <1>5, <2>4, <3>1, <3>2
  <2>5. CASE i > DataLen(rb)
    <3>1. Content(w)[i] = data[i - DataLen(rb)] BY <1>2, <2>1, <2>3, <2>5
    <3> QED BY <1>2, <1>5, <2>5, <3>1
  <2> HIDE DEF p
  <2>6. i \in Int /\ DataLen(rb) \in Int BY <1>2
  <2>7. i <= DataLen(rb) \/ i > DataLen(rb) BY <2>6
  <2> QED BY <2>4, <2>5, <2>7, Zenon
<1>7. q \o data \in Seq(Byte) /\ Len(q \o data) = DataLen(rb) + Len(data)
  BY <1>5
<1>8. Content(w) = q \o data
  BY <1>5, <1>6, <1>7, SeqEqual
<1> QED BY <1>8 DEF w, q

-----------------------------------------------------------------------------
(* The calls.                                                              *)

\* A part of a sequence.
LEMMA PartOK ==
  ASSUME NEW S, NEW q \in Seq(S), NEW m \in 1..(Len(q) + 1), NEW n \in (m - 1)..Len(q)
  PROVE  /\ SubSeq(q, m, n) \in Seq(S) /\ Len(SubSeq(q, m, n)) = n - m + 1
         /\ \A i \in 1..(n - m + 1) : SubSeq(q, m, n)[i] = q[i + m - 1]
  BY SubSeqProperties

\* rt_ringbuffer_put appends what there is room for.
LEMMA PutOK ==
  ASSUME NEW rb, RingOK(rb), NEW data \in Seq(Byte)
  PROVE  /\ RingOK(RingPut(rb, data))
         /\ Content(RingPut(rb, data)) =
              Content(rb) \o SubSeq(data, 1, Lower(Len(data), BufSize - Len(Content(rb))))
<1> DEFINE n == Lower(Len(data), SpaceLen(rb))
<1>1. rb \in Ring BY DEF RingOK
<1>2. SpaceLen(rb) \in Nat BY <1>1, LenOK, Indices DEF SpaceLen
<1>3. n \in 0..Len(data) /\ n <= SpaceLen(rb) BY <1>2 DEF Lower
<1>4. SubSeq(data, 1, n) \in Seq(Byte) /\ Len(SubSeq(data, 1, n)) = n
  BY <1>3, PartOK
<1>5. RingOK(Written(rb, SubSeq(data, 1, n))) BY <1>3, <1>4, WrittenLen
<1>6. Content(Written(rb, SubSeq(data, 1, n))) = Content(rb) \o SubSeq(data, 1, n)
  BY <1>3, <1>4, WrittenContent
<1>7. SpaceLen(rb) = BufSize - Len(Content(rb)) BY <1>1, ContentOK DEF SpaceLen
<1> QED BY <1>5, <1>6, <1>7 DEF RingPut

\* A reader that moves by n, at most the gap, leaves a gap smaller by n.
LEMMA GapShrinks ==
  ASSUME NEW r \in 0..(BufSize - 1), NEW w \in 0..(BufSize - 1),
         NEW rm \in {0, 1}, NEW wm \in {0, 1},
         w > r => rm = wm, w < r => rm # wm,
         NEW n \in Nat, n <= Gap(r, w, rm, wm)
  PROVE  LET v == Ahead(r, n)
             vm == Mirror(rm, r, n)
         IN  /\ v \in 0..(BufSize - 1) /\ vm \in {0, 1}
             /\ w > v => vm = wm
             /\ w < v => vm # wm
             /\ Gap(v, w, vm, wm) = Gap(r, w, rm, wm) - n
             /\ \A i \in 1..(BufSize - n) : Place(v, i - 1) = Place(r, (n + i) - 1)
<1>1. BufSize \in Nat \ {0} BY RingAssumption
<1>2. CASE BufSize - r > n
  BY <1>1, <1>2 DEF Gap, Ahead, Mirror, Stays, Place
<1>3. CASE ~(BufSize - r > n)
  <2>1. Ahead(r, n) = n - (BufSize - r) /\ Mirror(rm, r, n) = 1 - rm
    BY <1>3 DEF Ahead, Mirror, Stays
  <2>2. CASE w > r BY <1>1, <1>3, <2>1, <2>2 DEF Gap, Place
  <2>3. CASE w < r BY <1>1, <1>3, <2>1, <2>3 DEF Gap, Place
  <2>4. CASE w = r /\ rm = wm BY <1>1, <1>3, <2>1, <2>4 DEF Gap, Place
  <2>5. CASE w = r /\ rm # wm BY <1>1, <1>3, <2>1, <2>5 DEF Gap, Place
  <2> QED BY <1>1, <2>2, <2>3, <2>4, <2>5
<1> QED BY <1>2, <1>3

\* rt_ringbuffer_get takes the oldest bytes.
LEMMA GetOK ==
  ASSUME NEW rb, RingOK(rb), NEW length \in Nat
  PROVE  /\ RingOK(RingGet(rb, length))
         /\ RingData(rb, length) \o Content(RingGet(rb, length)) = Content(rb)
<1> DEFINE n == Lower(length, DataLen(rb))
           g == RingGet(rb, length)
           q == Content(rb)
<1>1. rb \in Ring BY DEF RingOK
<1>2. n \in Nat /\ n <= DataLen(rb) /\ DataLen(rb) \in 0..BufSize /\ BufSize \in Nat
  BY <1>1, LenOK, Indices DEF Lower
<1>3. DataLen(rb) = Gap(rb.read_index, rb.write_index, rb.read_mirror, rb.write_mirror)
  BY <1>1, LenOK
<1>4. /\ rb.read_index \in 0..(BufSize - 1) /\ rb.write_index \in 0..(BufSize - 1)
      /\ rb.read_mirror \in {0, 1} /\ rb.write_mirror \in {0, 1}
      /\ rb.write_index > rb.read_index => rb.read_mirror = rb.write_mirror
      /\ rb.write_index < rb.read_index => rb.read_mirror # rb.write_mirror
  BY <1>1, Indices DEF RingOK
<1>5. LET v == Ahead(rb.read_index, n)
          vm == Mirror(rb.read_mirror, rb.read_index, n)
      IN  /\ v \in 0..(BufSize - 1) /\ vm \in {0, 1}
          /\ rb.write_index > v => vm = rb.write_mirror
          /\ rb.write_index < v => vm # rb.write_mirror
          /\ Gap(v, rb.write_index, vm, rb.write_mirror) = DataLen(rb) - n
          /\ \A i \in 1..(BufSize - n) : Place(v, i - 1) = Place(rb.read_index, (n + i) - 1)
  <2> HIDE DEF n
  <2> QED BY <1>2, <1>3, <1>4, GapShrinks
<1>6. /\ g.read_index = Ahead(rb.read_index, n)
      /\ g.read_mirror = Mirror(rb.read_mirror, rb.read_index, n)
      /\ g.write_index = rb.write_index /\ g.write_mirror = rb.write_mirror
      /\ g.buffer = rb.buffer
  BY <1>1 DEF RingGet, Ring
<1>7. g \in Ring
  <2>1. /\ Ahead(rb.read_index, n) \in 0..(BufSize - 1)
        /\ Mirror(rb.read_mirror, rb.read_index, n) \in 0..1
    BY <1>5
  <2>2. g = [rb EXCEPT !.read_mirror = Mirror(rb.read_mirror, rb.read_index, n),
                       !.read_index = Ahead(rb.read_index, n)]
    BY DEF RingGet
  <2> HIDE DEF n, g
  <2> QED BY <1>1, <2>1, <2>2 DEF Ring
<1>8. DataLen(g) = DataLen(rb) - n
  BY <1>5, <1>6, <1>7, LenOK
<1>9. RingOK(g) BY <1>5, <1>6, <1>7 DEF RingOK
<1>10. /\ q \in Seq(Byte) /\ Len(q) = DataLen(rb)
       /\ Content(g) \in Seq(Byte) /\ Len(Content(g)) = DataLen(rb) - n
  BY <1>1, <1>7, <1>8, ContentOK
<1>11. ASSUME NEW i \in 1..(DataLen(rb) - n) PROVE Content(g)[i] = q[n + i]
  <2> HIDE DEF n
  <2>1. i \in 1..(BufSize - n) /\ n + i \in 1..DataLen(rb) BY <1>2
  <2>2. Content(g)[i] = rb.buffer[Place(g.read_index, i - 1)]
    BY <1>6, <1>7, <1>8, ContentOK
  <2>3. q[n + i] = rb.buffer[Place(rb.read_index, (n + i) - 1)]
    <3>1. \A m \in 1..DataLen(rb) : q[m] = rb.buffer[Place(rb.read_index, m - 1)]
      BY <1>1, ContentOK
    <3> HIDE DEF q
    <3> QED BY <2>1, <3>1, Zenon
  <2> QED BY <1>5, <1>6, <2>1, <2>2, <2>3
<1> HIDE DEF n, g, q
<1>12. /\ SubSeq(q, 1, n) \in Seq(Byte) /\ Len(SubSeq(q, 1, n)) = n
       /\ \A i \in 1..n : SubSeq(q, 1, n)[i] = q[i]
  BY <1>2, <1>10, PartOK
<1>13. SubSeq(q, 1, n) \o Content(g) = q
  <2> DEFINE s == SubSeq(q, 1, n) \o Content(g)
  <2>1. s \in Seq(Byte) /\ Len(s) = Len(q) BY <1>2, <1>10, <1>12
  <2>2. ASSUME NEW i \in 1..Len(s) PROVE s[i] = q[i]
    <3>1. CASE i <= n BY <1>2, <1>10, <1>12, <2>1, <3>1
    <3>2. CASE i > n BY <1>2, <1>10, <1>11, <1>12, <2>1, <3>2
    <3>3. i <= n \/ i > n BY <1>2, <1>10, <2>1
    <3> QED BY <3>1, <3>2, <3>3, Zenon
  <2> HIDE DEF s
  <2>3. s = q BY <1>10, <2>1, <2>2, SeqEqual
  <2> QED BY <2>3 DEF s
<1> QED BY <1>9, <1>13 DEF RingData, n, g, q

\* The place of a byte that a forced put leaves, seen from the reader of before.
LEMMA PlaceAfterForce ==
  ASSUME NEW r \in 0..(BufSize - 1), NEW w \in 0..(BufSize - 1),
         NEW rm \in {0, 1}, NEW wm \in {0, 1},
         w > r => rm = wm, w < r => rm # wm,
         NEW n \in 0..BufSize, n > BufSize - Gap(r, w, rm, wm),
         NEW i \in 1..BufSize
  PROVE  LET v == Ahead(w, n)
             p == Place(v, i - 1)
             j == i + n - BufSize
         IN  /\ v \in 0..(BufSize - 1) /\ p \in 0..(BufSize - 1)
             /\ Distance(p, w) = IF j >= 1 THEN j - 1 ELSE i - 1 + n
             /\ j < 1 => p = Place(r, Gap(r, w, rm, wm) + j - 1)
<1>1. BufSize \in Nat \ {0} BY RingAssumption
<1>2. CASE BufSize - w > n
  <2>1. Ahead(w, n) = w + n BY <1>2 DEF Ahead, Stays
  <2>2. CASE w > r BY <1>1, <1>2, <2>1, <2>2 DEF Gap, Place, Distance
  <2>3. CASE w < r BY <1>1, <1>2, <2>1, <2>3 DEF Gap, Place, Distance
  <2>4. CASE w = r BY <1>1, <1>2, <2>1, <2>4 DEF Gap, Place, Distance
  <2> QED BY <1>1, <2>2, <2>3, <2>4
<1>3. CASE ~(BufSize - w > n)
  <2>1. Ahead(w, n) = n - (BufSize - w) BY <1>3 DEF Ahead, Stays
  <2>2. CASE w > r BY <1>1, <1>3, <2>1, <2>2 DEF Gap, Place, Distance
  <2>3. CASE w < r BY <1>1, <1>3, <2>1, <2>3 DEF Gap, Place, Distance
  <2>4. CASE w = r BY <1>1, <1>3, <2>1, <2>4 DEF Gap, Place, Distance
  <2> QED BY <1>1, <2>2, <2>3, <2>4
<1> QED BY <1>2, <1>3

\* rt_ringbuffer_put_force keeps the newest bytes, or loses all.
LEMMA PutForceOK ==
  ASSUME NEW rb, RingOK(rb), NEW data \in Seq(Byte)
  PROVE  /\ RingOK(RingPutForce(rb, data))
         /\ Content(RingPutForce(rb, data)) =
              IF LosesAll(rb, data) THEN <<>> ELSE Newest(Content(rb) \o data)
<1> DEFINE n == Lower(Len(data), BufSize)
           kept == SubSeq(data, Len(data) - n + 1, Len(data))
           w == Written(rb, kept)
           q == Content(rb)
           f == [w EXCEPT !.read_index = w.write_index,
                          !.read_mirror = Mirror(w.read_mirror, rb.write_index, n)]
<1>1. rb \in Ring BY DEF RingOK
<1>2. /\ BufSize \in Nat \ {0} /\ Len(data) \in Nat /\ DataLen(rb) \in 0..BufSize
      /\ n \in 0..BufSize /\ n <= Len(data)
      /\ n = Len(data) \/ (n = BufSize /\ n < Len(data))
  BY <1>1, LenOK, Indices DEF Lower
<1> HIDE DEF n
<1>3. /\ kept \in Seq(Byte) /\ Len(kept) = n
      /\ \A i \in 1..n : kept[i] = data[i + (Len(data) - n)]
  <2>1. /\ Len(data) - n + 1 \in 1..(Len(data) + 1)
        /\ Len(data) \in ((Len(data) - n + 1) - 1)..Len(data)
        /\ Len(data) - (Len(data) - n + 1) + 1 = n
    BY <1>2
  <2>2. /\ kept \in Seq(Byte) /\ Len(kept) = Len(data) - (Len(data) - n + 1) + 1
        /\ \A i \in 1..n : kept[i] = data[(i + (Len(data) - n + 1)) - 1]
    BY <2>1, PartOK
  <2> QED BY <1>2, <2>1, <2>2
<1> HIDE DEF kept
<1>4. q \in Seq(Byte) /\ Len(q) = DataLen(rb) BY <1>1, ContentOK
<1>5. RingPutForce(rb, data) = IF n <= SpaceLen(rb) THEN w ELSE f
  BY <1>3 DEF RingPutForce, kept, n
<1> HIDE DEF q
<1> DEFINE all == q \o data
           size == Lower(Len(all), BufSize)
<1>6. /\ all \in Seq(Byte) /\ Len(all) = DataLen(rb) + Len(data)
      /\ \A i \in 1..Len(q) : all[i] = q[i]
      /\ \A i \in 1..Len(data) : all[i + Len(q)] = data[i]
  BY <1>4
<1> HIDE DEF all
<1>7. /\ Newest(all) \in Seq(Byte) /\ Len(Newest(all)) = size
      /\ \A i \in 1..size : Newest(all)[i] = all[i + (Len(all) - size)]
      /\ size \in Nat /\ size <= BufSize /\ size <= Len(all)
  <2>1. size \in Nat /\ size <= BufSize /\ size <= Len(all) /\ Len(all) \in Nat
    BY <1>2, <1>6 DEF Lower
  <2> HIDE DEF size
  <2>2. /\ Len(all) - size + 1 \in 1..(Len(all) + 1)
        /\ Len(all) \in ((Len(all) - size + 1) - 1)..Len(all)
        /\ Len(all) - (Len(all) - size + 1) + 1 = size
    BY <2>1
  <2>3. LET s == SubSeq(all, Len(all) - size + 1, Len(all))
        IN  /\ s \in Seq(Byte) /\ Len(s) = Len(all) - (Len(all) - size + 1) + 1
            /\ \A i \in 1..size : s[i] = all[(i + (Len(all) - size + 1)) - 1]
    BY <1>6, <2>1, <2>2, PartOK
  <2>4. Newest(all) = SubSeq(all, Len(all) - size + 1, Len(all))
    BY DEF Newest, size
  <2> QED BY <2>1, <2>2, <2>3, <2>4
<1>8. CASE n <= SpaceLen(rb)
  <2>1. RingOK(w) /\ Content(w) = q \o kept
    BY <1>3, <1>8, WrittenLen, WrittenContent DEF q
  <2>2. q \o kept = Newest(all)
    <3>1. Len(q \o kept) = size /\ q \o kept \in Seq(Byte)
      BY <1>1, <1>2, <1>3, <1>4, <1>6, <1>8 DEF SpaceLen, Lower
    <3>2. ASSUME NEW i \in 1..size PROVE (q \o kept)[i] = Newest(all)[i]
      <4>1. CASE n = Len(data)
        <5>1. size = DataLen(rb) + Len(data) BY <1>2, <1>6, <1>8, <4>1 DEF SpaceLen, Lower
        <5>2. Newest(all)[i] = all[i]
          <6>1. i \in Int /\ i + (Len(all) - size) = i BY <1>2, <1>6, <1>7, <5>1
          <6> QED BY <1>7, <6>1
        <5>3. CASE i <= DataLen(rb)
          BY <1>2, <1>3, <1>4, <1>6, <5>1, <5>2, <5>3
        <5>4. CASE i > DataLen(rb)
          <6> DEFINE j == i - DataLen(rb)
          <6>1. j \in 1..Len(data) /\ i = j + Len(q) BY <1>2, <1>4, <5>1, <5>4
          <6>2. (q \o kept)[j + Len(q)] = kept[j] BY <1>3, <1>4, <4>1, <6>1
          <6>3. kept[j] = data[j] BY <1>2, <1>3, <4>1, <6>1
          <6>4. all[j + Len(q)] = data[j] BY <1>6, <6>1
          <6> HIDE DEF j
          <6> QED BY <5>2, <6>1, <6>2, <6>3, <6>4
        <5>5. i <= DataLen(rb) \/ i > DataLen(rb) BY <1>2
        <5> QED BY <5>3, <5>4, <5>5, Zenon
      <4>2. CASE n = BufSize /\ n < Len(data)
        <5>1. DataLen(rb) = 0 /\ size = BufSize
          BY <1>2, <1>6, <1>8, <4>2 DEF SpaceLen, Lower
        <5>2. (q \o kept)[i] = kept[i] BY <1>2, <1>3, <1>4, <4>2, <5>1
        <5>3. Newest(all)[i] = data[i + (Len(data) - BufSize)]
          <6> DEFINE j == i + (Len(data) - BufSize)
          <6>1. /\ j \in 1..Len(data) /\ j + Len(q) = j
                /\ i + (Len(all) - size) = j
            BY <1>2, <1>4, <1>6, <4>2, <5>1
          <6>2. all[j + Len(q)] = data[j] BY <1>6, <6>1
          <6> HIDE DEF j, size
          <6>3. Newest(all)[i] = all[j] BY <1>7, <6>1
          <6> QED BY <6>1, <6>2, <6>3 DEF j
        <5> QED BY <1>2, <1>3, <4>2, <5>1, <5>2, <5>3
      <4> QED BY <1>2, <4>1, <4>2
    <3> HIDE DEF size
    <3> QED BY <1>7, <3>1, <3>2, SeqEqual
  <2>3. ~LosesAll(rb, data) BY <1>1, <1>2, <1>8, LenOK DEF LosesAll, n, SpaceLen
  <2> QED BY <1>5, <1>8, <2>1, <2>2, <2>3 DEF q, all
<1>9. CASE ~(n <= SpaceLen(rb))
  <2> DEFINE gap == Gap(rb.read_index, rb.write_index, rb.read_mirror, rb.write_mirror)
             v == Ahead(rb.write_index, n)
  <2>1. /\ rb.read_index \in 0..(BufSize - 1) /\ rb.write_index \in 0..(BufSize - 1)
        /\ rb.read_mirror \in {0, 1} /\ rb.write_mirror \in {0, 1}
        /\ rb.write_index > rb.read_index => rb.read_mirror = rb.write_mirror
        /\ rb.write_index < rb.read_index => rb.read_mirror # rb.write_mirror
    BY <1>1, Indices DEF RingOK
  <2>2. DataLen(rb) = gap /\ n > BufSize - gap
    BY <1>1, <1>2, <1>9, LenOK DEF SpaceLen
  <2>3. /\ w \in Ring
        /\ w.read_index = rb.read_index /\ w.read_mirror = rb.read_mirror
        /\ w.write_index = v
        /\ w.write_mirror = Mirror(rb.write_mirror, rb.write_index, n)
        /\ w.buffer = Copied(rb, kept)
    BY <1>1, <1>2, <1>3, WrittenIndex
  <2>4. v \in 0..(BufSize - 1) BY <1>2, <2>1 DEF Ahead, Stays
  <2>5. Mirror(rb.read_mirror, rb.write_index, n) \in 0..1
    BY <2>1 DEF Mirror
  <2> HIDE DEF w, gap, v
  <2>6. /\ f.read_index = v /\ f.write_index = v
        /\ f.read_mirror = Mirror(rb.read_mirror, rb.write_index, n)
        /\ f.write_mirror = Mirror(rb.write_mirror, rb.write_index, n)
        /\ f.buffer = Copied(rb, kept)
        /\ f \in Ring
    BY <2>3, <2>4, <2>5 DEF Ring
  <2> HIDE DEF f
  <2>7. RingOK(f) BY <2>4, <2>6 DEF RingOK
  <2>8. f.read_mirror = f.write_mirror <=> rb.read_mirror = rb.write_mirror
    BY <2>1, <2>6 DEF Mirror
  <2>9. rb.read_mirror = rb.write_mirror => ~Stays(rb.write_index, n)
    BY <1>2, <2>1, <2>2 DEF Gap, Stays, gap
  <2>10. LosesAll(rb, data) <=> rb.read_mirror = rb.write_mirror
    BY <1>1, <1>2, <1>9, <2>9, LenOK DEF LosesAll, n, SpaceLen
  <2>11. DataLen(f) = IF rb.read_mirror = rb.write_mirror THEN 0 ELSE BufSize
    BY <2>4, <2>6, <2>8, LenOK DEF Gap
  <2>12. CASE rb.read_mirror = rb.write_mirror
    <3>1. Content(f) \in Seq(Byte) /\ Len(Content(f)) = 0 BY <2>6, <2>11, <2>12, ContentOK
    <3>2. Content(f) = <<>> BY <3>1, EmptySeq
    <3> QED BY <1>5, <1>9, <2>7, <2>10, <2>12, <3>2
  <2>13. CASE rb.read_mirror # rb.write_mirror
    <3>1. /\ Content(f) \in Seq(Byte) /\ Len(Content(f)) = BufSize
          /\ \A i \in 1..BufSize : Content(f)[i] = Copied(rb, kept)[Place(v, i - 1)]
      BY <2>6, <2>11, <2>13, ContentOK
    <3>2. size = BufSize
      BY <1>2, <1>6, <2>2 DEF Lower
    <3>3. ASSUME NEW i \in 1..BufSize PROVE Content(f)[i] = Newest(all)[i]
      <4> DEFINE p == Place(v, i - 1)
                 j == i + n - BufSize
      <4>1. /\ p \in 0..(BufSize - 1)
            /\ Distance(p, rb.write_index) = IF j >= 1 THEN j - 1 ELSE i - 1 + n
            /\ j < 1 => p = Place(rb.read_index, gap + j - 1)
        <5>1. LET x == Ahead(rb.write_index, n)
                  y == Place(x, i - 1)
                  z == i + n - BufSize
              IN  /\ y \in 0..(BufSize - 1)
                  /\ Distance(y, rb.write_index) = IF z >= 1 THEN z - 1 ELSE i - 1 + n
                  /\ z < 1 => y = Place(rb.read_index,
                        Gap(rb.read_index, rb.write_index, rb.read_mirror, rb.write_mirror) + z - 1)
          <6> HIDE DEF p, j
          <6>1. n \in 0..BufSize /\ n > BufSize - Gap(rb.read_index, rb.write_index, rb.read_mirror, rb.write_mirror)
            BY <1>2, <2>2 DEF gap
          <6> QED BY <2>1, <6>1, PlaceAfterForce
        <5> QED BY <5>1 DEF gap, v
      <4>2. Content(f)[i] = IF Distance(p, rb.write_index) < n
                            THEN kept[Distance(p, rb.write_index) + 1] ELSE rb.buffer[p]
        BY <1>3, <3>1, <4>1 DEF Copied
      <4>3. Newest(all)[i] = all[i + (DataLen(rb) + Len(data) - BufSize)]
        <5>1. i \in 1..size BY <3>2
        <5> HIDE DEF size
        <5>2. Len(all) - size = DataLen(rb) + Len(data) - BufSize BY <1>2, <1>6, <3>2
        <5> QED BY <1>7, <5>1, <5>2
      <4> HIDE DEF p, size
      <4>4. CASE j >= 1
        <5>1. Content(f)[i] = kept[j] BY <1>2, <4>1, <4>2, <4>4
        <5>2. kept[j] = data[j + (Len(data) - n)] BY <1>2, <1>3, <4>4
        <5>3. /\ j + (Len(data) - n) \in 1..Len(data)
              /\ i + (DataLen(rb) + Len(data) - BufSize) = (j + (Len(data) - n)) + Len(q)
          BY <1>2, <1>4, <4>4
        <5>4. Newest(all)[i] = data[j + (Len(data) - n)]
          BY <1>6, <4>3, <5>3 DEF all
        <5> QED BY <5>1, <5>2, <5>4
      <4>5. CASE j < 1
        <5>1. n = Len(data) /\ DataLen(rb) + j \in 1..DataLen(rb)
          BY <1>2, <2>2, <4>5
        <5>2. Content(f)[i] = rb.buffer[p] BY <1>2, <4>1, <4>2, <4>5
        <5>3. q[DataLen(rb) + j] = rb.buffer[Place(rb.read_index, (DataLen(rb) + j) - 1)]
          <6>1. \A m \in 1..DataLen(rb) : q[m] = rb.buffer[Place(rb.read_index, m - 1)]
            BY <1>1, ContentOK DEF q
          <6> QED BY <5>1, <6>1
        <5>4. i + (DataLen(rb) + Len(data) - BufSize) = DataLen(rb) + j
          BY <1>2, <5>1
        <5>5. Newest(all)[i] = q[DataLen(rb) + j]
          BY <1>4, <1>6, <4>3, <5>1, <5>4 DEF all
        <5>6. (DataLen(rb) + j) - 1 = gap + j - 1 BY <1>2, <2>2
        <5> QED BY <2>2, <4>1, <4>5, <5>2, <5>3, <5>5, <5>6
      <4>6. j >= 1 \/ j < 1 BY <1>2
      <4> QED BY <4>4, <4>5, <4>6, Zenon
    <3> HIDE DEF size
    <3>4. Content(f) = Newest(all) BY <1>7, <3>1, <3>2, <3>3, SeqEqual
    <3> QED BY <1>5, <1>9, <2>7, <2>10, <2>13, <3>4 DEF all, q
  <2> QED BY <2>12, <2>13
<1> QED BY <1>8, <1>9

-----------------------------------------------------------------------------
(* One byte goes the way of a block of one.                                *)

\* Two rings with the same fields are the same ring.
LEMMA SameFields ==
  ASSUME NEW x \in Ring, NEW y \in Ring,
         x.read_mirror = y.read_mirror, x.read_index = y.read_index,
         x.write_mirror = y.write_mirror, x.write_index = y.write_index,
         x.buffer = y.buffer
  PROVE  x = y
  BY DEF Ring

\* An index that moves by one.
LEMMA OneAhead ==
  ASSUME NEW i \in 0..(BufSize - 1), NEW m \in {0, 1}
  PROVE  /\ Next1(i) = Ahead(i, 1) /\ Flip1(m, i) = Mirror(m, i, 1)
         /\ Next1(i) \in 0..(BufSize - 1) /\ Flip1(m, i) \in 0..1
  BY RingAssumption DEF Next1, Flip1, Ahead, Mirror, Stays

\* A byte is stored where a block of one byte would be.
LEMMA CharIsWritten ==
  ASSUME NEW rb \in Ring, NEW data \in Seq(Byte), Len(data) = 1
  PROVE  StoredChar(rb, data[1]) = Written(rb, data)
<1> DEFINE s == StoredChar(rb, data[1])
           w == Written(rb, data)
<1>1. /\ w \in Ring
      /\ w.read_index = rb.read_index /\ w.read_mirror = rb.read_mirror
      /\ w.write_index = Ahead(rb.write_index, 1)
      /\ w.write_mirror = Mirror(rb.write_mirror, rb.write_index, 1)
      /\ w.buffer = Copied(rb, data)
  <2>1. Len(data) <= BufSize BY Indices
  <2> QED BY <2>1, WrittenIndex
<1>2. /\ s.read_index = rb.read_index /\ s.read_mirror = rb.read_mirror
      /\ s.write_index = Next1(rb.write_index)
      /\ s.write_mirror = Flip1(rb.write_mirror, rb.write_index)
      /\ s.buffer = [rb.buffer EXCEPT ![rb.write_index] = data[1]]
      /\ s \in Ring
  <2>1. /\ Next1(rb.write_index) \in 0..(BufSize - 1)
        /\ Flip1(rb.write_mirror, rb.write_index) \in 0..1
    BY Indices, OneAhead
  <2>2. [rb.buffer EXCEPT ![rb.write_index] = data[1]] \in [0..(BufSize - 1) -> Byte]
    BY Indices
  <2>3. s = [rb EXCEPT !.buffer = [rb.buffer EXCEPT ![rb.write_index] = data[1]],
                       !.write_mirror = Flip1(rb.write_mirror, rb.write_index),
                       !.write_index = Next1(rb.write_index)]
    BY DEF StoredChar, Ring
  <2> HIDE DEF s
  <2> QED BY <2>1, <2>2, <2>3 DEF Ring
<1>3. Copied(rb, data) = [rb.buffer EXCEPT ![rb.write_index] = data[1]]
  <2>1. ASSUME NEW i \in 0..(BufSize - 1)
        PROVE  /\ Distance(i, rb.write_index) \in Nat
               /\ Distance(i, rb.write_index) < 1 <=> i = rb.write_index
               /\ i = rb.write_index => Distance(i, rb.write_index) + 1 = 1
    BY Indices DEF Distance
  <2> QED BY <2>1, Indices DEF Copied
<1> HIDE DEF s, w
<1>4. /\ Next1(rb.write_index) = Ahead(rb.write_index, 1)
      /\ Flip1(rb.write_mirror, rb.write_index) = Mirror(rb.write_mirror, rb.write_index, 1)
  BY Indices, OneAhead
<1>5. s = w BY <1>1, <1>2, <1>3, <1>4, SameFields
<1> QED BY <1>5 DEF s, w

\* rt_ringbuffer_putchar.
LEMMA PutCharOK ==
  ASSUME NEW rb, RingOK(rb), NEW data \in Seq(Byte), Len(data) = 1
  PROVE  RingPutChar(rb, data[1]) = RingPut(rb, data)
<1>1. rb \in Ring BY DEF RingOK
<1>2. SpaceLen(rb) \in Nat BY <1>1, LenOK, Indices DEF SpaceLen
<1>3. CASE SpaceLen(rb) = 0
  <2>1. RingPut(rb, data) = Written(rb, SubSeq(data, 1, 0)) BY <1>3 DEF RingPut, Lower
  <2>2. SubSeq(data, 1, 0) \in Seq(Byte) /\ Len(SubSeq(data, 1, 0)) = 0
    BY PartOK
  <2>3. Written(rb, SubSeq(data, 1, 0)) = rb
    <3> DEFINE e == SubSeq(data, 1, 0)
               w == Written(rb, e)
    <3>1. /\ w \in Ring /\ w.read_index = rb.read_index /\ w.read_mirror = rb.read_mirror
          /\ w.write_index = Ahead(rb.write_index, 0)
          /\ w.write_mirror = Mirror(rb.write_mirror, rb.write_index, 0)
          /\ w.buffer = Copied(rb, e)
      <4>1. Len(e) = 0 /\ e \in Seq(Byte) /\ Len(e) <= BufSize BY <1>1, <2>2, Indices
      <4> HIDE DEF e
      <4> QED BY <1>1, <4>1, WrittenIndex
    <3>2. /\ Ahead(rb.write_index, 0) = rb.write_index
          /\ Mirror(rb.write_mirror, rb.write_index, 0) = rb.write_mirror
      BY <1>1, Indices DEF Ahead, Mirror, Stays
    <3>3. Copied(rb, e) = rb.buffer
      <4>1. ASSUME NEW i \in 0..(BufSize - 1) PROVE ~(Distance(i, rb.write_index) < 0)
        BY <1>1, Indices DEF Distance
      <4> HIDE DEF e
      <4> QED BY <1>1, <2>2, <4>1, Indices DEF Copied, e
    <3> HIDE DEF w
    <3>4. w = rb BY <1>1, <3>1, <3>2, <3>3, SameFields
    <3> QED BY <3>4 DEF w
  <2> QED BY <1>3, <2>1, <2>3 DEF RingPutChar
<1>4. CASE SpaceLen(rb) # 0
  <2>1. Lower(Len(data), SpaceLen(rb)) = 1 BY <1>2, <1>4 DEF Lower
  <2>2. SubSeq(data, 1, 1) = data
    <3>1. /\ SubSeq(data, 1, 1) \in Seq(Byte) /\ Len(SubSeq(data, 1, 1)) = 1
          /\ SubSeq(data, 1, 1)[1] = data[1]
      BY PartOK
    <3> QED BY <3>1, SeqEqual
  <2> QED BY <1>1, <1>4, <2>1, <2>2, CharIsWritten DEF RingPut, RingPutChar
<1> QED BY <1>3, <1>4

\* rt_ringbuffer_getchar.
LEMMA GetCharOK ==
  ASSUME NEW rb, RingOK(rb)
  PROVE  RingGetChar(rb) = RingGet(rb, 1)
<1>1. rb \in Ring BY DEF RingOK
<1>2. DataLen(rb) \in Nat BY <1>1, LenOK, Indices
<1>3. CASE DataLen(rb) = 0
  <2>1. RingGet(rb, 1) = [rb EXCEPT !.read_mirror = Mirror(@, rb.read_index, 0),
                                    !.read_index = Ahead(@, 0)]
    BY <1>3 DEF RingGet, Lower
  <2>2. /\ Ahead(rb.read_index, 0) = rb.read_index
        /\ Mirror(rb.read_mirror, rb.read_index, 0) = rb.read_mirror
    BY <1>1, Indices DEF Ahead, Mirror, Stays
  <2>3. RingGet(rb, 1) = [rb EXCEPT !.read_mirror = rb.read_mirror, !.read_index = rb.read_index]
    BY <2>1, <2>2
  <2>4. RingGet(rb, 1) = rb BY <1>1, <2>3 DEF Ring
  <2> QED BY <1>3, <2>4 DEF RingGetChar
<1>4. CASE DataLen(rb) # 0
  <2>1. RingGet(rb, 1) = [rb EXCEPT !.read_mirror = Mirror(@, rb.read_index, 1),
                                    !.read_index = Ahead(@, 1)]
    <3>1. Lower(1, DataLen(rb)) = 1 BY <1>2, <1>4 DEF Lower
    <3> QED BY <3>1 DEF RingGet
  <2>2. /\ Ahead(rb.read_index, 1) = Next1(rb.read_index)
        /\ Mirror(rb.read_mirror, rb.read_index, 1) = Flip1(rb.read_mirror, rb.read_index)
    BY <1>1, Indices, OneAhead
  <2>3. RingGetChar(rb) = [rb EXCEPT !.read_mirror = Flip1(rb.read_mirror, rb.read_index),
                                     !.read_index = Next1(rb.read_index)]
    BY <1>4 DEF RingGetChar
  <2> QED BY <2>1, <2>2, <2>3
<1> QED BY <1>3, <1>4

\* rt_ringbuffer_putchar_force; to a full ring it is a forced put of one byte,
\* which loses only the oldest byte, because a full ring has unequal mirrors.
LEMMA PutCharForceOK ==
  ASSUME NEW rb, RingOK(rb), NEW data \in Seq(Byte), Len(data) = 1
  PROVE  /\ RingPutCharForce(rb, data[1]) = RingPutForce(rb, data)
         /\ ~LosesAll(rb, data)
<1> DEFINE w == Written(rb, data)
<1>1. rb \in Ring BY DEF RingOK
<1>2. /\ BufSize \in Nat \ {0} /\ DataLen(rb) \in 0..BufSize
      /\ DataLen(rb) = Gap(rb.read_index, rb.write_index, rb.read_mirror, rb.write_mirror)
      /\ rb.read_index \in 0..(BufSize - 1) /\ rb.write_index \in 0..(BufSize - 1)
      /\ rb.read_mirror \in {0, 1} /\ rb.write_mirror \in {0, 1}
  BY <1>1, LenOK, Indices
<1>3. Lower(Len(data), BufSize) = 1 BY <1>2 DEF Lower
<1>4. RingStatus(rb) = "FULL" <=> rb.read_index = rb.write_index /\ rb.read_mirror # rb.write_mirror
  BY DEF RingStatus
<1>5. SpaceLen(rb) < 1 <=> rb.read_index = rb.write_index /\ rb.read_mirror # rb.write_mirror
  <2>1. SpaceLen(rb) < 1 <=> Gap(rb.read_index, rb.write_index, rb.read_mirror, rb.write_mirror) = BufSize
    BY <1>2 DEF SpaceLen
  <2> QED BY <1>2, <2>1 DEF Gap
<1>6. SubSeq(data, 1, 1) = data
  <2>1. /\ SubSeq(data, 1, 1) \in Seq(Byte) /\ Len(SubSeq(data, 1, 1)) = 1
        /\ SubSeq(data, 1, 1)[1] = data[1]
    BY PartOK
  <2> QED BY <2>1, SeqEqual
<1>7. SubSeq(data, Len(data) - Lower(Len(data), BufSize) + 1, Len(data)) = data
  <2>1. Len(data) - 1 + 1 = 1 BY <1>3
  <2> QED BY <1>3, <1>6, <2>1
<1>8. RingPutForce(rb, data) = IF 1 <= SpaceLen(rb) THEN w
                               ELSE [w EXCEPT !.read_index = w.write_index,
                                              !.read_mirror = Mirror(@, rb.write_index, 1)]
  BY <1>7 DEF RingPutForce
<1>9. StoredChar(rb, data[1]) = w BY <1>1, CharIsWritten
<1>10. /\ w \in Ring /\ w.read_mirror = rb.read_mirror
  <2>1. Len(data) <= BufSize BY <1>2
  <2> QED BY <1>1, <2>1, WrittenIndex
<1>11. Flip1(rb.read_mirror, rb.write_index) = Mirror(rb.read_mirror, rb.write_index, 1)
  BY <1>2, OneAhead
<1> HIDE DEF w
<1>12. RingPutCharForce(rb, data[1]) =
         IF RingStatus(rb) # "FULL" THEN w
         ELSE [w EXCEPT !.read_mirror = Flip1(@, rb.write_index), !.read_index = w.write_index]
  BY <1>9 DEF RingPutCharForce
<1>13. [w EXCEPT !.read_mirror = Mirror(rb.read_mirror, rb.write_index, 1), !.read_index = w.write_index]
     = [w EXCEPT !.read_index = w.write_index, !.read_mirror = Mirror(rb.read_mirror, rb.write_index, 1)]
  BY <1>10 DEF Ring
<1>14. SpaceLen(rb) \in Int BY <1>2 DEF SpaceLen
<1>15. RingPutCharForce(rb, data[1]) = RingPutForce(rb, data)
  <2>1. CASE SpaceLen(rb) < 1
    <3>1. RingStatus(rb) = "FULL" BY <1>4, <1>5, <2>1
    <3>2. ~(1 <= SpaceLen(rb)) BY <1>14, <2>1
    <3> QED BY <1>8, <1>10, <1>11, <1>12, <1>13, <3>1, <3>2, Zenon
  <2>2. CASE ~(SpaceLen(rb) < 1)
    BY <1>4, <1>5, <1>8, <1>12, <1>14, <2>2
  <2> QED BY <2>1, <2>2
<1>16. ~LosesAll(rb, data) BY <1>3, <1>5, <1>14 DEF LosesAll
<1> QED BY <1>15, <1>16

-----------------------------------------------------------------------------
(* The ring is a queue.                                                    *)

\* An empty ring is a legal one, and every call of ringbuffer.c leaves a legal
\* one: what the two indices and mirrors say is always the number of bytes.
THEOREM RingStaysLegal ==
  /\ RingOK(NewRing)
  /\ \A rb : RingOK(rb) =>
       /\ \A data \in Seq(Byte) : RingOK(RingPut(rb, data)) /\ RingOK(RingPutForce(rb, data))
       /\ \A length \in Nat : RingOK(RingGet(rb, length))
<1>1. RingOK(NewRing)
  BY RingAssumption DEF RingOK, NewRing, Ring
<1> QED BY <1>1, PutOK, PutForceOK, GetOK

\* To every call, a legal ring of any size and with any bytes is a queue of at
\* most BufSize bytes.  Of a forced put that overflows and passes the end while
\* reader and writer are on one side (LosesAll) it says nothing: the code breaks
\* its promise there (DiscardsOnlyOld).
THEOREM RingIsBoundedQueue ==
  ASSUME NEW rb, RingOK(rb), NEW data \in Seq(Byte)
  PROVE  IsQueueOfBytes(rb, data)
<1>1. Len(data) \in Nat OBVIOUS
<1>2. /\ Content(RingPut(rb, data)) =
           Content(rb) \o SubSeq(data, 1, Lower(Len(data), BufSize - Len(Content(rb))))
      /\ Content(RingPutForce(rb, data)) =
           IF LosesAll(rb, data) THEN <<>> ELSE Newest(Content(rb) \o data)
      /\ RingData(rb, Len(data)) \o Content(RingGet(rb, Len(data))) = Content(rb)
  BY <1>1, PutOK, PutForceOK, GetOK
<1>3. ASSUME Len(data) = 1
      PROVE  /\ RingPutChar(rb, data[1]) = RingPut(rb, data)
             /\ Content(RingPutCharForce(rb, data[1])) = Newest(Content(rb) \o data)
             /\ RingGetChar(rb) = RingGet(rb, 1)
  BY <1>2, <1>3, PutCharOK, PutCharForceOK, GetCharOK
<1>4. LosesAll(rb, data) \/ DiscardsOld(rb, data) BY <1>2 DEF DiscardsOld
<1> QED BY <1>2, <1>3, <1>4, Zenon DEF IsQueueOfBytes

-----------------------------------------------------------------------------
(* The pipe on top of it.                                                  *)

\* Where a call of pipe.c is between its open and its close of the pipe.
InCall ==
  {"close_in", "close_readers", "close_writers", "close_end",
   "read_in", "read_done", "read_out", "read_idle", "read_wait", "read_woken", "read_lock",
   "write_in", "write_again", "write_out", "write_end", "write_idle", "write_wait",
   "write_woken", "write_lock", "write_last"}

\* The pipe has a buffer while somebody has it open, and ref_count counts them.
PipeOK ==
  /\ DOMAIN pc = Thread /\ DOMAIN after = Thread
  /\ {"fifo", "ref_count"} \subseteq DOMAIN pipe
  /\ opened \subseteq Thread /\ IsFiniteSet(opened)
  /\ pipe.ref_count = Cardinality(opened)
  /\ opened = {} => pipe.fifo = NoFifo
  /\ opened # {} => RingOK(pipe.fifo)
  /\ \A t \in Thread : /\ At(t) \in InCall => t \in opened
                       /\ At(t) = "open_in" => t \notin opened
  /\ rest \in [Thread -> 0..(BufSize + 1)]

PipeInv == IF helper = "pipe" THEN PipeOK ELSE pipe.fifo = NoFifo

-----------------------------------------------------------------------------
(* Steps that leave the buffer alone.                                      *)

SameBuffer ==
  /\ DOMAIN pipe' = DOMAIN pipe
  /\ pipe'.fifo = pipe.fifo /\ pipe'.ref_count = pipe.ref_count

Moves(t, l) == GoOn(t, l) \/ Switch(t, l)

\* A thread that goes on or through rt_schedule to l is on its way to l.
LEMMA ItMoves ==
  ASSUME DOMAIN pc = Thread, DOMAIN after = Thread,
         NEW t \in Thread, NEW l, l # "pp_sched", Moves(t, l)
  PROVE  /\ DOMAIN pc' = Thread /\ DOMAIN after' = Thread
         /\ At(t)' = l
         /\ \A u \in Thread : u # t => At(u)' = At(u)
  BY DEF Moves, GoOn, Switch, Goto, At

\* A step of one thread that leaves opened alone keeps PipeOK if it leaves
\* the buffer as it was, or another legal ring in its place.
LEMMA OneMove ==
  ASSUME PipeOK, NEW t \in Thread, NEW l, l # "pp_sched", Moves(t, l),
         DOMAIN pipe' = DOMAIN pipe, pipe'.ref_count = pipe.ref_count, opened' = opened,
         pipe'.fifo = pipe.fifo \/ (opened # {} /\ RingOK(pipe'.fifo)),
         l \in InCall => t \in opened, l = "open_in" => t \notin opened,
         rest' \in [Thread -> 0..(BufSize + 1)]
  PROVE  PipeOK'
<1>1. /\ DOMAIN pc' = Thread /\ DOMAIN after' = Thread /\ At(t)' = l
      /\ \A u \in Thread : u # t => At(u)' = At(u)
  BY ItMoves DEF PipeOK
<1>2. \A u \in Thread : /\ At(u)' \in InCall => u \in opened'
                        /\ At(u)' = "open_in" => u \notin opened'
  BY <1>1 DEF PipeOK
<1>3. /\ opened' = {} => pipe'.fifo = NoFifo
      /\ opened' # {} => RingOK(pipe'.fifo)
  BY DEF PipeOK
<1>4. /\ {"fifo", "ref_count"} \subseteq DOMAIN pipe'
      /\ opened' \subseteq Thread /\ IsFiniteSet(opened') /\ pipe'.ref_count = Cardinality(opened')
  BY DEF PipeOK
<1> QED BY <1>1, <1>2, <1>3, <1>4 DEF PipeOK

\* The mutex and the wait queues.
LEMMA LockSame ==
  ASSUME {"fifo", "ref_count"} \subseteq DOMAIN pipe, NEW t, NEW l, Lock(t, l)
  PROVE  SameBuffer /\ Moves(t, l)
<1>1. Moves(t, l) BY DEF Lock, Moves
<1>2. CASE pipe.owner = NoThread
  <2>1. pipe' = [pipe EXCEPT !.owner = t, !.original = k.prio[t]] BY <1>2 DEF Lock
  <2> QED BY <1>1, <2>1 DEF SameBuffer
<1>3. CASE pipe.owner # NoThread BY <1>1, <1>3 DEF Lock, SameBuffer
<1> QED BY <1>2, <1>3

LEMMA UnlockSame ==
  ASSUME {"fifo", "ref_count"} \subseteq DOMAIN pipe, NEW t, NEW l, Unlock(t, l)
  PROVE  SameBuffer /\ Moves(t, l)
<1> DEFINE s == PriorityTo(k, t, pipe.original)
<1>1. Moves(t, l) BY DEF Unlock, Moves
<1>2. CASE s.list[PipeLock] # <<>>
  <2>1. PICK o, p : pipe' = [pipe EXCEPT !.owner = o, !.original = p]
    BY <1>2 DEF Unlock
  <2> QED BY <1>1, <2>1 DEF SameBuffer
<1>3. CASE s.list[PipeLock] = <<>>
  <2>1. pipe' = [pipe EXCEPT !.owner = NoThread] BY <1>3 DEF Unlock
  <2> QED BY <1>1, <2>1 DEF SameBuffer
<1> QED BY <1>2, <1>3

LEMMA WakeupSame ==
  ASSUME {"fifo", "ref_count"} \subseteq DOMAIN pipe, NEW t, NEW q, NEW l,
         rt_wqueue_wakeup(t, q, l)
  PROVE  SameBuffer /\ Moves(t, l)
<1>1. Moves(t, l) BY DEF rt_wqueue_wakeup, Moves
<1>2. PICK f, w : pipe' = [pipe EXCEPT !.flag = f] \/ pipe' = [[pipe EXCEPT !.flag = f] EXCEPT !.waiting = w]
  BY DEF rt_wqueue_wakeup, Flagged
<1> QED BY <1>1, <1>2 DEF SameBuffer

LEMMA WaitSame ==
  ASSUME {"fifo", "ref_count"} \subseteq DOMAIN pipe, NEW t, NEW q, NEW m, NEW l,
         rt_wqueue_wait(t, q, m, l)
  PROVE  SameBuffer /\ (Moves(t, l) \/ Moves(t, m))
<1>1. CASE pipe.flag[q]
  <2>1. Moves(t, l) BY <1>1 DEF rt_wqueue_wait, Moves
  <2>2. PICK f : pipe' = [pipe EXCEPT !.flag = f] BY <1>1 DEF rt_wqueue_wait
  <2> QED BY <2>1, <2>2 DEF SameBuffer
<1>2. CASE ~pipe.flag[q]
  <2>1. Moves(t, m) BY <1>2 DEF rt_wqueue_wait, Moves
  <2>2. PICK w : pipe' = [pipe EXCEPT !.waiting = w] BY <1>2 DEF rt_wqueue_wait
  <2> QED BY <2>1, <2>2 DEF SameBuffer
<1> QED BY <1>1, <1>2

LEMMA WokenSame ==
  ASSUME {"fifo", "ref_count"} \subseteq DOMAIN pipe, NEW t, NEW q, NEW l, Woken(t, q, l)
  PROVE  SameBuffer /\ Moves(t, l)
<1>1. Moves(t, l) BY DEF Woken, Moves
<1>2. PICK f, w : pipe' = [pipe EXCEPT !.flag = f, !.waiting = w] BY DEF Woken
<1> QED BY <1>1, <1>2 DEF SameBuffer

\* A thread at a label of a call is there for PipeOK.
LEMMA Here ==
  ASSUME NEW t, NEW l, Running(t, l), l # "pp_sched"
  PROVE  At(t) = l
  BY DEF Running, At

\* OneMove with the buffer left alone.
LEMMA SameMove ==
  ASSUME PipeOK, NEW t \in Thread, NEW l, l # "pp_sched", SameBuffer, Moves(t, l),
         opened' = opened, rest' \in [Thread -> 0..(BufSize + 1)],
         l \in InCall => t \in opened, l = "open_in" => t \notin opened
  PROVE  PipeOK'
  BY OneMove DEF SameBuffer

\* What PipeOK says of a thread in a call.
LEMMA InsideOpened ==
  ASSUME PipeOK, NEW t \in Thread, NEW l \in InCall, Running(t, l)
  PROVE  t \in opened /\ RingOK(pipe.fifo)
<1>1. l # "pp_sched" BY DEF InCall
<1> QED BY <1>1, Here DEF PipeOK

LEMMA Shape ==
  ASSUME PipeOK
  PROVE  /\ {"fifo", "ref_count"} \subseteq DOMAIN pipe
         /\ rest \in [Thread -> 0..(BufSize + 1)]
  BY DEF PipeOK

-----------------------------------------------------------------------------
(* The actions of Pipe.                                                    *)

LEMMA PipeScheduleOK ==
  ASSUME PipeOK, NEW t \in Thread, PipeSchedule(t)
  PROVE  PipeOK'
<1>1. /\ pc[t] = "pp_sched" /\ pc' = [pc EXCEPT ![t] = after[t]]
      /\ after' = [after EXCEPT ![t] = "run"] /\ UNCHANGED <<pipe, opened, rest>>
  BY DEF PipeSchedule, IpcSchedule, ScheduleStep, Running, Goto
<1>2. DOMAIN pc' = Thread /\ DOMAIN after' = Thread BY <1>1 DEF PipeOK
<1>3. \A u \in Thread : u # t => At(u)' = At(u) BY <1>1 DEF At, PipeOK
<1>4. At(t)' = At(t) \/ At(t)' = "run" BY <1>1 DEF At, PipeOK
<1>5. "run" \notin InCall BY DEF InCall
<1>6. \A u \in Thread : /\ At(u)' \in InCall => u \in opened'
                        /\ At(u)' = "open_in" => u \notin opened'
  BY <1>1, <1>3, <1>4, <1>5 DEF PipeOK
<1> QED BY <1>1, <1>2, <1>6 DEF PipeOK

LEMMA PipeUnlockOK ==
  ASSUME PipeOK, NEW t \in Thread, PipeUnlock(t)
  PROVE  PipeOK'
<1>1. UNCHANGED <<opened, rest>> BY DEF PipeUnlock
<1>2. CASE Running(t, "pp_out") /\ Unlock(t, "run")
  BY <1>1, <1>2, Shape, UnlockSame, SameMove DEF InCall
<1>3. ASSUME NEW l \in InCall, NEW m \in InCall, Running(t, l), Unlock(t, m)
      PROVE  PipeOK'
  <2>1. m # "pp_sched" /\ m # "open_in" BY DEF InCall
  <2> QED BY <1>1, <1>3, <2>1, Shape, InsideOpened, UnlockSame, SameMove
<1>4. CASE Running(t, "read_out") /\ Unlock(t, "read_idle") BY <1>3, <1>4 DEF InCall
<1>5. CASE Running(t, "write_out") /\ Unlock(t, "write_idle") BY <1>3, <1>5 DEF InCall
<1>6. CASE Running(t, "write_end") /\ Unlock(t, "write_last") BY <1>3, <1>6 DEF InCall
<1> QED BY <1>2, <1>4, <1>5, <1>6 DEF PipeUnlock

LEMMA PipeLockedOK ==
  ASSUME PipeOK, NEW t \in Thread, PipeLocked(t)
  PROVE  PipeOK'
<1>1. UNCHANGED <<opened, rest>> BY DEF PipeLocked
<1>2. ASSUME NEW l \in InCall, NEW m \in InCall, Running(t, l), Lock(t, m)
      PROVE  PipeOK'
  <2>1. m # "pp_sched" /\ m # "open_in" BY DEF InCall
  <2> QED BY <1>1, <1>2, <2>1, Shape, InsideOpened, LockSame, SameMove
<1>3. CASE Running(t, "read_lock") /\ Lock(t, "read_in") BY <1>2, <1>3 DEF InCall
<1>4. CASE Running(t, "write_lock") /\ Lock(t, "write_again") BY <1>2, <1>4 DEF InCall
<1> QED BY <1>3, <1>4 DEF PipeLocked

\* The first region of open, close, read and write.
LEMMA EntryOK ==
  ASSUME PipeOK, NEW t \in Thread, Open(t) \/ Close(t) \/ Read(t)
  PROVE  PipeOK'
<1>1. UNCHANGED <<opened, rest>> BY DEF Open, Close, Read
<1>2. CASE Open(t)
  <2>1. t \notin opened /\ Lock(t, "open_in") BY <1>2 DEF Open
  <2> QED BY <1>1, <2>1, Shape, LockSame, SameMove DEF InCall
<1>3. CASE Close(t)
  <2>1. t \in opened /\ Lock(t, "close_in") BY <1>3 DEF Close
  <2> QED BY <1>1, <2>1, Shape, LockSame, SameMove
<1>4. CASE Read(t)
  <2>1. t \in opened /\ Lock(t, "read_in") BY <1>4 DEF Read
  <2> QED BY <1>1, <2>1, Shape, LockSame, SameMove
<1> QED BY <1>2, <1>3, <1>4

LEMMA WriteOK ==
  ASSUME PipeOK, NEW t \in Thread, NEW count \in 1..(BufSize + 1), Write(t, count)
  PROVE  PipeOK'
<1>1. /\ t \in opened /\ Lock(t, "write_in") /\ opened' = opened
      /\ rest' = [rest EXCEPT ![t] = count]
  BY DEF Write
<1>2. rest' \in [Thread -> 0..(BufSize + 1)] BY <1>1, Shape, RingAssumption
<1> QED BY <1>1, <1>2, Shape, LockSame, SameMove

LEMMA OpenBodyOK ==
  ASSUME PipeOK, NEW t \in Thread, OpenBody(t)
  PROVE  PipeOK'
<1>1. /\ Running(t, "open_in") /\ opened' = opened \cup {t} /\ rest' = rest
      /\ GoOn(t, "pp_out")
  BY DEF OpenBody
<1>2. PICK r, w :
        pipe' = [pipe EXCEPT !.fifo = IF pipe.ref_count = 0 THEN NewRing ELSE pipe.fifo,
                             !.readers = r, !.writers = w, !.ref_count = pipe.ref_count + 1]
  BY DEF OpenBody
<1>3. t \notin opened BY <1>1, Here DEF PipeOK
<1>4. /\ DOMAIN pc' = Thread /\ DOMAIN after' = Thread /\ At(t)' = "pp_out"
      /\ \A u \in Thread : u # t => At(u)' = At(u)
  BY <1>1, ItMoves DEF PipeOK, Moves
<1>5. \A u \in Thread : /\ At(u)' \in InCall => u \in opened'
                        /\ At(u)' = "open_in" => u \notin opened'
  BY <1>1, <1>4 DEF PipeOK, InCall
<1>6. /\ IsFiniteSet(opened') /\ Cardinality(opened') = Cardinality(opened) + 1
      /\ opened' \subseteq Thread /\ opened' # {}
  BY <1>1, <1>3, FS_AddElement DEF PipeOK
<1>7. pipe.ref_count = 0 <=> opened = {}
  BY FS_EmptySet DEF PipeOK
<1>8. /\ DOMAIN pipe' = DOMAIN pipe /\ pipe'.ref_count = pipe.ref_count + 1
      /\ pipe'.fifo = IF pipe.ref_count = 0 THEN NewRing ELSE pipe.fifo
  BY <1>2, Shape
<1>9. RingOK(pipe'.fifo)
  BY <1>7, <1>8, RingStaysLegal DEF PipeOK
<1> QED BY <1>1, <1>4, <1>5, <1>6, <1>8, <1>9 DEF PipeOK

LEMMA CloseBodyOK ==
  ASSUME PipeOK, NEW t \in Thread, CloseBody(t)
  PROVE  PipeOK'
<1>1. /\ Running(t, "close_in") /\ UNCHANGED <<opened, rest>> /\ GoOn(t, "close_readers")
  BY DEF CloseBody
<1>2. PICK r, w : pipe' = [pipe EXCEPT !.readers = r, !.writers = w]
  BY DEF CloseBody
<1>3. SameBuffer BY <1>2, Shape DEF SameBuffer
<1>4. t \in opened BY <1>1, InsideOpened DEF InCall
<1> QED BY <1>1, <1>3, <1>4, Shape, SameMove DEF Moves

\* A wake-up on the way, or none.
LEMMA WakeOK ==
  ASSUME PipeOK, NEW t \in Thread, CloseWake(t) \/ ReadWake(t) \/ WriteWake(t)
  PROVE  PipeOK'
<1>1. UNCHANGED <<opened, rest>> BY DEF CloseWake, ReadWake, WriteWake
<1>2. ASSUME NEW l \in InCall, NEW m \in InCall \cup {"pp_out", "run"}, NEW q,
             Running(t, l),
             rt_wqueue_wakeup(t, q, m) \/ (GoOn(t, m) /\ UNCHANGED <<k, pipe>>)
      PROVE  PipeOK'
  <2>1. m # "pp_sched" /\ m # "open_in" BY DEF InCall
  <2>2. SameBuffer /\ Moves(t, m)
    BY <1>2, Shape, WakeupSame DEF SameBuffer, Moves
  <2> QED BY <1>1, <1>2, <2>1, <2>2, Shape, InsideOpened, SameMove
<1>3. CASE CloseWake(t)
  BY <1>2, <1>3 DEF CloseWake, InCall
<1>4. CASE ReadWake(t) BY <1>2, <1>4 DEF ReadWake, InCall
<1>5. CASE WriteWake(t) BY <1>2, <1>5 DEF WriteWake, InCall
<1> QED BY <1>3, <1>4, <1>5

LEMMA WaitOK ==
  ASSUME PipeOK, NEW t \in Thread, ReadWait(t) \/ WriteWait(t)
  PROVE  PipeOK'
<1>1. UNCHANGED <<opened, rest>> BY DEF ReadWait, WriteWait
<1>2. ASSUME NEW l \in InCall, NEW m \in InCall, NEW n \in InCall, NEW q, Running(t, l),
             rt_wqueue_wait(t, q, m, n) \/ Woken(t, q, n)
      PROVE  PipeOK'
  <2>1. m # "pp_sched" /\ m # "open_in" /\ n # "pp_sched" /\ n # "open_in" BY DEF InCall
  <2>2. SameBuffer /\ (Moves(t, m) \/ Moves(t, n))
    BY <1>2, Shape, WaitSame, WokenSame
  <2> QED BY <1>1, <1>2, <2>1, <2>2, Shape, InsideOpened, SameMove
<1>3. CASE ReadWait(t) BY <1>2, <1>3 DEF ReadWait, InCall
<1>4. CASE WriteWait(t) BY <1>2, <1>4 DEF WriteWait, InCall
<1> QED BY <1>3, <1>4

LEMMA CloseEndOK ==
  ASSUME PipeOK, NEW t \in Thread, CloseEnd(t)
  PROVE  PipeOK'
<1>1. /\ Running(t, "close_end") /\ opened' = opened \ {t} /\ rest' = rest
      /\ GoOn(t, "pp_out")
      /\ pipe' = [pipe EXCEPT !.fifo = IF pipe.ref_count = 1 THEN NoFifo ELSE pipe.fifo,
                              !.ref_count = pipe.ref_count - 1]
  BY DEF CloseEnd
<1>2. t \in opened BY <1>1, InsideOpened DEF InCall
<1>3. /\ DOMAIN pc' = Thread /\ DOMAIN after' = Thread /\ At(t)' = "pp_out"
      /\ \A u \in Thread : u # t => At(u)' = At(u)
  BY <1>1, ItMoves DEF PipeOK, Moves
<1>4. \A u \in Thread : /\ At(u)' \in InCall => u \in opened'
                        /\ At(u)' = "open_in" => u \notin opened'
  BY <1>1, <1>3 DEF PipeOK, InCall
<1>5. /\ IsFiniteSet(opened') /\ Cardinality(opened') = Cardinality(opened) - 1
      /\ opened' \subseteq Thread
  BY <1>1, <1>2, FS_RemoveElement DEF PipeOK
<1>6. /\ DOMAIN pipe' = DOMAIN pipe /\ pipe'.ref_count = pipe.ref_count - 1
      /\ pipe'.fifo = IF pipe.ref_count = 1 THEN NoFifo ELSE pipe.fifo
  BY <1>1, Shape
<1>7. Cardinality(opened) \in Nat BY FS_CardinalityType DEF PipeOK
<1>8. opened' = {} <=> pipe.ref_count = 1
  <2>1. opened' = {} <=> Cardinality(opened') = 0 BY <1>5, FS_EmptySet
  <2> QED BY <1>5, <1>7, <2>1 DEF PipeOK
<1>9. /\ opened' = {} => pipe'.fifo = NoFifo
      /\ opened' # {} => RingOK(pipe'.fifo)
  BY <1>2, <1>6, <1>8 DEF PipeOK
<1> QED BY <1>1, <1>3, <1>4, <1>5, <1>6, <1>9 DEF PipeOK

\* What is taken out leaves a legal ring.
LEMMA ReadBodyOK ==
  ASSUME PipeOK, NEW t \in Thread, NEW count \in 1..BufSize, ReadBody(t, count)
  PROVE  PipeOK'
<1>1. Running(t, "read_in") /\ UNCHANGED <<opened, rest>> BY DEF ReadBody
<1>2. t \in opened /\ RingOK(pipe.fifo) BY <1>1, InsideOpened DEF InCall
<1>3. PICK l \in {"pp_out", "read_done", "read_out"} : GoOn(t, l)
  BY DEF ReadBody
<1>4. pipe' = pipe \/ pipe' = [pipe EXCEPT !.fifo = RingGet(pipe.fifo, count)]
  BY DEF ReadBody
<1>5. RingOK(RingGet(pipe.fifo, count)) BY <1>2, RingStaysLegal, RingAssumption
<1>6. /\ DOMAIN pipe' = DOMAIN pipe /\ pipe'.ref_count = pipe.ref_count
      /\ pipe'.fifo = pipe.fifo \/ RingOK(pipe'.fifo)
  BY <1>4, <1>5, Shape
<1>7. l # "pp_sched" /\ l # "open_in" BY <1>3
<1> QED BY <1>1, <1>2, <1>3, <1>6, <1>7, Shape, OneMove DEF Moves

\* What is put in leaves a legal ring, and no more to write than before.
LEMMA WriteBodyOK ==
  ASSUME PipeOK, NEW t \in Thread, NEW data \in Payload, WriteBody(t, data)
  PROVE  PipeOK'
<1> DEFINE n == Lower(rest[t], SpaceLen(pipe.fifo))
           part == SubSeq(data, 1, rest[t])
<1>1. (Running(t, "write_in") \/ Running(t, "write_again")) /\ opened' = opened
  BY DEF WriteBody
<1>2. t \in opened /\ RingOK(pipe.fifo) BY <1>1, InsideOpened DEF InCall
<1>3. rest[t] \in 0..(BufSize + 1) BY Shape
<1>4. n \in 0..rest[t]
  <2>1. SpaceLen(pipe.fifo) \in Nat BY <1>2, LenOK, Indices DEF SpaceLen, RingOK
  <2> QED BY <1>3, <2>1 DEF Lower
<1>5. part \in Seq(Byte)
  <2>1. data \in Seq(Byte) /\ Len(data) = BufSize + 1
    BY PipeAssumption, RingAssumption
  <2> QED BY <1>3, <2>1, PartOK
<1>6. PICK l \in {"pp_out", "write_end", "write_out"} : GoOn(t, l)
  BY DEF WriteBody
<1>7. pipe' = pipe \/ pipe' = [pipe EXCEPT !.fifo = RingPut(pipe.fifo, part)]
  BY DEF WriteBody
<1>8. /\ DOMAIN pipe' = DOMAIN pipe /\ pipe'.ref_count = pipe.ref_count
      /\ pipe'.fifo = pipe.fifo \/ RingOK(pipe'.fifo)
  <2>1. RingOK(RingPut(pipe.fifo, part)) BY <1>2, <1>5, RingStaysLegal
  <2> HIDE DEF part
  <2> QED BY <1>7, <2>1, Shape
<1>9. rest' = [rest EXCEPT ![t] = 0] \/ rest' = [rest EXCEPT ![t] = rest[t] - n]
  BY DEF WriteBody
<1>10. rest' \in [Thread -> 0..(BufSize + 1)]
  <2> HIDE DEF n
  <2>1. rest[t] - n \in 0..(BufSize + 1) /\ 0 \in 0..(BufSize + 1)
    BY <1>3, <1>4, RingAssumption
  <2> QED BY <1>9, <2>1, Shape
<1>11. l # "pp_sched" /\ l # "open_in" BY <1>6
<1> QED BY <1>1, <1>2, <1>6, <1>8, <1>10, <1>11, OneMove DEF Moves

\* A sleep between two calls, and the end of it.
LEMMA SleepOK ==
  ASSUME PipeOK, NEW t \in Thread, UNCHANGED pipevars,
         Pause(t) \/ Schedule(t)
  PROVE  PipeOK'
<1>1. PICK l \in {"run", "sched"} : Goto(t, l) /\ pc[t] \in {"run", "sched"}
  BY DEF Pause, Schedule, IpcSchedule, ScheduleStep, Running, Calls
<1>2. DOMAIN pc' = Thread BY <1>1 DEF Goto, PipeOK
<1>3. \A u \in Thread : At(u)' = At(u) \/ At(u)' \in {"run", "sched"}
  BY <1>1 DEF At, Goto, PipeOK, pipevars
<1>4. \A u \in Thread : /\ At(u)' \in InCall => u \in opened'
                        /\ At(u)' = "open_in" => u \notin opened'
  BY <1>3 DEF PipeOK, pipevars, InCall
<1> QED BY <1>2, <1>4 DEF PipeOK, pipevars

LEMMA PipeStepOK ==
  ASSUME PipeOK, NEW t \in Thread, PipeStep(t)
  PROVE  PipeOK'
<1>1. CASE PipeSchedule(t) BY <1>1, PipeScheduleOK
<1>2. CASE PipeUnlock(t) BY <1>2, PipeUnlockOK
<1>3. CASE PipeLocked(t) BY <1>3, PipeLockedOK
<1>4. CASE Open(t) \/ Close(t) \/ Read(t) BY <1>4, EntryOK
<1>5. CASE \E count \in 1..(BufSize + 1) : Write(t, count) BY <1>5, WriteOK
<1>6. CASE OpenBody(t) BY <1>6, OpenBodyOK
<1>7. CASE CloseBody(t) BY <1>7, CloseBodyOK
<1>8. CASE CloseWake(t) \/ ReadWake(t) \/ WriteWake(t) BY <1>8, WakeOK
<1>9. CASE ReadWait(t) \/ WriteWait(t) BY <1>9, WaitOK
<1>10. CASE CloseEnd(t) BY <1>10, CloseEndOK
<1>11. CASE \E count \in 1..BufSize : ReadBody(t, count) BY <1>11, ReadBodyOK
<1>12. CASE \E data \in Payload : WriteBody(t, data) BY <1>12, WriteBodyOK
<1>13. CASE Pause(t) /\ UNCHANGED pipevars BY <1>13, SleepOK
<1> QED BY <1>1, <1>2, <1>3, <1>4, <1>5, <1>6, <1>7, <1>8, <1>9, <1>10, <1>11, <1>12, <1>13
        DEF PipeStep

-----------------------------------------------------------------------------
(* The pipe among the other helpers.                                       *)

LEMMA PipeInvInit ==
  ASSUME Init
  PROVE  PipeInv
<1>1. /\ pipe = [fifo |-> NoFifo, readers |-> 0, writers |-> 0, ref_count |-> 0,
                 owner |-> NoThread, original |-> IdlePrio,
                 flag |-> [q \in Queue |-> FALSE], waiting |-> [q \in Queue |-> <<>>]]
      /\ opened = {} /\ rest = [t \in Thread |-> 0] /\ after = [t \in Thread |-> "run"]
      /\ pc = [t \in Thread |-> "run"]
  BY DEF Init, PipeInit, IpcInit
<1>2. \A t \in Thread : At(t) = "run" BY <1>1 DEF At
<1>3. IsFiniteSet(opened) /\ Cardinality(opened) = 0 BY <1>1, FS_EmptySet
<1>4. PipeOK BY <1>1, <1>2, <1>3, RingAssumption DEF PipeOK, InCall
<1> QED BY <1>1, <1>4 DEF PipeInv

LEMMA PipeInvNext ==
  ASSUME PipeInv, [Next]_vars
  PROVE  PipeInv'
<1>1. CASE UNCHANGED vars
  BY <1>1 DEF vars, pipevars, PipeInv, PipeOK, At
<1>2. CASE Next
  <2>1. helper' = helper BY <1>2 DEF Next
  <2>2. CASE UNCHANGED pipevars /\ helper # "pipe"
    BY <2>1, <2>2 DEF PipeInv, pipevars
  <2>3. CASE helper = "pipe" /\ PipeNext
    BY <2>1, <2>3, PipeStepOK DEF PipeInv, PipeNext
  <2>4. CASE helper = "pipe" /\ UNCHANGED pipevars /\ ((\E t \in Thread : Schedule(t)) \/ Tick \/ TimerCheck)
    <3>1. CASE \E t \in Thread : Schedule(t) BY <2>1, <2>4, <3>1, SleepOK DEF PipeInv
    <3>2. CASE Tick \/ TimerCheck
      <4>1. pc' = pc
        BY <3>2 DEF Tick, TimerCheck, IpcTick, IpcTimerCheck, rt_tick_increase, rt_timer_check
      <4> QED BY <2>1, <2>4, <4>1 DEF PipeInv, PipeOK, pipevars, At
    <3> QED BY <2>4, <3>1, <3>2
  <2> QED BY <1>2, <2>2, <2>3, <2>4 DEF Next
<1> QED BY <1>1, <1>2

\* Whatever the threads do, a pipe that somebody has open has a legal ring, one
\* that nobody has open has none, and ref_count counts those who have.
THEOREM PipeInvariance == Spec => []PipeInv
<1>1. Init => PipeInv BY PipeInvInit
<1>2. PipeInv /\ [Next]_vars => PipeInv' BY PipeInvNext
<1> QED BY <1>1, <1>2, PTL DEF Spec

\* The bytes in a legal ring can be any others.
LEMMA OtherBytes ==
  ASSUME NEW rb, RingOK(rb), NEW b \in [0..(BufSize - 1) -> Byte]
  PROVE  RingOK([rb EXCEPT !.buffer = b])
<1> DEFINE x == [rb EXCEPT !.buffer = b]
<1>1. /\ x \in Ring
      /\ x.read_index = rb.read_index /\ x.write_index = rb.write_index
      /\ x.read_mirror = rb.read_mirror /\ x.write_mirror = rb.write_mirror
  BY DEF RingOK, Ring
<1> HIDE DEF x
<1>2. RingOK(x) BY <1>1 DEF RingOK
<1> QED BY <1>2 DEF x

\* The buffer of a pipe is a queue of bytes to every call of ringbuffer.c, in
\* every state that any threads and any size of the buffer lead to.
THEOREM PipeBufferIsQueue == Spec => []RingIsQueue
<1>1. ASSUME PipeInv PROVE RingIsQueue
  <2>1. SUFFICES ASSUME pipe.fifo # NoFifo, NEW n \in 1..(BufSize + 1)
                 PROVE  IsQueueOfBytes([pipe.fifo EXCEPT !.buffer = [i \in 0..(BufSize - 1) |-> i]],
                                       [i \in 1..n |-> BufSize + i - 1])
    BY DEF RingIsQueue, OwnBytes, NewBytes
  <2>2. RingOK(pipe.fifo) BY <1>1, <2>1 DEF PipeInv, PipeOK
  <2>3. BufSize \in Nat \ {0} /\ Byte = 0..(2 * BufSize) BY RingAssumption, PipeAssumption
  <2>4. [i \in 0..(BufSize - 1) |-> i] \in [0..(BufSize - 1) -> Byte] BY <2>3
  <2>5. RingOK([pipe.fifo EXCEPT !.buffer = [i \in 0..(BufSize - 1) |-> i]])
    BY <2>2, <2>4, OtherBytes
  <2>6. \A i \in 1..n : BufSize + i - 1 \in Byte BY <2>3
  <2>7. n \in Nat /\ [i \in 1..n |-> BufSize + i - 1] \in [1..n -> Byte] BY <2>3, <2>6
  <2>8. [i \in 1..n |-> BufSize + i - 1] \in Seq(Byte) BY <2>7
  <2> QED BY <2>5, <2>8, RingIsBoundedQueue
<1> QED BY <1>1, PipeInvariance, PTL

-----------------------------------------------------------------------------
(* The data queue: a ring whose indices run on, counted modulo its size.   *)

\* The remainders of two numbers less than n apart differ.
LEMMA RemaindersDiffer ==
  ASSUME NEW n \in Nat \ {0}, NEW x \in Nat, NEW y \in Nat, x < y, y < x + n
  PROVE  x % n # y % n
<1> DEFINE q == x \div n
           r == y \div n
<1>1. /\ q \in Int /\ r \in Int /\ x % n \in 0..(n - 1) /\ y % n \in 0..(n - 1)
      /\ x = n * q + (x % n) /\ y = n * r + (y % n)
  OBVIOUS
<1> SUFFICES ASSUME x % n = y % n PROVE FALSE OBVIOUS
<1>2. y - x = n * r - n * q BY <1>1
<1> HIDE DEF q, r
<1> DEFINE d == r - q
<1>3. d \in Int /\ y - x = n * d BY <1>1, <1>2
<1> HIDE DEF d
<1>4. CASE d <= 0
  <2>1. n * d <= 0 BY <1>3, <1>4
  <2> QED BY <1>3, <2>1
<1>5. CASE d >= 1
  <2>1. n * d >= n BY <1>3, <1>5
  <2> QED BY <1>3, <2>1
<1> QED BY <1>3, <1>4, <1>5

LEMMA NoWrap ==
  ASSUME NEW n \in Nat, NEW x \in Nat, x < n
  PROVE  x % n = x
  OBVIOUS

DqRing == [put_index : 0..(IndexSize - 1), get_index : 0..(IndexSize - 1),
           queue : [0..(DqSize - 1) -> Item \cup {NoItem}], wrapped : BOOLEAN]
DqSlot(i) == (dq.get_index + i - 1) % DqSize

\* The items lie between the two indices, which have not wrapped.
DqLined ==
  /\ dq \in DqRing /\ dq.wrapped = FALSE /\ dq.get_index <= dq.put_index /\ Count(dq) <= DqSize
  /\ \A i \in 1..Count(dq) : dq.queue[DqSlot(i)] \in Item

DqOrder == dq \in DqRing /\ (dq.wrapped = FALSE => DqLined)

\* What a push and a pop leave, also when put_index wraps.
LEMMA DqTyped ==
  ASSUME dq \in DqRing, NEW q, q = Popped \/ \E m \in Item : q = Pushed(m)
  PROVE  /\ q \in DqRing /\ (dq.wrapped = TRUE => q.wrapped = TRUE)
         /\ q = Popped => q.wrapped = dq.wrapped
         /\ (q.wrapped = FALSE /\ \E m \in Item : q = Pushed(m)) => dq.put_index # IndexSize - 1
         /\ dq.queue[dq.get_index % DqSize] \in Item \cup {NoItem}
<1> DEFINE put == dq.put_index
           get == dq.get_index
           Q == [0..(DqSize - 1) -> Item \cup {NoItem}]
<1>1. DqSize \in Nat \ {0} /\ IndexSize \in Nat \ {0} BY DqAssumption
<1>2. /\ put \in 0..(IndexSize - 1) /\ get \in 0..(IndexSize - 1)
      /\ dq.queue \in Q /\ dq.wrapped \in BOOLEAN
  BY DEF DqRing
<1> HIDE DEF put, get
<1>3. /\ put % DqSize \in 0..(DqSize - 1) /\ get % DqSize \in 0..(DqSize - 1)
      /\ (put + 1) % IndexSize \in 0..(IndexSize - 1) /\ (get + 1) % IndexSize \in 0..(IndexSize - 1)
  <2>1. put \in Nat /\ get \in Nat /\ put + 1 \in Nat /\ get + 1 \in Nat BY <1>1, <1>2
  <2> QED BY <1>1, <2>1
<1>4. dq.queue[get % DqSize] \in Item \cup {NoItem} BY <1>2, <1>3
<1>5. CASE q = Popped
  <2> DEFINE e == [dq.queue EXCEPT ![get % DqSize] = NoItem]
             g == (get + 1) % IndexSize
  <2>1. q = [dq EXCEPT !.queue = e, !.get_index = g] BY <1>5 DEF Popped, get, DqRing
  <2>2. e \in Q /\ g \in 0..(IndexSize - 1) BY <1>2, <1>3
  <2> HIDE DEF e, g, Q
  <2>3. dq \in [put_index : 0..(IndexSize - 1), get_index : 0..(IndexSize - 1), queue : Q, wrapped : BOOLEAN]
    BY DEF DqRing, Q
  <2>4. q \in [put_index : 0..(IndexSize - 1), get_index : 0..(IndexSize - 1), queue : Q, wrapped : BOOLEAN]
        /\ q.wrapped = dq.wrapped
    BY <2>1, <2>2, <2>3
  <2>6. ASSUME NEW m \in Item, q = Pushed(m) PROVE put = IndexSize - 1 => q.wrapped = TRUE
    BY <2>6, <2>3 DEF Pushed, put
  <2> QED BY <1>2, <1>4, <2>4, <2>6 DEF DqRing, Q, put, get
<1>6. ASSUME NEW m \in Item, q = Pushed(m)
      PROVE  q \in DqRing /\ (dq.wrapped = TRUE => q.wrapped = TRUE)
             /\ (put = IndexSize - 1 => q.wrapped = TRUE)
  <2> DEFINE e == [dq.queue EXCEPT ![put % DqSize] = m]
             p == (put + 1) % IndexSize
             v == dq.wrapped \/ put = IndexSize - 1
  <2>1. q = [dq EXCEPT !.queue = e, !.put_index = p, !.wrapped = v] BY <1>6 DEF Pushed, put, DqRing
  <2>2. e \in Q /\ p \in 0..(IndexSize - 1) BY <1>2, <1>3
  <2>3. v \in BOOLEAN /\ (dq.wrapped = TRUE => v = TRUE) /\ (put = IndexSize - 1 => v = TRUE) BY <1>2
  <2> HIDE DEF e, p, v, Q
  <2>4. dq \in [put_index : 0..(IndexSize - 1), get_index : 0..(IndexSize - 1), queue : Q, wrapped : BOOLEAN]
    BY DEF DqRing, Q
  <2>5. q \in [put_index : 0..(IndexSize - 1), get_index : 0..(IndexSize - 1), queue : Q, wrapped : BOOLEAN]
        /\ q.wrapped = v
    BY <2>1, <2>2, <2>3, <2>4
  <2> QED BY <2>3, <2>5 DEF DqRing, Q
<1>7. CASE \E m \in Item : q = Pushed(m)
  <2>1. q \in DqRing /\ (dq.wrapped = TRUE => q.wrapped = TRUE) /\ (put = IndexSize - 1 => q.wrapped = TRUE)
    BY <1>6, <1>7
  <2>2. q = Popped => q.wrapped = dq.wrapped BY DEF Popped, DqRing
  <2> QED BY <1>4, <2>1, <2>2 DEF put, get
<1> QED BY <1>5, <1>7

\* As long as put_index has not wrapped after the step, it had not before.
LEMMA DqWasLined ==
  ASSUME DqOrder, dq' = dq \/ dq' = Popped \/ \E m \in Item : dq' = Pushed(m)
  PROVE  /\ dq'.wrapped = FALSE => DqLined
         /\ dq.wrapped \in BOOLEAN /\ dq'.wrapped \in BOOLEAN
<1>1. dq \in DqRing /\ dq.wrapped \in BOOLEAN BY DEF DqOrder, DqRing
<1>2. dq' \in DqRing /\ (dq.wrapped = TRUE => dq'.wrapped = TRUE)
  <2>1. CASE dq' = dq BY <1>1, <2>1
  <2>2. CASE dq' # dq
    <3>1. PICK q : q = dq' OBVIOUS
    <3>2. q \in DqRing /\ (dq.wrapped = TRUE => q.wrapped = TRUE) BY <1>1, <2>2, <3>1, DqTyped
    <3> QED BY <3>1, <3>2
  <2> QED BY <2>1, <2>2
<1>3. dq'.wrapped \in BOOLEAN BY <1>2 DEF DqRing
<1> QED BY <1>1, <1>2, <1>3 DEF DqOrder

LEMMA DqFields ==
  ASSUME DqLined
  PROVE  /\ dq.put_index \in Nat /\ dq.get_index \in Nat /\ dq.put_index < IndexSize
         /\ dq.get_index < IndexSize /\ dq.get_index <= dq.put_index
         /\ Count(dq) \in Nat /\ Count(dq) <= DqSize /\ Count(dq) = dq.put_index - dq.get_index
         /\ dq.queue \in [0..(DqSize - 1) -> Item \cup {NoItem}]
         /\ DqSize \in Nat \ {0} /\ IndexSize \in Int /\ DqSize < IndexSize
         /\ dq = [put_index |-> dq.put_index, get_index |-> dq.get_index, queue |-> dq.queue,
                  wrapped |-> FALSE]
<1>1. DqSize \in Nat \ {0} BY DqAssumption
<1>2. /\ dq.put_index \in 0..(IndexSize - 1) /\ dq.get_index \in 0..(IndexSize - 1)
      /\ dq.queue \in [0..(DqSize - 1) -> Item \cup {NoItem}]
      /\ dq = [put_index |-> dq.put_index, get_index |-> dq.get_index, queue |-> dq.queue,
                  wrapped |-> FALSE]
  BY DEF DqLined, DqRing
<1> DEFINE put == dq.put_index
           get == dq.get_index
<1>3. Count(dq) = put - get /\ get <= put /\ Count(dq) <= DqSize BY DEF DqLined, Count
<1>4. put \in 0..(IndexSize - 1) /\ get \in 0..(IndexSize - 1) /\ IndexSize \in Nat
  BY <1>2, DqAssumption
<1> HIDE DEF put, get
<1>5. /\ put \in Nat /\ get \in Nat /\ put < IndexSize /\ get < IndexSize /\ Count(dq) \in Nat
  BY <1>3, <1>4
<1> QED BY <1>1, <1>2, <1>3, <1>5, DqAssumption DEF put, get

LEMMA DqSlots ==
  ASSUME DqLined, NEW i \in 1..(DqSize + 1)
  PROVE  /\ DqSlot(i) \in 0..(DqSize - 1)
         /\ \A j \in 1..(DqSize + 1) : i < j /\ j < i + DqSize => DqSlot(i) # DqSlot(j)
<1> DEFINE x == dq.get_index + i - 1
           n == DqSize
<1>1. x \in Nat /\ n \in Nat \ {0} /\ dq.get_index \in Nat BY DqFields
<1>2. x % n \in 0..(n - 1)
  <2> HIDE DEF x, n
  <2> QED BY <1>1
<1>3. ASSUME NEW j \in 1..(DqSize + 1), i < j, j < i + DqSize PROVE DqSlot(i) # DqSlot(j)
  <2> DEFINE y == dq.get_index + j - 1
  <2>1. y \in Nat /\ x < y /\ y < x + n BY <1>1, <1>3
  <2> HIDE DEF x, y, n
  <2>2. x % n # y % n BY <1>1, <2>1, RemaindersDiffer
  <2> QED BY <2>2 DEF DqSlot, x, y, n
<1> QED BY <1>2, <1>3 DEF DqSlot

LEMMA DqContentIs ==
  ASSUME DqLined
  PROVE  /\ DqContent \in Seq(Item) /\ Len(DqContent) = Count(dq)
         /\ \A i \in 1..Count(dq) : DqContent[i] = dq.queue[DqSlot(i)]
<1> DEFINE n == Count(dq)
<1>1. n \in Nat /\ \A i \in 1..n : dq.queue[DqSlot(i)] \in Item BY DqFields DEF DqLined
<1>2. DqContent = [i \in 1..n |-> dq.queue[DqSlot(i)]] BY DEF DqContent, DqSlot
<1> HIDE DEF n
<1> QED BY <1>1, <1>2 DEF n

\* rt_data_queue_push writes the slot behind the items.
LEMMA DqPushed ==
  ASSUME DqLined, ~DqFull, NEW m \in Item, dq' = Pushed(m), dq'.wrapped = FALSE
  PROVE  /\ DqLined' /\ Count(dq') = Count(dq) + 1
         /\ Len(DqContent) < DqSize /\ DqContent' = Append(DqContent, m)
<1> DEFINE put == dq.put_index
           get == dq.get_index
           n == Count(dq)
           s == put % DqSize
           e == [dq.queue EXCEPT ![s] = m]
           q == Append(DqContent, m)
<1>1. /\ put \in Nat /\ get \in Nat /\ n \in Nat /\ n = put - get /\ n < DqSize /\ put < IndexSize - 1
      /\ DqSize \in Nat \ {0} /\ IndexSize \in Nat /\ put + 1 < IndexSize
      /\ dq = [put_index |-> put, get_index |-> get, queue |-> dq.queue, wrapped |-> FALSE]
      /\ dq.queue \in [0..(DqSize - 1) -> Item \cup {NoItem}]
  <2>1. dq \in DqRing /\ \E x \in Item : dq' = Pushed(x) BY DEF DqLined
  <2>2. PICK z : z = dq' OBVIOUS
  <2>3. dq.put_index # IndexSize - 1 BY <2>1, <2>2, DqTyped
  <2> QED BY <2>3, DqFields, DqAssumption DEF DqFull
<1>2. (put + 1) % IndexSize = put + 1
  <2>1. put + 1 \in Nat BY <1>1
  <2> QED BY <1>1, <2>1, NoWrap
<1>3. s = DqSlot(n + 1) /\ s \in 0..(DqSize - 1)
  <2>1. get + (n + 1) - 1 = put BY <1>1
  <2>2. n + 1 \in 1..(DqSize + 1) BY <1>1
  <2> QED BY <2>1, <2>2, DqSlots DEF DqSlot
<1>4. dq' = [put_index |-> put + 1, get_index |-> get, queue |-> e, wrapped |-> FALSE]
  <2> DEFINE p == put + 1
             f == dq.queue
             v == dq.wrapped \/ put = IndexSize - 1
  <2>0. v = FALSE
    <3>1. dq.wrapped = FALSE /\ put # IndexSize - 1 BY <1>1 DEF DqLined
    <3> QED BY <3>1
  <2>1. dq' = [dq EXCEPT !.queue = e, !.put_index = p, !.wrapped = v] BY <1>2, <1>1 DEF Pushed
  <2>2. dq = [put_index |-> put, get_index |-> get, queue |-> f, wrapped |-> FALSE] BY <1>1
  <2> HIDE DEF put, get, e, p, f, v
  <2>3. dq' = [put_index |-> p, get_index |-> get, queue |-> e, wrapped |-> FALSE]
    BY ONLY <2>0, <2>1, <2>2
  <2> QED BY <2>3 DEF p
<1> HIDE DEF put, get, e, s, n
<1>5. dq'.put_index = put + 1 /\ dq'.get_index = get /\ dq'.queue = e BY <1>4
<1>6. Count(dq') = n + 1 BY <1>1, <1>5 DEF Count
<1>7. \A i : DqSlot(i)' = DqSlot(i) BY <1>5 DEF DqSlot, get
<1>8. e \in [0..(DqSize - 1) -> Item \cup {NoItem}] BY <1>1, <1>3 DEF e
<1>9. \A i \in 1..n : DqSlot(i) # s /\ DqSlot(i) \in 0..(DqSize - 1)
  <2> TAKE i \in 1..n
  <2>1. /\ i \in 1..(DqSize + 1) /\ n + 1 \in 1..(DqSize + 1) /\ i < n + 1 /\ n + 1 < i + DqSize
    BY <1>1
  <2> QED BY <1>3, <2>1, DqSlots
<1>10. /\ DqContent \in Seq(Item) /\ Len(DqContent) = n
       /\ \A i \in 1..n : DqContent[i] = dq.queue[DqSlot(i)]
  BY DqContentIs DEF n
<1>11. /\ q \in Seq(Item) /\ Len(q) = n + 1 /\ q[n + 1] = m /\ \A i \in 1..n : q[i] = DqContent[i]
  BY <1>10
<1> HIDE DEF q
<1>12. \A i \in 1..(n + 1) : e[DqSlot(i)] = q[i] /\ q[i] \in Item
  <2> TAKE i \in 1..(n + 1)
  <2>1. CASE i = n + 1 BY <1>1, <1>3, <1>11, <2>1 DEF e
  <2>2. CASE i # n + 1
    <3>1. i \in 1..n BY <1>1, <2>2
    <3>2. e[DqSlot(i)] = dq.queue[DqSlot(i)] BY <1>1, <1>9, <3>1 DEF e
    <3> QED BY <1>1, <1>10, <1>11, <3>1, <3>2
  <2> QED BY <2>1, <2>2
<1>13. DqContent' = q
  <2>1. DqContent' = [i \in 1..(n + 1) |-> e[DqSlot(i)]] BY <1>5, <1>6, <1>7 DEF DqContent, DqSlot
  <2>2. q = [i \in 1..(n + 1) |-> q[i]] BY <1>1, <1>11
  <2> QED BY <1>12, <2>1, <2>2
<1>14. DqLined'
  <2>1. dq' \in DqRing
    <3>1. put + 1 \in 0..(IndexSize - 1) /\ get \in 0..(IndexSize - 1) BY <1>1
    <3> QED BY <1>4, <1>8, <3>1 DEF DqRing
  <2>2. dq'.get_index <= dq'.put_index /\ Count(dq') <= DqSize BY <1>1, <1>5, <1>6
  <2>3. \A i \in 1..Count(dq') : dq'.queue[DqSlot(i)'] \in Item BY <1>5, <1>6, <1>7, <1>12
  <2>4. dq'.wrapped = FALSE OBVIOUS
  <2> QED BY <2>1, <2>2, <2>3, <2>4 DEF DqLined, DqSlot
<1> QED BY <1>1, <1>6, <1>10, <1>13, <1>14 DEF n, q

\* rt_data_queue_pop takes the item of the first slot.
LEMMA DqTaken ==
  ASSUME DqLined, ~DqEmpty, dq' = Popped
  PROVE  /\ DqLined' /\ Count(dq') = Count(dq) - 1 /\ Count(dq) > 0
         /\ DqContent # <<>> /\ DqContent' = Tail(DqContent)
         /\ dq.queue[dq.get_index % DqSize] = Head(DqContent) /\ Head(DqContent) \in Item
<1> DEFINE put == dq.put_index
           get == dq.get_index
           n == Count(dq)
           s == get % DqSize
           e == [dq.queue EXCEPT ![s] = NoItem]
           q == DqContent
<1>1. /\ put \in Nat /\ get \in Nat /\ n \in Nat \ {0} /\ n = put - get /\ n <= DqSize
      /\ DqSize \in Nat \ {0} /\ IndexSize \in Nat /\ get + 1 < IndexSize /\ put < IndexSize
      /\ dq = [put_index |-> put, get_index |-> get, queue |-> dq.queue, wrapped |-> FALSE]
      /\ dq.queue \in [0..(DqSize - 1) -> Item \cup {NoItem}]
  BY DqFields, DqAssumption DEF DqEmpty
<1>2. (get + 1) % IndexSize = get + 1
  <2>1. get + 1 \in Nat BY <1>1
  <2> QED BY <1>1, <2>1, NoWrap
<1>3. s = DqSlot(1) /\ s \in 0..(DqSize - 1)
  <2>1. get + 1 - 1 = get BY <1>1
  <2>2. 1 \in 1..(DqSize + 1) BY <1>1
  <2> QED BY <2>1, <2>2, DqSlots DEF DqSlot
<1>4. dq' = [put_index |-> put, get_index |-> get + 1, queue |-> e, wrapped |-> FALSE]
  <2> DEFINE g == get + 1
             f == dq.queue
  <2>1. dq' = [dq EXCEPT !.queue = e, !.get_index = g] BY <1>2, <1>1 DEF Popped
  <2>2. dq = [put_index |-> put, get_index |-> get, queue |-> f, wrapped |-> FALSE] BY <1>1
  <2> HIDE DEF put, get, e, g, f
  <2>3. dq' = [put_index |-> put, get_index |-> g, queue |-> e, wrapped |-> FALSE] BY ONLY <2>1, <2>2
  <2> QED BY <2>3 DEF g
<1> HIDE DEF put, get, e, s, n
<1>5. dq'.put_index = put /\ dq'.get_index = get + 1 /\ dq'.queue = e BY <1>4
<1>6. Count(dq') = n - 1 BY <1>1, <1>5 DEF Count
<1>7. \A i \in 1..n : DqSlot(i)' = DqSlot(i + 1)
  <2> TAKE i \in 1..n
  <2>1. (get + 1) + i - 1 = get + (i + 1) - 1 BY <1>1
  <2> QED BY <1>5, <2>1 DEF DqSlot, get
<1>8. e \in [0..(DqSize - 1) -> Item \cup {NoItem}] BY <1>1, <1>3 DEF e
<1>9. \A i \in 1..(n - 1) : DqSlot(i + 1) # s /\ DqSlot(i + 1) \in 0..(DqSize - 1)
  <2> TAKE i \in 1..(n - 1)
  <2>1. /\ i + 1 \in 1..(DqSize + 1) /\ 1 \in 1..(DqSize + 1) /\ 1 < i + 1 /\ i + 1 < 1 + DqSize
    BY <1>1
  <2> QED BY <1>3, <2>1, DqSlots
<1>10. /\ q \in Seq(Item) /\ Len(q) = n /\ \A i \in 1..n : q[i] = dq.queue[DqSlot(i)]
  BY DqContentIs DEF n
<1>11. \A i \in 1..(n - 1) : e[DqSlot(i)'] = q[i + 1] /\ q[i + 1] \in Item
  <2> TAKE i \in 1..(n - 1)
  <2>1. i \in 1..n /\ i + 1 \in 1..n BY <1>1
  <2>2. e[DqSlot(i + 1)] = dq.queue[DqSlot(i + 1)] BY <1>1, <1>9 DEF e
  <2> QED BY <1>7, <1>10, <2>1, <2>2
<1>12. DqContent' = [i \in 1..(n - 1) |-> e[DqSlot(i)']] BY <1>5, <1>6 DEF DqContent, DqSlot
<1> HIDE DEF q
<1>13. q # <<>> /\ Head(q) = q[1] /\ 1 \in 1..n /\ q[1] \in Item BY <1>1, <1>10
<1>14. Tail(q) = [i \in 1..(n - 1) |-> q[i + 1]]
  <2> DEFINE r == Tail(q)
  <2>1. r \in Seq(Item) /\ Len(r) = n - 1 /\ \A i \in 1..(n - 1) : r[i] = q[i + 1]
    BY <1>1, <1>10, <1>13, HeadTailProperties
  <2> HIDE DEF r
  <2>2. r = [i \in 1..(n - 1) |-> r[i]] BY <1>1, <2>1
  <2>3. r = [i \in 1..(n - 1) |-> q[i + 1]] BY <2>1, <2>2
  <2> QED BY <2>3 DEF r
<1>15. DqContent' = Tail(q) BY <1>11, <1>12, <1>14
<1>16. DqLined'
  <2>1. dq' \in DqRing
    <3>1. put \in 0..(IndexSize - 1) /\ get + 1 \in 0..(IndexSize - 1) BY <1>1
    <3> QED BY <1>4, <1>8, <3>1 DEF DqRing
  <2>2. dq'.get_index <= dq'.put_index /\ Count(dq') <= DqSize BY <1>1, <1>5, <1>6
  <2>3. \A i \in 1..Count(dq') : dq'.queue[DqSlot(i)'] \in Item BY <1>5, <1>6, <1>11
  <2>4. dq'.wrapped = FALSE BY <1>4
  <2> QED BY <2>1, <2>2, <2>3, <2>4 DEF DqLined, DqSlot
<1>17. dq.queue[s] = Head(q) BY <1>3, <1>10, <1>13
<1> QED BY <1>1, <1>6, <1>13, <1>15, <1>16, <1>17 DEF n, q, s, get

-----------------------------------------------------------------------------
(* The data queue in every state, and what it refines.                     *)

DqPc == {"run", "sched"} \cup DqLabel
DqPushPc == {"push_sched", "push_back"}

\* Who waits to push has left its item.
DqItems ==
  /\ pc \in [Thread -> DqPc] /\ dqitem \in [Thread -> Item \cup {NoItem}]
  /\ \A t \in Thread : pc[t] \in DqPushPc => dqitem[t] \in Item

\* While the driver uses another helper the queue is left alone.
DqInv ==
  /\ DqOrder /\ popped \in Item \cup {NoItem}
  /\ helper = "dataqueue" => DqItems

DqNexts == DqAbstract!Next \/ UNCHANGED DqAbstract!vars
DqRefines == dq'.wrapped = FALSE => DqNexts

LEMMA DqAbstractSteps ==
  ASSUME popped' \in Item \cup {NoItem}
  PROVE  /\ \A m \in Item : /\ DqContent' = Append(DqContent, m) /\ Len(DqContent) < DqSize
                            /\ DqQuiet
                            => DqNexts
         /\ DqContent # <<>> /\ DqContent' = Tail(DqContent) /\ popped' = Head(DqContent) => DqNexts
         /\ DqContent' = DqContent /\ popped' \in {popped, NoItem} => DqNexts
<1> DEFINE held == [r \in {"caller"} |-> popped]
           heldNext == [r \in {"caller"} |-> popped']
<1>1. held' = heldNext OBVIOUS
<1>2. heldNext \in [{"caller"} -> Item \cup {NoItem}] OBVIOUS
<1>3. popped' \in {popped, NoItem} => DqAbstract!Others({"caller"})
  BY <1>1, <1>2 DEF DqAbstract!Others, DqAbstract!KeepOrDrop
<1>4. DqAbstract!Others({"caller"} \ {"caller"}) /\ heldNext["caller"] = popped'
  BY <1>2 DEF DqAbstract!Others, DqAbstract!KeepOrDrop
<1>5. ASSUME NEW m \in Item, DqContent' = Append(DqContent, m), Len(DqContent) < DqSize, DqQuiet
      PROVE  DqNexts
  <2>1. DqAbstract!PutAtOnce(m) BY <1>3, <1>5 DEF DqAbstract!PutAtOnce, DqQuiet
  <2> QED BY <2>1 DEF DqNexts, DqAbstract!Next
<1>6. ASSUME DqContent # <<>>, DqContent' = Tail(DqContent), popped' = Head(DqContent) PROVE DqNexts
  <2>1. DqAbstract!Get("caller") BY <1>4, <1>6 DEF DqAbstract!Get
  <2> QED BY <2>1 DEF DqNexts, DqAbstract!Next
<1>7. ASSUME DqContent' = DqContent, popped' \in {popped, NoItem} PROVE DqNexts
  <2>1. DqAbstract!Done BY <1>3, <1>7 DEF DqAbstract!Done
  <2> QED BY <2>1 DEF DqNexts, DqAbstract!Next
<1> QED BY <1>5, <1>6, <1>7

\* The items are left alone.
LEMMA DqKept ==
  ASSUME DqOrder, popped \in Item \cup {NoItem}, dq' = dq, popped' \in {popped, NoItem}
  PROVE  DqOrder' /\ popped' \in Item \cup {NoItem} /\ DqRefines
<1>1. DqContent' = DqContent BY DEF DqContent
<1>2. DqOrder' BY DEF DqOrder, DqLined, DqSlot
<1> QED BY <1>1, <1>2, DqAbstractSteps DEF DqRefines

LEMMA DqPushStep ==
  ASSUME DqOrder, ~DqFull, NEW m \in Item, dq' = Pushed(m), DqQuiet
  PROVE  DqOrder' /\ popped' \in Item \cup {NoItem} /\ DqRefines
<1>1. popped' \in Item \cup {NoItem} BY DEF DqQuiet
<1>2. dq' \in DqRing
  <2>1. PICK q : q = dq' OBVIOUS
  <2>2. q \in DqRing BY <2>1, DqTyped DEF DqOrder
  <2> QED BY <2>1, <2>2
<1>3. dq'.wrapped = FALSE => DqLined BY DqWasLined
<1>4. ASSUME dq'.wrapped = FALSE PROVE DqLined' /\ DqNexts
  BY <1>1, <1>3, <1>4, DqPushed, DqAbstractSteps
<1> QED BY <1>1, <1>2, <1>4 DEF DqOrder, DqRefines

LEMMA DqPopStep ==
  ASSUME DqOrder, ~DqEmpty, dq' = Popped, popped' = dq.queue[dq.get_index % DqSize]
  PROVE  DqOrder' /\ popped' \in Item \cup {NoItem} /\ DqRefines
<1>1. dq' \in DqRing /\ popped' \in Item \cup {NoItem}
  <2>1. PICK q : q = dq' OBVIOUS
  <2>2. q \in DqRing /\ dq.queue[dq.get_index % DqSize] \in Item \cup {NoItem}
    BY <2>1, DqTyped DEF DqOrder
  <2> QED BY <2>1, <2>2
<1>2. dq'.wrapped = FALSE => DqLined BY DqWasLined
<1>3. ASSUME dq'.wrapped = FALSE PROVE DqLined' /\ DqNexts
  BY <1>1, <1>2, <1>3, DqTaken, DqAbstractSteps
<1> QED BY <1>1, <1>3 DEF DqOrder, DqRefines

\* A thread goes on; it keeps the item it waits with, or leaves one.
LEMMA DqItemsGo ==
  ASSUME DqItems, NEW t \in Thread, NEW l \in DqPc, Goto(t, l),
         dqitem' \in [Thread -> Item \cup {NoItem}],
         \A u \in Thread \ {t} : dqitem'[u] = dqitem[u],
         l \in DqPushPc => dqitem'[t] \in Item
  PROVE  DqItems'
<1>1. pc' = [pc EXCEPT ![t] = l] /\ pc \in [Thread -> DqPc] BY DEF Goto, DqItems
<1>2. pc' \in [Thread -> DqPc] /\ pc'[t] = l /\ \A u \in Thread \ {t} : pc'[u] = pc[u] BY <1>1
<1> QED BY <1>2 DEF DqItems

LEMMA DqLeaves ==
  ASSUME DqItems, NEW t \in Thread, NEW l \in {"run", "sched"}, Goto(t, l), Leave(t)
  PROVE  DqItems'
<1>1. /\ dqitem' \in [Thread -> Item \cup {NoItem}]
      /\ \A u \in Thread \ {t} : dqitem'[u] = dqitem[u]
  BY DEF DqItems, Leave
<1>2. l \in DqPc /\ l \notin DqPushPc BY DEF DqPc, DqPushPc
<1> QED BY <1>1, <1>2, DqItemsGo

LEMMA DqPushBodyOK ==
  ASSUME DqOrder, popped \in Item \cup {NoItem}, DqItems, NEW t \in Thread, NEW m \in Item, NEW time,
         PushBody(t, m, time), DqQuiet
  PROVE  DqOrder' /\ popped' \in Item \cup {NoItem} /\ DqRefines /\ DqItems'
<1>1. CASE ~DqFull
  <2>1. dq' = Pushed(m) /\ Leave(t) BY <1>1 DEF PushBody
  <2>2. PICK l \in {"run", "sched"} : Goto(t, l) BY <1>1 DEF PushBody
  <2> QED BY <1>1, <2>1, <2>2, DqPushStep, DqLeaves
<1>2. CASE DqFull /\ time = 0
  <2>1. Leave(t) /\ Goto(t, "run") /\ dq' = dq BY <1>2 DEF PushBody, DqReturn, Return
  <2> QED BY <2>1, DqKept, DqLeaves DEF DqQuiet
<1>3. CASE DqFull /\ time # 0
  <2>1. dq' = dq /\ dqitem' = [dqitem EXCEPT ![t] = m] /\ Goto(t, "push_sched")
    BY <1>3 DEF PushBody, DqSuspend
  <2>2. /\ dqitem' \in [Thread -> Item \cup {NoItem}] /\ dqitem'[t] = m
        /\ \A u \in Thread \ {t} : dqitem'[u] = dqitem[u]
    BY <2>1 DEF DqItems
  <2>3. DqItems' BY <2>1, <2>2, DqItemsGo DEF DqPc, DqLabel
  <2> QED BY <2>1, <2>3, DqKept DEF DqQuiet
<1> QED BY <1>1, <1>2, <1>3

LEMMA DqPopBodyOK ==
  ASSUME DqOrder, popped \in Item \cup {NoItem}, DqItems, NEW t \in Thread, NEW time,
         PopBody(t, time)
  PROVE  DqOrder' /\ popped' \in Item \cup {NoItem} /\ DqRefines /\ DqItems'
<1>1. CASE ~DqEmpty
  <2>1. dq' = Popped /\ popped' = dq.queue[dq.get_index % DqSize] /\ Leave(t)
    BY <1>1 DEF PopBody
  <2>2. PICK l \in {"run", "sched"} : Goto(t, l) BY <1>1 DEF PopBody
  <2> QED BY <1>1, <2>1, <2>2, DqPopStep, DqLeaves
<1>2. CASE DqEmpty /\ time = 0
  <2>1. Leave(t) /\ Goto(t, "run") /\ dq' = dq /\ DqQuiet BY <1>2 DEF PopBody, DqReturn, Return
  <2> QED BY <2>1, DqKept, DqLeaves DEF DqQuiet
<1>3. CASE DqEmpty /\ time # 0
  <2>1. dq' = dq /\ dqitem' = dqitem /\ Goto(t, "pop_sched") /\ DqQuiet
    BY <1>3 DEF PopBody, DqSuspend
  <2>2. DqItems' BY <2>1, DqItemsGo DEF DqPc, DqLabel, DqPushPc, DqItems
  <2> QED BY <2>1, <2>2, DqKept DEF DqQuiet
<1> QED BY <1>1, <1>2, <1>3

\* A step of a reset or of the scheduler.
LEMMA DqPlain ==
  ASSUME DqOrder, popped \in Item \cup {NoItem}, DqItems, DqQuiet, UNCHANGED <<dq, dqitem>>,
         pc' = pc \/ \E t \in Thread : \E l \in DqPc :
           Goto(t, l) /\ (l \in DqPushPc => pc[t] \in DqPushPc)
  PROVE  DqOrder' /\ popped' \in Item \cup {NoItem} /\ DqRefines /\ DqItems'
<1>1. CASE pc' = pc BY <1>1, DqKept DEF DqItems, DqQuiet
<1>2. ASSUME NEW t \in Thread, NEW l \in DqPc, Goto(t, l), l \in DqPushPc => pc[t] \in DqPushPc
      PROVE  DqItems'
  <2>1. l \in DqPushPc => dqitem'[t] \in Item BY <1>2 DEF DqItems
  <2>2. dqitem' = dqitem /\ dqitem \in [Thread -> Item \cup {NoItem}] BY DEF DqItems
  <2> QED BY <1>2, <2>1, <2>2, DqItemsGo
<1> QED BY <1>1, <1>2, DqKept DEF DqQuiet

LEMMA DqStepOK ==
  ASSUME DqOrder, popped \in Item \cup {NoItem}, DqItems, NEW t \in Thread, DqStep(t)
  PROVE  DqOrder' /\ popped' \in Item \cup {NoItem} /\ DqRefines /\ DqItems'
<1> USE DEF DqPc, DqLabel, DqPushPc
<1>1. CASE \E time \in Timeout : Pop(t, time) BY <1>1, DqPopBodyOK DEF Pop
<1>2. CASE \E time \in Timeout : \E m \in Item : Push(t, m, time)
  BY <1>2, DqPushBodyOK DEF Push
<1>3. CASE PushBack(t)
  <2>1. CASE k.err[t] = "EOK"
    <3>1. dqitem[t] \in Item BY <1>3 DEF PushBack, Running, DqItems
    <3> QED BY <1>3, <2>1, <3>1, DqPushBodyOK DEF PushBack
  <2>2. CASE k.err[t] # "EOK"
    <3>1. Leave(t) /\ Goto(t, "run") /\ dq' = dq /\ DqQuiet
      BY <1>3, <2>2 DEF PushBack, DqReturn, Return
    <3> QED BY <3>1, DqKept, DqLeaves DEF DqQuiet
  <2> QED BY <2>1, <2>2
<1>4. CASE PopBack(t)
  <2>1. CASE k.err[t] = "EOK" BY <1>4, <2>1, DqPopBodyOK DEF PopBack
  <2>2. CASE k.err[t] # "EOK"
    <3>1. Leave(t) /\ Goto(t, "run") /\ dq' = dq /\ DqQuiet
      BY <1>4, <2>2 DEF PopBack, DqReturn, Return
    <3> QED BY <3>1, DqKept, DqLeaves DEF DqQuiet
  <2> QED BY <2>1, <2>2
<1>5. CASE PushSchedule(t) \/ PopSchedule(t)
  <2>1. /\ DqQuiet /\ UNCHANGED <<dq, dqitem>>
        /\ \/ pc[t] = "push_sched" /\ Goto(t, "push_back")
           \/ pc[t] = "pop_sched" /\ Goto(t, "pop_back")
    BY <1>5 DEF PushSchedule, PopSchedule, IpcSchedule, ScheduleStep, Running
  <2> QED BY <2>1, DqPlain
<1>6. CASE DqReset(t) \/ DqResetResume(t) \/ DqResetEnd(t)
  <2>1. DqQuiet /\ UNCHANGED <<dq, dqitem>> BY <1>6 DEF DqReset, DqResetResume, DqResetEnd
  <2>2. \E l \in {"close_pop", "resume_pop", "close_push", "resume_push", "dq_exit", "sched"} : Goto(t, l)
    BY <1>6 DEF DqReset, DqResetResume, DqResetEnd, CloseList
  <2> QED BY <2>1, <2>2, DqPlain
<1> QED BY <1>1, <1>2, <1>3, <1>4, <1>5, <1>6 DEF DqStep

LEMMA DqInterruptOK ==
  ASSUME DqOrder, popped \in Item \cup {NoItem}, DqItems, DqInterrupt
  PROVE  DqOrder' /\ popped' \in Item \cup {NoItem} /\ DqRefines /\ DqItems'
<1>1. CASE IsrPop
  <2>1. /\ ~DqEmpty /\ dq' = Popped /\ popped' = dq.queue[dq.get_index % DqSize]
        /\ UNCHANGED <<pc, dqitem>>
    BY <1>1 DEF IsrPop
  <2> QED BY <2>1, DqPopStep DEF DqItems
<1>2. CASE \E m \in Item : IsrPush(m)
  <2>1. PICK m \in Item : IsrPush(m) BY <1>2
  <2>2. ~DqFull /\ dq' = Pushed(m) /\ DqQuiet /\ UNCHANGED <<pc, dqitem>>
    BY <2>1 DEF IsrPush
  <2> QED BY <2>2, DqPushStep DEF DqItems
<1> QED BY <1>1, <1>2 DEF DqInterrupt

LEMMA DqInvInit ==
  ASSUME Init
  PROVE  DqInv /\ DqAbstract!Init
<1> DEFINE zero == 0
<1>1. /\ dq.put_index = 0 /\ dq.get_index = 0 /\ dq.queue = [i \in 0..(DqSize - 1) |-> NoItem]
      /\ dq = [put_index |-> 0, get_index |-> 0, queue |-> dq.queue, wrapped |-> FALSE]
      /\ dqitem = [t \in Thread |-> NoItem] /\ popped = NoItem /\ pc = [t \in Thread |-> "run"]
  BY DEF Init, DqInit, IpcInit
<1>2. DqSize \in Nat \ {0} /\ IndexSize \in Nat \ {0} BY DqAssumption
<1>3. Count(dq) = 0 BY <1>1 DEF Count
<1>4. dq \in DqRing
  <2>1. zero \in 0..(IndexSize - 1) BY <1>2
  <2>2. dq = [put_index |-> zero, get_index |-> zero, queue |-> dq.queue, wrapped |-> FALSE] BY <1>1
  <2>3. dq.queue \in [0..(DqSize - 1) -> Item \cup {NoItem}] BY <1>1
  <2> DEFINE Q == [0..(DqSize - 1) -> Item \cup {NoItem}]
             first == dq.queue
  <2>4. first \in Q BY <2>3
  <2>5. dq = [put_index |-> zero, get_index |-> zero, queue |-> first, wrapped |-> FALSE] BY <2>2
  <2>6. DqRing = [put_index : 0..(IndexSize - 1), get_index : 0..(IndexSize - 1),
                  queue : Q, wrapped : BOOLEAN]
    BY DEF DqRing
  <2> HIDE DEF zero, Q, first
  <2> QED BY <2>1, <2>4, <2>5, <2>6
<1>5. DqOrder BY <1>1, <1>2, <1>3, <1>4 DEF DqOrder, DqLined
<1>6. DqItems BY <1>1 DEF DqItems, DqPc, DqPushPc
<1>7. DqContent = <<>> BY <1>3 DEF DqContent
<1>8. [r \in {"caller"} |-> popped] = [r \in {"caller"} |-> NoItem] BY <1>1
<1> QED BY <1>1, <1>5, <1>6, <1>7, <1>8 DEF DqInv, DqAbstract!Init

LEMMA DqInvNext ==
  ASSUME DqInv, [Next]_vars
  PROVE  DqInv' /\ DqRefines
<1>1. DqOrder /\ popped \in Item \cup {NoItem} BY DEF DqInv
<1>2. CASE UNCHANGED <<dq, popped>> /\ UNCHANGED <<pc, dqitem, helper>>
  <2>1. DqItems => DqItems' BY <1>2 DEF DqItems
  <2> QED BY <1>1, <1>2, <2>1, DqKept DEF DqInv
<1>3. CASE Next
  <2>1. helper' = helper BY <1>3 DEF Next
  <2>2. CASE helper # "dataqueue" /\ dq' = dq /\ popped' \in {popped, NoItem}
    BY <1>1, <2>1, <2>2, DqKept DEF DqInv
  <2>3. CASE helper = "dataqueue" /\ DqNext
    BY <1>1, <2>1, <2>3, DqStepOK, DqInterruptOK DEF DqInv, DqNext
  <2>4. CASE (\E t \in Thread : Schedule(t)) \/ Tick \/ TimerCheck
    <3>1. DqQuiet /\ UNCHANGED <<dq, dqitem>> BY <2>4 DEF Schedule, Tick, TimerCheck
    <3>2. pc' = pc \/ \E t \in Thread : Goto(t, "run")
      BY <2>4 DEF Schedule, Tick, TimerCheck, IpcSchedule, ScheduleStep, IpcTick, rt_tick_increase,
                  IpcTimerCheck, rt_timer_check
    <3>3. DqItems => DqOrder' /\ popped' \in Item \cup {NoItem} /\ DqRefines /\ DqItems'
      BY <1>1, <3>1, <3>2, DqPlain DEF DqPc, DqPushPc
    <3> QED BY <1>1, <2>1, <3>1, <3>3, DqKept DEF DqInv, DqQuiet
  <2> QED BY <1>3, <2>2, <2>3, <2>4 DEF Next, dqvars
<1> QED BY <1>2, <1>3 DEF vars, dqvars

\* The items lie between the two indices until put_index wraps, and who waits
\* to push has its item with it, whichever helper the driver uses.
THEOREM DqInvariance == Spec => []DqInv
<1>1. Init => DqInv BY DqInvInit
<1>2. DqInv /\ [Next]_vars => DqInv' BY DqInvNext
<1> QED BY <1>1, <1>2, PTL DEF Spec

\* rt_data_queue_push and rt_data_queue_pop, of threads that wait and of
\* handlers, implement a queue of at most size items that nothing overtakes and
\* nothing empties but pops: until the push that wraps put_index, each item is
\* handed out once, in the order of the pushes, also across a reset.
THEOREM DataQueueRefines == Spec => DqImplementsQueue
<1>1. Init => DqAbstract!Init BY DqInvInit
<1>2. DqInv /\ [Next]_vars => [~dq'.wrapped => DqAbstract!Next]_(DqAbstract!vars)
  <2> SUFFICES ASSUME DqInv, [Next]_vars, ~dq'.wrapped
               PROVE  DqAbstract!Next \/ UNCHANGED DqAbstract!vars
    OBVIOUS
  <2>1. DqInv' /\ DqRefines BY DqInvNext
  <2>2. dq'.wrapped \in BOOLEAN BY <2>1 DEF DqInv, DqOrder, DqRing
  <2> QED BY <2>1, <2>2 DEF DqRefines, DqNexts
<1> QED BY <1>1, <1>2, DqInvariance, PTL DEF Spec, DqImplementsQueue

-----------------------------------------------------------------------------
(* Who runs while a driver uses a helper: a thread that is ready, or one   *)
(* at a label of P, on its way into rt_schedule.                           *)

Runs(P) ==
  /\ Resting(k) /\ isr \in {"none", "timer"} /\ (isr = "timer" => k.timers # <<>>)
  /\ k.cur \in Thread /\ (pc[k.cur] \in P \/ k.stat[k.cur] = "READY")
  /\ DOMAIN pc = Thread /\ pc[Idle] = "run" /\ "run" \notin P

\* A thread that takes a step of its own.
LEMMA Caller ==
  ASSUME NEW P, Runs(P), NEW t \in Thread, NEW l, Running(t, l)
  PROVE  /\ k.cur = t /\ pc[t] = l /\ isr = "none" /\ Resting(k) /\ t \in Thread
         /\ l \notin P => k.stat[t] = "READY" /\ OnNone(k, t)
         /\ l # "run" => t # Idle
<1>1. k.cur = t /\ pc[t] = l /\ isr = "none" /\ Resting(k) BY DEF Running, Runs
<1>2. l \notin P => k.stat[t] = "READY" /\ OnNone(k, t) BY <1>1, RestingOnNone DEF Runs
<1> QED BY <1>1, <1>2 DEF Runs

LEMMA CallerOf ==
  ASSUME NEW P, Runs(P), NEW t \in Thread, NEW op, Calls(t, op)
  PROVE  k.stat[t] = "READY" /\ OnNone(k, t) /\ t # Idle /\ Running(t, "run")
<1>1. Running(t, "run") /\ op \in Prog[t] BY DEF Calls
<1>2. t # Idle BY <1>1, DriverAssumption
<1> QED BY <1>1, <1>2, Caller DEF Runs

\* It goes on at l, and the kernel is as it left it.
LEMMA RunsOn ==
  ASSUME NEW P, Runs(P), NEW t \in Thread \ {Idle}, NEW l, isr = "none", isr' = isr,
         Goto(t, l), Resting(k'),
         (k'.cur = t /\ (l \in P \/ k'.stat[t] = "READY")) \/ Serves(k')
  PROVE  /\ Runs(P)'
         /\ pc'[t] = l /\ \A u \in Thread : u # t => pc'[u] = pc[u]
<1>1. pc' = [pc EXCEPT ![t] = l] /\ DOMAIN pc = Thread BY DEF Goto, Runs
<1>2. pc'[t] = l /\ DOMAIN pc' = Thread /\ \A u \in Thread : u # t => pc'[u] = pc[u] BY <1>1
<1>3. Idle \in Thread BY ThreadAssumption
<1> QED BY <1>2, <1>3 DEF Runs, Serves

\* It stays where it is, or an interrupt handler has run.
LEMMA RunsStay ==
  ASSUME NEW P, Runs(P), isr = "none", isr' = isr, pc' = pc, Resting(k'),
         (k'.cur = k.cur /\ k'.stat[k.cur] = k.stat[k.cur]) \/ Serves(k')
  PROVE  Runs(P)'
  BY DEF Runs, Serves

LEMMA RunsSchedule ==
  ASSUME NEW P, Runs(P), NEW t \in Thread, NEW l, NEW m, ScheduleStep(t, l, m), l # "run",
         k.nest = 0 \/ l \notin P
  PROVE  /\ Runs(P)' /\ Same(k, k', {}) /\ Chosen(k, k') /\ k'.timers = k.timers
         /\ pc'[t] = m /\ \A u \in Thread : u # t => pc'[u] = pc[u]
<1>1. Running(t, l) /\ k' = rt_schedule(k) /\ Goto(t, m) /\ isr' = isr BY DEF ScheduleStep
<1>2. t # Idle /\ Resting(k) /\ k.cur = t /\ isr = "none" /\ (l \notin P => k.stat[t] = "READY")
  BY <1>1, Caller
<1>3. Resting(k') /\ Same(k, k', {}) /\ Chosen(k, k') /\ k'.timers = k.timers
  BY <1>1, <1>2, ScheduleRests
<1>4. (k'.cur = t /\ k'.stat[t] = "READY") \/ Serves(k')
  BY <1>2, <1>3, KernelFields DEF Chosen, Serves, Same, Resting, KernelOK
<1> QED BY <1>1, <1>2, <1>3, <1>4, RunsOn

LEMMA RunsTick ==
  ASSUME NEW P, Runs(P), IpcTick
  PROVE  /\ Runs(P)' /\ Same(k, k', {}) /\ (Kept(k, k') \/ Chosen(k, k')) /\ pc' = pc
         /\ k' = TickIncrease(k)
<1>1. k' = TickIncrease(k) /\ isr' = IsrAfter(k') /\ pc' = pc BY DEF IpcTick, rt_tick_increase
<1>2. Resting(k') /\ Same(k, k', {}) /\ (Kept(k, k') \/ Chosen(k, k')) BY <1>1, TickRests DEF Runs
<1>3. isr' \in {"none", "timer"} /\ (isr' = "timer" => k'.timers # <<>>)
  BY <1>1 DEF IsrAfter, TimerExpired
<1>4. k'.cur = k.cur \/ Serves(k') BY <1>2 DEF Kept, Chosen, Serves
<1>5. k'.cur \in Thread /\ (pc'[k'.cur] \in P \/ k'.stat[k'.cur] = "READY")
  BY <1>1, <1>2, <1>4 DEF Runs, Serves, Same
<1> QED BY <1>1, <1>2, <1>3, <1>5 DEF Runs

LEMMA RunsTimer ==
  ASSUME NEW P, Runs(P), IpcTimerCheck
  PROVE  LET h == Head(k.timers)
         IN  /\ Runs(P)' /\ Same(k, k', {h}) /\ Chosen(k, k') /\ pc' = pc
             /\ h \in Thread /\ h \in Timed(k) /\ k.stat[h] = "SUSPEND" /\ k' = TimerFire(k)
             /\ k'.stat[h] = "READY" /\ k'.err[h] = "ETIMEOUT" /\ OnNone(k', h)
<1> DEFINE h == Head(k.timers)
<1>1. /\ isr = "timer" /\ k' = TimerFire(k) /\ isr' = IsrAfter(k') /\ pc' = pc
  BY DEF IpcTimerCheck, rt_timer_check
<1>2. /\ h \in Thread /\ h \in Timed(k) /\ k.stat[h] = "SUSPEND"
      /\ Resting(k') /\ Same(k, k', {h}) /\ Chosen(k, k')
      /\ k'.stat[h] = "READY" /\ k'.err[h] = "ETIMEOUT" /\ OnNone(k', h)
  BY <1>1, FireRests DEF Runs
<1> HIDE DEF h
<1>3. isr' \in {"none", "timer"} /\ (isr' = "timer" => k'.timers # <<>>)
  BY <1>1 DEF IsrAfter, TimerExpired
<1>4. k'.cur = k.cur \/ Serves(k') BY <1>2 DEF Chosen, Serves
<1>5. k'.cur \in Thread /\ (pc'[k'.cur] \in P \/ k'.stat[k'.cur] = "READY")
  BY <1>1, <1>2, <1>4 DEF Runs, Serves, Same
<1>6. Runs(P)' BY <1>1, <1>2, <1>3, <1>5 DEF Runs
<1> QED BY <1>1, <1>2, <1>6 DEF h

\* The threads run, and nobody waits.
LEMMA BootRuns ==
  ASSUME NEW P, "run" \notin P, IpcInit
  PROVE  /\ Runs(P) /\ Settled(k) /\ k.err \in [Thread -> {"EOK"}] /\ k.timers = <<>>
         /\ pc = [t \in Thread |-> "run"]
         /\ \A t \in Thread : k.stat[t] = "READY" /\ OnNone(k, t)
         /\ \A w \in WaitList : On(k, w) = {} /\ k.list[w] = <<>>
<1>1. k = Booted(InitPrio) /\ pc = [t \in Thread |-> "run"] /\ isr = "none" BY DEF IpcInit
<1>2. /\ KernelOK(k) /\ k.nest = 0 /\ k.timers = <<>>
      /\ k.cur \in Thread /\ k.err \in [Thread -> {"EOK"}]
      /\ \A t \in Thread : k.stat[t] = "READY" /\ ~Off(k, t)
  BY <1>1, BootedOK, IpcAssumption
<1>3. Settled(k) BY <1>2 DEF Settled, Resting
<1>4. \A t \in Thread : OnNone(k, t) BY <1>2, <1>3, ReadyOnNone
<1>5. \A w \in WaitList : On(k, w) = {} /\ k.list[w] = <<>>
  BY <1>3, <1>4, SettledFields DEF OnNone
<1>6. Runs(P) BY <1>1, <1>2, <1>3, ThreadAssumption DEF Runs, Settled
<1> QED BY <1>1, <1>2, <1>3, <1>4, <1>5, <1>6

\* The code of a thread that is ready is cleared.
LEMMA CodeRests ==
  ASSUME NEW s, Resting(s), NEW t \in Thread, s.stat[t] = "READY"
  PROVE  LET r == [s EXCEPT !.err[t] = "EOK"]
         IN  /\ Resting(r) /\ Same(s, r, {t}) /\ Kept(s, r)
             /\ r.stat[t] = "READY" /\ r.err[t] = "EOK" /\ OnNone(r, t)
<1> DEFINE r == [s EXCEPT !.err[t] = "EOK"]
<1>0. "EOK" \in Error BY DEF Error
<1>1. /\ KernelOK(r) /\ Kept(s, r) /\ r.stat = s.stat /\ r.list = s.list
      /\ r.err = [s.err EXCEPT ![t] = "EOK"]
  BY <1>0, SetError DEF Resting
<1>2. Same(s, r, {t}) BY <1>0, ErrorSame DEF Resting
<1>3. r.err[t] = "EOK" BY <1>1, RestingFields
<1> HIDE DEF r
<1>4. r.stat[t] = "READY" /\ ~Off(r, t) BY <1>1 DEF Resting, Off, On
<1>5. Resting(r) BY <1>1, <1>2, <1>4, OneRests
<1>6. OnNone(r, t) BY <1>4, <1>5, RestingOnNone
<1> QED BY <1>1, <1>2, <1>3, <1>4, <1>5, <1>6 DEF r

\* The scheduler is locked and unlocked.
LEMMA NestRests ==
  ASSUME NEW s, Resting(s), NEW n \in Nat
  PROVE  LET r == [s EXCEPT !.nest = n]
         IN  Resting(r) /\ Same(s, r, {}) /\ r.cur = s.cur /\ r.nest = n /\ r.timers = s.timers
<1> DEFINE r == [s EXCEPT !.nest = n]
<1>1. /\ r \in KernelState /\ r.stat = s.stat /\ r.list = s.list /\ r.prio = s.prio
      /\ r.err = s.err /\ r.group = s.group /\ r.timers = s.timers /\ r.cur = s.cur /\ r.nest = n
      /\ r.left = s.left
  BY DEF Resting, KernelOK, KernelState
<1> HIDE DEF r
<1>2. Same(s, r, {}) BY <1>1 DEF Same, Off, On, Timed
<1>3. KernelOK(r)
  <2>1. (\A l : On(r, l) = On(s, l)) /\ Timed(r) = Timed(s) BY <1>1 DEF On, Timed
  <2>2. Apart(r) BY <1>1, <2>1 DEF Resting, KernelOK, Apart
  <2>3. Placed(r) BY <1>1, <2>1 DEF Resting, KernelOK, Placed
  <2>4. Bitmap(r) BY <1>1 DEF Resting, KernelOK, Bitmap
  <2> QED BY <1>1, <2>1, <2>2, <2>3, <2>4 DEF Resting, KernelOK
<1> QED BY <1>1, <1>2, <1>3, NobodyRests DEF r

LEMMA EnterRests ==
  ASSUME NEW s, Resting(s)
  PROVE  LET r == rt_enter_critical(s)
         IN  Resting(r) /\ Same(s, r, {}) /\ r.cur = s.cur /\ r.nest = s.nest + 1
<1>1. s.nest \in Nat BY DEF Resting, KernelOK, KernelState
<1>2. rt_enter_critical(s) = [s EXCEPT !.nest = s.nest + 1] BY DEF rt_enter_critical
<1>3. s.nest + 1 \in Nat BY <1>1
<1> QED BY <1>2, <1>3, NestRests

\* The last rt_exit_critical reschedules.
LEMMA ExitRests ==
  ASSUME NEW s, Resting(s), s.nest = 1
  PROVE  LET r == rt_schedule(rt_exit_critical(s))
         IN  Resting(r) /\ Same(s, r, {}) /\ Serves(r) /\ r.nest = 0
<1> DEFINE q == [s EXCEPT !.nest = 0]
           r == rt_schedule(q)
<1>1. rt_exit_critical(s) = q BY DEF rt_exit_critical
<1>2. Resting(q) /\ Same(s, q, {}) /\ q.nest = 0 BY NestRests
<1> HIDE DEF q
<1>3. Resting(r) /\ Same(q, r, {}) /\ Chosen(q, r) BY <1>2, ScheduleRests
<1> HIDE DEF r
<1>4. Same(s, r, {}) BY <1>2, <1>3, SameTrans
<1>5. Serves(r) /\ r.nest = 0 BY <1>2, <1>3 DEF Chosen, Serves
<1> QED BY <1>1, <1>3, <1>4, <1>5 DEF r

\* An interrupt handler goes on to rt_schedule if it has woken a thread.
LEMMA HandlerRests ==
  ASSUME NEW s, Resting(s), NEW w \in WaitList
  PROVE  LET M == Firsts(s, w)
             r == IF s.list[w] # <<>> THEN rt_schedule(ResumeFirst(s, w)) ELSE s
         IN  /\ Resting(r) /\ Same(s, r, M) /\ (Kept(s, r) \/ Chosen(s, r))
             /\ \A t \in M : r.stat[t] = "READY" /\ r.err[t] = s.err[t] /\ OnNone(r, t)
<1>1. CASE s.list[w] = <<>>
  <2>1. Same(s, s, {}) /\ Kept(s, s) BY DEF Same, Kept
  <2> QED BY <1>1, <2>1 DEF Firsts
<1>2. CASE s.list[w] # <<>>
  <2> DEFINE M == Firsts(s, w)
             a == ResumeFirst(s, w)
             r == rt_schedule(a)
  <2>1. /\ M \subseteq On(s, w) /\ Resting(a) /\ Same(s, a, M) /\ Kept(s, a) /\ a.err = s.err
        /\ \A t \in M : a.stat[t] = "READY" /\ OnNone(a, t)
    BY FirstRests
  <2> HIDE DEF a, M
  <2>2. Resting(r) /\ Same(a, r, {}) /\ Chosen(a, r) BY <2>1, ScheduleRests
  <2> HIDE DEF r
  <2>3. M \subseteq Thread BY <2>1, RestingFields
  <2>4. Same(s, r, M) BY <2>1, <2>2 DEF Same
  <2>5. \A t \in M : r.stat[t] = "READY" /\ r.err[t] = s.err[t] /\ OnNone(r, t)
    BY <2>1, <2>2, <2>3 DEF Same, OnNone
  <2>6. Chosen(s, r) BY <2>1, <2>2 DEF Kept, Chosen
  <2> QED BY <1>2, <2>2, <2>4, <2>5, <2>6 DEF r, a, M
<1> QED BY <1>1, <1>2

-----------------------------------------------------------------------------
(* Completion: who sleeps is on its list and has not been signalled.       *)

CpWaiting == {"cp_sched", "cp_back"}

CpQueue ==
  /\ \A t \in Thread : k.stat[t] = "SUSPEND" => t \in On(k, CpList)
  /\ \A t \in On(k, CpList) : pc[t] \in CpWaiting
  /\ \A t, u \in Thread : pc[t] \in CpWaiting /\ pc[u] \in CpWaiting => t = u
  /\ On(k, CpList) # {} => ~completed

CpOK == Runs({"cp_sched"}) /\ k.nest = 0 /\ CpQueue

\* Nobody falls asleep.
LEMMA CpNobody ==
  ASSUME CpQueue, Resting(k), Resting(k'), Same(k, k', {}), completed' => completed,
         \A u \in Thread : pc'[u] \in CpWaiting <=> pc[u] \in CpWaiting
  PROVE  CpQueue'
<1>1. CpList \in WaitList BY CpAssumption
<1>2. On(k', CpList) = On(k, CpList)
  <2>1. On(k, CpList) \subseteq Thread /\ On(k', CpList) \subseteq Thread BY <1>1, RestingFields
  <2> QED BY <1>1, <2>1 DEF Same
<1>3. \A t \in Thread : k'.stat[t] = k.stat[t] BY DEF Same
<1>4. On(k, CpList) \subseteq Thread BY <1>1, RestingFields
<1> QED BY <1>2, <1>3, <1>4 DEF CpQueue

\* The threads of M are made ready, and nobody else moves.
LEMMA CpReady ==
  ASSUME CpQueue, Resting(k), Resting(k'), NEW M \in SUBSET Thread, Same(k, k', M),
         \A u \in M : k'.stat[u] = "READY" /\ OnNone(k', u),
         (completed' => completed) \/ On(k, CpList) \subseteq M,
         \A u \in Thread : pc'[u] \in CpWaiting <=> pc[u] \in CpWaiting
  PROVE  CpQueue'
<1>1. CpList \in WaitList BY CpAssumption
<1>2. On(k', CpList) = On(k, CpList) \ M
  <2>1. On(k, CpList) \subseteq Thread /\ On(k', CpList) \subseteq Thread BY <1>1, RestingFields
  <2> QED BY <1>1, <2>1 DEF Same, OnNone
<1>3. \A t \in Thread \ M : k'.stat[t] = k.stat[t] BY DEF Same
<1>4. On(k, CpList) \subseteq Thread BY <1>1, RestingFields
<1>5. \A t \in Thread : k'.stat[t] = "SUSPEND" => t \in On(k', CpList)
  BY <1>2, <1>3 DEF CpQueue
<1>6. \A t \in On(k', CpList) : pc'[t] \in CpWaiting BY <1>2, <1>4 DEF CpQueue
<1>7. On(k', CpList) # {} => ~completed' BY <1>2 DEF CpQueue
<1> QED BY <1>5, <1>6, <1>7 DEF CpQueue

LEMMA CpInitOK == ASSUME Init PROVE CpOK
<1>1. IpcInit /\ completed = FALSE /\ CpList \in WaitList BY CpAssumption DEF Init, CpInit
<1>2. "run" \notin {"cp_sched"} OBVIOUS
<1>3. /\ Runs({"cp_sched"}) /\ k.nest = 0 /\ pc = [t \in Thread |-> "run"]
      /\ On(k, CpList) = {} /\ \A t \in Thread : k.stat[t] = "READY"
  BY <1>1, <1>2, BootRuns DEF Settled
<1> QED BY <1>1, <1>3 DEF CpQueue, CpOK, CpWaiting

LEMMA CpThreads ==
  ASSUME CpOK, NEW t \in Thread, CpStep(t)
  PROVE  CpOK'
<1> DEFINE P == {"cp_sched"}
<1>1. Runs(P) /\ k.nest = 0 /\ Settled(k) /\ Resting(k) /\ CpQueue /\ CpList \in WaitList
  BY CpAssumption DEF CpOK, Runs, Settled
<1>2. Same(k, k, {}) BY DEF Same
<1> HIDE DEF P
<1>3. CASE CpReinit(t)
  <2>1. Running(t, "run") /\ pc' = pc /\ isr' = isr /\ completed' = FALSE BY <1>3 DEF CpReinit, Calls
  <2>2. On(k, CpList) = {}
    BY <1>1, <1>3, RestingFields DEF CpQueue, CpReinit, CpWaiting
  <2>3. k.list[CpList] = <<>> BY <1>1, <2>2, RestingFields
  <2>4. k' = k
    <3>1. k' = [k EXCEPT !.list[CpList] = <<>>] BY <1>3 DEF CpReinit
    <3>2. k \in KernelState /\ CpList \in ListHead BY <1>1, RestingFields
    <3> QED BY <2>3, <3>1, <3>2 DEF KernelState
  <2>5. isr = "none" BY <2>1 DEF Running
  <2>6. Runs(P)' BY <1>1, <2>1, <2>4, <2>5, RunsStay
  <2>7. CpQueue' BY <1>1, <1>2, <2>1, <2>4, CpNobody
  <2> QED BY <1>1, <2>4, <2>6, <2>7 DEF CpOK, P
<1>4. CASE CpTake(t)
  <2>1. Running(t, "run") /\ pc' = pc /\ isr' = isr /\ k' = k /\ completed' = FALSE
    BY <1>4 DEF CpTake, Calls
  <2>2. isr = "none" BY <2>1 DEF Running
  <2>3. Runs(P)' BY <1>1, <2>1, <2>2, RunsStay
  <2>4. CpQueue' BY <1>1, <1>2, <2>1, CpNobody
  <2> QED BY <1>1, <2>1, <2>3, <2>4 DEF CpOK, P
<1>5. CASE \E time \in Timeout \ {0} : CpWait(t, time)
  <2>1. PICK time \in Timeout : CpWait(t, time) BY <1>5
  <2>2. /\ Calls(t, "cp_wait") /\ ~completed /\ completed' = completed /\ isr' = isr
        /\ \A u \in Thread : pc[u] \notin CpWaiting
        /\ k' = BlockOn(k, CpList, t, "FIFO", time) /\ Goto(t, "cp_sched")
    BY <2>1 DEF CpWait, CpWaiting
  <2>3. k.stat[t] = "READY" /\ OnNone(k, t) /\ t # Idle /\ Running(t, "run") BY <1>1, <2>2, CallerOf
  <2>4. k.cur = t /\ isr = "none" BY <1>1, <2>3, Caller
  <2>5. /\ Settled(k') /\ Same(k, k', {t}) /\ k'.cur = t
        /\ k'.stat[t] = "SUSPEND" /\ OnlyOn(k', t, CpList)
    BY <1>1, <2>2, <2>3, <2>4, BlockOK
  <2>6. Resting(k') /\ k'.nest = 0 BY <2>5 DEF Settled
  <2>7. t \in Thread \ {Idle} /\ "cp_sched" \in P BY <2>3 DEF P
  <2>8. Runs(P)' /\ pc'[t] = "cp_sched" /\ \A u \in Thread : u # t => pc'[u] = pc[u]
    BY <1>1, <2>2, <2>4, <2>5, <2>6, <2>7, RunsOn
  <2>9. CpQueue'
    <3>1. On(k', CpList) \subseteq Thread BY <1>1, <2>6, RestingFields
    <3>2. t \in On(k', CpList) BY <1>1, <2>5 DEF OnlyOn
    <3>3. On(k, CpList) = {} BY <1>1, <2>2, RestingFields DEF CpQueue
    <3>4. On(k', CpList) = {t} BY <1>1, <2>5, <3>1, <3>2, <3>3 DEF Same
    <3>5. \A u \in Thread : k'.stat[u] = "SUSPEND" => u = t
      BY <1>1, <2>5, <3>3 DEF CpQueue, Same
    <3> QED BY <2>2, <2>8, <3>4, <3>5 DEF CpQueue, CpWaiting
  <2> QED BY <2>6, <2>8, <2>9 DEF CpOK, P
<1>6. CASE CpSchedule(t)
  <2>1. ScheduleStep(t, "cp_sched", "cp_back") /\ completed' = completed
    BY <1>6 DEF CpSchedule, IpcSchedule
  <2>2. Running(t, "cp_sched") BY <2>1 DEF ScheduleStep
  <2>3. pc[t] = "cp_sched" BY <2>2 DEF Running
  <2>4. /\ Runs(P)' /\ Same(k, k', {}) /\ Chosen(k, k')
        /\ pc'[t] = "cp_back" /\ \A u \in Thread : u # t => pc'[u] = pc[u]
    BY <1>1, <2>1, RunsSchedule
  <2>5. k'.nest = 0 /\ Resting(k') BY <1>1, <2>4 DEF Chosen, Runs
  <2>6. CpQueue' BY <1>1, <2>1, <2>3, <2>4, <2>5, CpNobody DEF CpWaiting
  <2> QED BY <2>4, <2>5, <2>6 DEF CpOK, P
<1>7. CASE CpBack(t)
  <2>1. /\ Running(t, "cp_back") /\ completed' = FALSE /\ isr' = isr
        /\ k' = [k EXCEPT !.err[t] = "EOK"] /\ Goto(t, "run")
    BY <1>7 DEF CpBack, Return
  <2>2. "cp_back" \notin P BY DEF P
  <2>3. k.cur = t /\ isr = "none" /\ k.stat[t] = "READY" /\ OnNone(k, t) /\ t # Idle /\ pc[t] = "cp_back"
    BY <1>1, <2>1, <2>2, Caller
  <2>4. KernelOK(k') /\ Kept(k, k') /\ k'.stat = k.stat /\ k'.list = k.list
    BY <1>1, <2>1, SetError DEF Resting, Error
  <2>5. Same(k, k', {t}) BY <1>1, <2>1, ErrorSame DEF Resting, Error
  <2>6. Resting(k')
    <3>1. k'.stat[t] = "READY" /\ ~Off(k', t) BY <1>1, <2>3, <2>4 DEF Resting, Off, On
    <3> QED BY <1>1, <2>4, <2>5, <3>1, OneRests
  <2>7. k'.cur = t /\ k'.nest = 0 /\ t \in Thread \ {Idle} BY <1>1, <2>3, <2>4 DEF Kept
  <2>8. Runs(P)' /\ pc'[t] = "run" /\ \A u \in Thread : u # t => pc'[u] = pc[u]
    BY <1>1, <2>1, <2>3, <2>4, <2>6, <2>7, RunsOn
  <2>9. On(k', CpList) = On(k, CpList) /\ t \notin On(k, CpList)
    BY <1>1, <2>3, <2>4 DEF On, OnNone
  <2>10. CpQueue'
    <3>1. On(k, CpList) = {}
      <4>1. On(k, CpList) \subseteq Thread BY <1>1, RestingFields
      <4> QED BY <1>1, <2>3, <2>9, <4>1 DEF CpQueue, CpWaiting
    <3> QED BY <1>1, <2>1, <2>4, <2>8, <2>9, <3>1 DEF CpQueue, CpWaiting
  <2> QED BY <2>7, <2>8, <2>10 DEF CpOK, P
<1>8. CASE CpDone(t)
  <2>1. CASE Calls(t, "cp_done") /\ Goto(t, "cp_done") /\ UNCHANGED <<k, isr, timeout, completed>>
    <3>1. k.stat[t] = "READY" /\ t # Idle /\ Running(t, "run") BY <1>1, <2>1, CallerOf
    <3>2. k.cur = t /\ isr = "none" /\ pc[t] = "run" BY <1>1, <3>1, Caller
    <3>3. t \in Thread \ {Idle} /\ Resting(k') BY <1>1, <2>1, <3>1
    <3>4. Runs(P)' /\ pc'[t] = "cp_done" /\ \A u \in Thread : u # t => pc'[u] = pc[u]
      BY <1>1, <2>1, <3>1, <3>2, <3>3, RunsOn
    <3>5. CpQueue' BY <1>1, <1>2, <2>1, <3>2, <3>4, CpNobody DEF CpWaiting
    <3> QED BY <1>1, <2>1, <3>4, <3>5 DEF CpOK, P
  <2>2. CASE /\ Running(t, "cp_done") /\ completed' = TRUE /\ k' = ResumeFirst(k, CpList)
             /\ Goto(t, IF k.list[CpList] # <<>> THEN "sched" ELSE "run")
             /\ UNCHANGED <<isr, timeout>>
    <3> DEFINE M == Firsts(k, CpList)
               m == IF k.list[CpList] # <<>> THEN "sched" ELSE "run"
    <3>0. "cp_done" \notin P BY DEF P
    <3>1. k.cur = t /\ isr = "none" /\ k.stat[t] = "READY" /\ OnNone(k, t) /\ t # Idle
          /\ pc[t] = "cp_done"
      BY <1>1, <2>2, <3>0, Caller
    <3>2. /\ M \subseteq On(k, CpList) /\ (M = {} <=> On(k, CpList) = {})
          /\ Resting(k') /\ Same(k, k', M) /\ Kept(k, k')
          /\ \A u \in M : k'.stat[u] = "READY" /\ OnNone(k', u)
      BY <1>1, <2>2, FirstRests
    <3>3. On(k, CpList) \subseteq Thread BY <1>1, RestingFields
    <3>4. On(k, CpList) \subseteq M
      <4> HIDE DEF M
      <4> QED BY <1>1, <3>2, <3>3 DEF CpQueue
    <3>5. t \notin M BY <1>1, <3>1, <3>2 DEF OnNone
    <3>6. Goto(t, m) BY <2>2
    <3>7. m \in {"run", "sched"} OBVIOUS
    <3> HIDE DEF M, m
    <3>8. k'.cur = t /\ k'.stat[t] = "READY" /\ k'.nest = 0 /\ t \in Thread \ {Idle}
      BY <1>1, <3>1, <3>2, <3>5 DEF Kept, Same
    <3>9. Runs(P)' /\ pc'[t] = m /\ \A u \in Thread : u # t => pc'[u] = pc[u]
      BY <1>1, <2>2, <3>1, <3>2, <3>6, <3>8, RunsOn
    <3>10. M \in SUBSET Thread BY <3>2, <3>3
    <3>11. \A u \in Thread : pc'[u] \in CpWaiting <=> pc[u] \in CpWaiting
      BY <3>1, <3>7, <3>9 DEF CpWaiting
    <3>12. CpQueue' BY <1>1, <3>2, <3>4, <3>10, <3>11, CpReady
    <3> QED BY <3>8, <3>9, <3>12 DEF CpOK, P
  <2> QED BY <1>8, <2>1, <2>2 DEF CpDone
<1> QED BY <1>3, <1>4, <1>5, <1>6, <1>7, <1>8 DEF CpStep

LEMMA CpHandlers ==
  ASSUME CpOK, CpIsrDone
  PROVE  CpOK'
<1> DEFINE P == {"cp_sched"}
           M == Firsts(k, CpList)
<1>1. Runs(P) /\ k.nest = 0 /\ Settled(k) /\ Resting(k) /\ CpQueue /\ CpList \in WaitList
  BY CpAssumption DEF CpOK, Runs, Settled
<1>2. /\ isr = "none" /\ isr' = isr /\ pc' = pc /\ completed' = TRUE
      /\ k' = IF k.list[CpList] # <<>> THEN rt_schedule(ResumeFirst(k, CpList)) ELSE k
  BY DEF CpIsrDone
<1>3. /\ Settled(k') /\ Same(k, k', M) /\ (k' = k \/ Serves(k'))
      /\ \A u \in M : k'.stat[u] = "READY" /\ OnNone(k', u)
  BY <1>1, <1>2, FirstThenSchedule
<1>4. M \subseteq On(k, CpList) /\ (M = {} <=> On(k, CpList) = {}) BY <1>1, FirstRests
<1>5. On(k, CpList) \subseteq Thread BY <1>1, RestingFields
<1> HIDE DEF M, P
<1>6. On(k, CpList) \subseteq M BY <1>1, <1>4, <1>5 DEF CpQueue
<1>7. Resting(k') /\ k'.nest = 0 /\ M \in SUBSET Thread BY <1>3, <1>4, <1>5 DEF Settled
<1>8. Runs(P)' BY <1>1, <1>2, <1>3, <1>7, RunsStay
<1>9. CpQueue' BY <1>1, <1>2, <1>3, <1>6, <1>7, CpReady
<1> QED BY <1>7, <1>8, <1>9 DEF CpOK, P

LEMMA CpKernel ==
  ASSUME CpOK, completed' = completed, (\E t \in Thread : Schedule(t)) \/ Tick \/ TimerCheck
  PROVE  CpOK'
<1> DEFINE P == {"cp_sched"}
<1>1. Runs(P) /\ k.nest = 0 /\ Resting(k) /\ CpQueue BY DEF CpOK, Runs
<1> HIDE DEF P
<1>2. CASE \E t \in Thread : Schedule(t)
  <2>1. PICK t \in Thread : ScheduleStep(t, "sched", "run") BY <1>2 DEF Schedule, IpcSchedule
  <2>2. pc[t] = "sched" BY <2>1 DEF ScheduleStep, Running
  <2>3. /\ Runs(P)' /\ Same(k, k', {}) /\ Chosen(k, k')
        /\ pc'[t] = "run" /\ \A u \in Thread : u # t => pc'[u] = pc[u]
    <3>1. "sched" \notin P BY DEF P
    <3> QED BY <1>1, <2>1, <3>1, RunsSchedule
  <2>4. k'.nest = 0 /\ Resting(k') BY <1>1, <2>3 DEF Chosen, Runs
  <2>5. CpQueue' BY <1>1, <2>2, <2>3, <2>4, CpNobody DEF CpWaiting
  <2> QED BY <2>3, <2>4, <2>5 DEF CpOK, P
<1>3. CASE Tick
  <2>1. Runs(P)' /\ Same(k, k', {}) /\ (Kept(k, k') \/ Chosen(k, k')) /\ pc' = pc
    BY <1>1, <1>3, RunsTick DEF Tick
  <2>2. k'.nest = 0 /\ Resting(k') BY <1>1, <2>1 DEF Kept, Chosen, Runs
  <2>3. CpQueue' BY <1>1, <2>1, <2>2, CpNobody
  <2> QED BY <2>1, <2>2, <2>3 DEF CpOK, P
<1>4. CASE TimerCheck
  <2> DEFINE h == Head(k.timers)
  <2>1. /\ Runs(P)' /\ Same(k, k', {h}) /\ Chosen(k, k') /\ pc' = pc
        /\ h \in Thread /\ k'.stat[h] = "READY" /\ OnNone(k', h)
    BY <1>1, <1>4, RunsTimer DEF TimerCheck
  <2> HIDE DEF h
  <2>2. k'.nest = 0 /\ Resting(k') BY <1>1, <2>1 DEF Chosen, Runs
  <2>3. CpQueue' BY <1>1, <2>1, <2>2, CpReady
  <2> QED BY <2>1, <2>2, <2>3 DEF CpOK, P
<1> QED BY <1>2, <1>3, <1>4

\* A completion that nobody uses stays as it was made.
CpInv == (helper = "completion" => CpOK) /\ (helper # "completion" => completed = FALSE)

LEMMA CpInvNext ==
  ASSUME CpInv, [Next]_vars
  PROVE  CpInv'
<1>1. CASE UNCHANGED vars
  <2>1. UNCHANGED <<k, isr, pc, completed, helper>> BY <1>1 DEF vars
  <2> QED BY <2>1 DEF CpInv, CpOK, CpQueue, Runs
<1>2. CASE helper' = helper /\ helper = "completion" /\ CpNext
  BY <1>2, CpThreads, CpHandlers DEF CpInv, CpNext
<1>3. CASE helper' = helper /\ helper # "completion" /\ completed' = completed
  BY <1>3 DEF CpInv
<1>4. CASE /\ helper' = helper /\ completed' = completed
           /\ (\E t \in Thread : Schedule(t)) \/ Tick \/ TimerCheck
  BY <1>4, CpKernel DEF CpInv
<1> QED BY <1>1, <1>2, <1>3, <1>4 DEF Next

THEOREM CpInvariance == Spec => []CpInv
<1>1. Init => CpInv BY CpInitOK DEF CpInv, Init, CpInit
<1>2. CpInv /\ [Next]_vars => CpInv' BY CpInvNext
<1> QED BY <1>1, <1>2, PTL DEF Spec

\* Nobody sleeps on a completion that has happened: the flag is raised and the
\* list of the sleepers is emptied in one step, and a wait that finds the flag
\* does not begin.
THEOREM CompletionStrandsNobody == Spec => [](helper = "completion" => CpNobodyStranded)
<1>1. ASSUME CpInv PROVE helper = "completion" => CpNobodyStranded
  <2> SUFFICES ASSUME helper = "completion" PROVE CpNobodyStranded OBVIOUS
  <2>1. Resting(k) /\ CpQueue /\ CpList \in WaitList BY <1>1, CpAssumption DEF CpInv, CpOK, Runs
  <2>2. k.list[CpList] = <<>> <=> On(k, CpList) = {} BY <2>1, RestingFields
  <2> QED BY <2>1, <2>2 DEF CpQueue, CpNobodyStranded
<1> QED BY <1>1, CpInvariance, PTL

-----------------------------------------------------------------------------
(* Data queue: whoever sleeps is on one of its two lists, and those woken  *)
(* are as many as the items or the places they were woken for.             *)

DqPopPc == {"pop_sched", "pop_back"}
DqClosePc == {"close_pop", "resume_pop", "close_push", "resume_push", "dq_exit"}
DqEnters == {"push_sched", "pop_sched"}

DqWaits ==
  /\ \A t \in Thread : k.stat[t] = "SUSPEND" => t \in On(k, PopList) \cup On(k, PushList)
  /\ \A t \in On(k, PopList) : pc[t] \in DqPopPc /\ k.err[t] = "EOK"
  /\ \A t \in On(k, PushList) : pc[t] \in DqPushPc /\ k.err[t] = "EOK"

\* One thread resets the queue, and has the scheduler locked.
DqLocked ==
  \/ k.nest = 0 /\ \A t \in Thread : pc[t] \notin DqClosePc
  \/ k.nest = 1 /\ pc[k.cur] \in DqClosePc /\ \A t \in Thread \ {k.cur} : pc[t] \notin DqClosePc

DqCounted ==
  dq.wrapped = FALSE =>
  /\ On(k, PopList) # {} => Count(dq) <= Cardinality(WokenPoppers)
  /\ On(k, PushList) # {} => Count(dq) + Cardinality(WokenPushers) > Lwm

DqOK ==
  /\ Runs(DqEnters) /\ DqLocked /\ DqWaits /\ DqCounted
  /\ dqtime \in [Thread -> Timeout]

LEMMA DqFacts ==
  ASSUME DqOK
  PROVE  /\ Runs(DqEnters) /\ Resting(k) /\ PopList \in WaitList /\ PushList \in WaitList
         /\ On(k, PopList) \subseteq Thread /\ On(k, PushList) \subseteq Thread
         /\ WokenPoppers \subseteq Thread /\ WokenPushers \subseteq Thread
         /\ \A t \in Thread : Running(t, pc[t]) /\ pc[t] \notin DqClosePc => Settled(k)
         /\ \A t \in Thread : k.stat[t] = "READY" => t \notin On(k, PopList) \cup On(k, PushList)
<1>1. Runs(DqEnters) /\ Resting(k) /\ PopList \in WaitList /\ PushList \in WaitList
  BY DqAssumption DEF DqOK, Runs
<1>2. On(k, PopList) \subseteq Thread /\ On(k, PushList) \subseteq Thread BY <1>1, RestingFields
<1>3. \A t \in Thread : Running(t, pc[t]) /\ pc[t] \notin DqClosePc => Settled(k)
  BY <1>1 DEF DqOK, DqLocked, Running, Settled
<1>4. \A t \in Thread : k.stat[t] = "READY" => t \notin On(k, PopList) \cup On(k, PushList)
  BY <1>1, RestingOnNone DEF OnNone
<1> QED BY <1>1, <1>2, <1>3, <1>4 DEF WokenPoppers, WokenPushers, DqWoken

\* The threads of T are made ready and the others do not move.
LEMMA DqReady ==
  ASSUME DqOK, Resting(k'), NEW T \in SUBSET Thread, Same(k, k', T),
         \A u \in T : k'.stat[u] = "READY" /\ OnNone(k', u),
         \A u \in Thread \ T : /\ pc'[u] \in DqPopPc <=> pc[u] \in DqPopPc
                               /\ pc'[u] \in DqPushPc <=> pc[u] \in DqPushPc
  PROVE  /\ DqWaits'
         /\ On(k', PopList) = On(k, PopList) \ T /\ On(k', PushList) = On(k, PushList) \ T
         /\ WokenPoppers \ T \subseteq WokenPoppers' /\ WokenPushers \ T \subseteq WokenPushers'
         /\ \A u \in T : k'.err[u] = "EOK" => /\ pc'[u] \in DqPopPc => u \in WokenPoppers'
                                              /\ pc'[u] \in DqPushPc => u \in WokenPushers'
<1>1. /\ PopList \in WaitList /\ PushList \in WaitList
      /\ On(k, PopList) \subseteq Thread /\ On(k, PushList) \subseteq Thread
  BY DqFacts
<1>2. On(k', PopList) \subseteq Thread /\ On(k', PushList) \subseteq Thread
  BY <1>1, RestingFields
<1>3. On(k', PopList) = On(k, PopList) \ T /\ On(k', PushList) = On(k, PushList) \ T
  BY <1>1, <1>2 DEF Same, OnNone
<1>4. \A u \in Thread \ T : k'.stat[u] = k.stat[u] /\ k'.err[u] = k.err[u] BY DEF Same
<1>5. DqWaits' BY <1>1, <1>3, <1>4 DEF DqWaits, DqOK
<1>6. /\ WokenPoppers = {t \in Thread : pc[t] \in DqPopPc /\ t \notin On(k, PopList) /\ k.err[t] = "EOK"}
      /\ WokenPoppers' = {t \in Thread : pc'[t] \in DqPopPc /\ t \notin On(k', PopList) /\ k'.err[t] = "EOK"}
      /\ WokenPushers = {t \in Thread : pc[t] \in DqPushPc /\ t \notin On(k, PushList) /\ k.err[t] = "EOK"}
      /\ WokenPushers' = {t \in Thread : pc'[t] \in DqPushPc /\ t \notin On(k', PushList) /\ k'.err[t] = "EOK"}
  BY DEF WokenPoppers, WokenPushers, DqWoken, On, DqPopPc, DqPushPc
<1>7. WokenPoppers \ T \subseteq WokenPoppers' /\ WokenPushers \ T \subseteq WokenPushers'
  BY <1>3, <1>4, <1>6
<1>8. \A u \in T : k'.err[u] = "EOK" => /\ pc'[u] \in DqPopPc => u \in WokenPoppers'
                                        /\ pc'[u] \in DqPushPc => u \in WokenPushers'
  BY <1>3, <1>6
<1> QED BY <1>3, <1>5, <1>7, <1>8

\* A thread falls asleep on list w, one of the two.
LEMMA DqSleeps ==
  ASSUME DqOK, Resting(k'), NEW t \in Thread, NEW w \in {PopList, PushList}, Same(k, k', {t}),
         OnNone(k, t), k'.stat[t] = "SUSPEND" /\ k'.err[t] = "EOK" /\ OnlyOn(k', t, w),
         pc'[t] = IF w = PopList THEN "pop_sched" ELSE "push_sched",
         \A u \in Thread \ {t} : pc'[u] = pc[u]
  PROVE  /\ DqWaits'
         /\ On(k', PopList) = On(k, PopList) \cup {u \in {t} : w = PopList}
         /\ On(k', PushList) = On(k, PushList) \cup {u \in {t} : w = PushList}
         /\ WokenPoppers \ {t} \subseteq WokenPoppers' /\ WokenPushers \ {t} \subseteq WokenPushers'
<1>1. /\ PopList \in WaitList /\ PushList \in WaitList
      /\ On(k, PopList) \subseteq Thread /\ On(k, PushList) \subseteq Thread
  BY DqFacts
<1>2. On(k', PopList) \subseteq Thread /\ On(k', PushList) \subseteq Thread
  BY <1>1, RestingFields
<1>3. PopList # PushList BY DqAssumption
<1>4. /\ On(k', PopList) = On(k, PopList) \cup {u \in {t} : w = PopList}
      /\ On(k', PushList) = On(k, PushList) \cup {u \in {t} : w = PushList}
  BY <1>1, <1>2, <1>3 DEF Same, OnNone, OnlyOn
<1>5. \A u \in Thread \ {t} : k'.stat[u] = k.stat[u] /\ k'.err[u] = k.err[u] BY DEF Same
<1>6. DqWaits'
  <2>1. \A u \in Thread : k'.stat[u] = "SUSPEND" => u \in On(k', PopList) \cup On(k', PushList)
    BY <1>4, <1>5 DEF DqWaits, DqOK
  <2>2. \A u \in On(k', PopList) : pc'[u] \in DqPopPc /\ k'.err[u] = "EOK"
    BY <1>1, <1>3, <1>4, <1>5 DEF DqWaits, DqOK, DqPopPc, OnNone
  <2>3. \A u \in On(k', PushList) : pc'[u] \in DqPushPc /\ k'.err[u] = "EOK"
    BY <1>1, <1>3, <1>4, <1>5 DEF DqWaits, DqOK, DqPushPc, OnNone
  <2> QED BY <2>1, <2>2, <2>3 DEF DqWaits
<1>7. WokenPoppers \ {t} \subseteq WokenPoppers' /\ WokenPushers \ {t} \subseteq WokenPushers'
  BY <1>4, <1>5 DEF WokenPoppers, WokenPushers, DqWoken, On
<1> QED BY <1>4, <1>6, <1>7

\* Counting with sets of threads.
LEMMA Heads ==
  ASSUME NEW V \in SUBSET Thread, NEW W \in SUBSET Thread
  PROVE  /\ Cardinality(V) \in Nat /\ Cardinality(W) \in Nat
         /\ V \subseteq W => Cardinality(V) <= Cardinality(W)
         /\ \A t : V \ {t} \subseteq W => Cardinality(V) <= Cardinality(W) + 1
         /\ \A t : V \cup {t} \subseteq W /\ t \notin V => Cardinality(V) + 1 <= Cardinality(W)
<1>1. IsFiniteSet(V) /\ IsFiniteSet(W) /\ Cardinality(V) \in Nat /\ Cardinality(W) \in Nat
  BY IpcAssumption, FS_Subset, FS_CardinalityType
<1>2. V \subseteq W => Cardinality(V) <= Cardinality(W) BY <1>1, FS_Subset
<1>3. ASSUME NEW t, V \ {t} \subseteq W PROVE Cardinality(V) <= Cardinality(W) + 1
  <2>1. /\ IsFiniteSet(V \ {t})
        /\ Cardinality(V \ {t}) = IF t \in V THEN Cardinality(V) - 1 ELSE Cardinality(V)
    BY <1>1, FS_RemoveElement
  <2>2. Cardinality(V \ {t}) <= Cardinality(W) BY <1>1, <1>3, FS_Subset
  <2> QED BY <1>1, <2>1, <2>2
<1>4. ASSUME NEW t, V \cup {t} \subseteq W, t \notin V PROVE Cardinality(V) + 1 <= Cardinality(W)
  <2>1. Cardinality(V \cup {t}) = Cardinality(V) + 1 BY <1>1, <1>4, FS_AddElement
  <2>2. Cardinality(V \cup {t}) <= Cardinality(W) BY <1>1, <1>4, FS_Subset
  <2> QED BY <2>1, <2>2
<1> QED BY <1>1, <1>2, <1>3, <1>4

\* A caller that does not reset the queue, and goes on at l.
LEMMA DqCaller ==
  ASSUME DqOK, NEW t \in Thread, NEW m, Running(t, m), m \notin DqClosePc
  PROVE  /\ Settled(k) /\ k.cur = t /\ pc[t] = m /\ isr = "none"
         /\ \A u \in Thread : pc[u] \notin DqClosePc
         /\ m \notin DqEnters => k.stat[t] = "READY" /\ OnNone(k, t)
         /\ m # "run" => t # Idle
<1>1. k.cur = t /\ pc[t] = m BY DEF Running
<1>2. k.nest = 0 /\ \A u \in Thread : pc[u] \notin DqClosePc BY <1>1 DEF DqOK, DqLocked
<1>3. Runs(DqEnters) BY DEF DqOK
<1> QED BY <1>2, <1>3, Caller DEF Settled

LEMMA DqGoesOn ==
  ASSUME DqOK, NEW t \in Thread \ {Idle}, NEW m, Running(t, m), m \notin DqClosePc,
         NEW l, l \notin DqClosePc, Goto(t, l), isr' = isr, Settled(k'),
         (k'.cur = t /\ (l \in DqEnters \/ k'.stat[t] = "READY")) \/ Serves(k')
  PROVE  /\ Runs(DqEnters)' /\ DqLocked' /\ Resting(k')
         /\ pc'[t] = l /\ \A u \in Thread : u # t => pc'[u] = pc[u]
<1>1. Runs(DqEnters) /\ isr = "none" /\ \A u \in Thread : pc[u] \notin DqClosePc
  BY DqCaller DEF DqOK
<1>2. Resting(k') /\ k'.nest = 0 BY DEF Settled
<1>3. /\ Runs(DqEnters)' /\ pc'[t] = l /\ \A u \in Thread : u # t => pc'[u] = pc[u]
  BY <1>1, <1>2, RunsOn
<1> QED BY <1>1, <1>2, <1>3 DEF DqLocked

\* Nobody is woken in vain, and what there is to take or to fill is the same.
LEMMA DqSameCount ==
  ASSUME DqOK, DqOrder, dq' = dq,
         On(k', PopList) \subseteq On(k, PopList), On(k', PushList) \subseteq On(k, PushList),
         WokenPoppers \subseteq WokenPoppers', WokenPushers \subseteq WokenPushers',
         WokenPoppers' \subseteq Thread, WokenPushers' \subseteq Thread
  PROVE  DqCounted'
<1> DEFINE a == Cardinality(WokenPoppers)
           b == Cardinality(WokenPushers)
           c == Cardinality(WokenPoppers')
           d == Cardinality(WokenPushers')
           n == Count(dq)
<1> SUFFICES ASSUME dq'.wrapped = FALSE PROVE DqCounted' BY DEF DqCounted
<1>0. DqLined BY DqWasLined
<1>1. WokenPoppers \subseteq Thread /\ WokenPushers \subseteq Thread BY DqFacts
<1>2. a \in Nat /\ b \in Nat /\ c \in Nat /\ d \in Nat /\ a <= c /\ b <= d BY <1>1, Heads
<1>3. n \in Nat /\ Count(dq') = n /\ Lwm \in Nat BY <1>0, DqFields, DqAssumption
<1>4. /\ On(k, PopList) # {} => n <= a
      /\ On(k, PushList) # {} => n + b > Lwm
  BY DEF DqOK, DqCounted
<1> HIDE DEF a, b, c, d, n
<1>5. /\ On(k', PopList) # {} => n <= c
      /\ On(k', PushList) # {} => n + d > Lwm
  BY <1>2, <1>3, <1>4
<1> QED BY <1>3, <1>5 DEF DqCounted, c, d

\* rt_data_queue_pop, from its start or after a wait.
LEMMA DqPopBodyWaits ==
  ASSUME DqOK, DqOrder, NEW t \in Thread \ {Idle}, NEW m \in {"run", "pop_back"}, Running(t, m),
         NEW time \in Timeout, PopBody(t, time), isr' = isr
  PROVE  DqOK'
<1> DEFINE a == Cardinality(WokenPoppers)
           b == Cardinality(WokenPushers)
           c == Cardinality(WokenPoppers')
           d == Cardinality(WokenPushers')
           n == Count(dq)
<1>1. m \notin DqClosePc /\ m \notin DqEnters /\ m \notin DqPushPc BY DEF DqClosePc, DqEnters, DqPushPc
<1>2. /\ Settled(k) /\ k.cur = t /\ pc[t] = m /\ isr = "none"
      /\ k.stat[t] = "READY" /\ OnNone(k, t) /\ Resting(k) /\ k.nest = 0
  BY <1>1, DqCaller DEF Settled
<1>3. /\ PopList \in WaitList /\ PushList \in WaitList /\ PopList # PushList
      /\ On(k, PopList) \subseteq Thread /\ On(k, PushList) \subseteq Thread
      /\ WokenPoppers \subseteq Thread /\ WokenPushers \subseteq Thread
      /\ t \notin On(k, PopList) /\ t \notin On(k, PushList)
  BY <1>2, DqFacts, DqAssumption
<1>4. WokenPoppers' \subseteq Thread /\ WokenPushers' \subseteq Thread
  BY DEF WokenPoppers, WokenPushers, DqWoken
<1>5. a \in Nat /\ b \in Nat /\ c \in Nat /\ d \in Nat BY <1>3, <1>4, Heads
<1>0. dq'.wrapped = FALSE => DqLined
  <2>1. dq' = dq \/ dq' = Popped \/ \E y \in Item : dq' = Pushed(y)
    BY DEF PopBody, DqReturn, DqSuspend
  <2> QED BY <2>1, DqWasLined
<1>6. /\ Lwm \in Nat /\ DqSize \in Nat /\ Lwm < DqSize
      /\ dq'.wrapped = FALSE => n \in Nat /\ n <= DqSize
  BY <1>0, DqFields, DqAssumption
<1>7. dq'.wrapped = FALSE =>
        /\ On(k, PopList) # {} => n <= a
        /\ On(k, PushList) # {} => n + b > Lwm
  BY <1>0 DEF DqOK, DqCounted, DqLined
<1>8. t \notin WokenPushers BY <1>1, <1>2 DEF WokenPushers, DqWoken, DqPushPc
<1>9. dqtime \in [Thread -> Timeout] /\ 0 \in Timeout BY BoundAssumption DEF DqOK, Timeout
<1> HIDE DEF a, b, c, d, n
<1>10. CASE ~DqEmpty
  <2> DEFINE M == IF WakesPusher THEN Firsts(k, PushList) ELSE {}
             s == Taken(k)
             l == IF WakesPusher THEN "sched" ELSE "run"
  <2>1. /\ dq' = Popped /\ k' = [s EXCEPT !.err[t] = "EOK"] /\ Goto(t, l) /\ Leave(t)
    BY <1>10 DEF PopBody
  <2>2. dq'.wrapped = FALSE => n > 0 /\ Count(Popped) = n - 1 /\ Count(dq') = n - 1
    BY <1>0, <1>10, <2>1, DqTaken DEF n
  <2>3. /\ M \subseteq On(k, PushList) /\ \E h : M \subseteq {h}
        /\ Resting(s) /\ Same(k, s, M) /\ Kept(k, s) /\ s.err = k.err
        /\ \A u \in M : s.stat[u] = "READY" /\ OnNone(s, u)
        /\ dq'.wrapped = FALSE /\ M = {} => On(k, PushList) = {} \/ n - 1 > Lwm
    <3>1. CASE WakesPusher
      <4>1. M = Firsts(k, PushList) /\ s = ResumeFirst(k, PushList) BY <3>1 DEF Taken
      <4> HIDE DEF M, s
      <4> QED BY <1>2, <1>3, <4>1, FirstRests
    <3>2. CASE ~WakesPusher
      <4>1. M = {} /\ s = k BY <3>2 DEF Taken
      <4>2. dq'.wrapped = FALSE => n - 1 > Lwm \/ On(k, PushList) = {}
        BY <1>2, <1>3, <1>6, <2>2, <3>2, RestingFields DEF WakesPusher
      <4>3. Same(k, k, {}) /\ Kept(k, k) BY DEF Same, Kept
      <4> HIDE DEF M, s
      <4> QED BY <1>2, <4>1, <4>2, <4>3
    <3> QED BY <3>1, <3>2
  <2>4. l \in {"run", "sched"} OBVIOUS
  <2> HIDE DEF M, s, l
  <2>5. t \notin M /\ M \subseteq Thread BY <1>3, <2>3
  <2>6. s.stat[t] = "READY" BY <1>2, <2>3, <2>5 DEF Same
  <2>7. /\ Resting(k') /\ Same(s, k', {t}) /\ Kept(s, k')
        /\ k'.stat[t] = "READY" /\ k'.err[t] = "EOK" /\ OnNone(k', t)
    BY <2>1, <2>3, <2>6, CodeRests
  <2> DEFINE T == M \cup {t}
  <2>8. /\ Same(k, k', T) /\ T \in SUBSET Thread
        /\ \A u \in T : k'.stat[u] = "READY" /\ OnNone(k', u) /\ (u # t => k'.err[u] = k.err[u])
    <3>1. \A u \in M : k'.stat[u] = "READY" /\ OnNone(k', u) /\ k'.err[u] = k.err[u]
      <4> TAKE u \in M
      <4>1. u \in Thread \ {t} BY <2>5
      <4> QED BY <2>3, <2>7, <4>1 DEF Same, OnNone
    <3>2. Same(k, k', T) BY <2>3, <2>7 DEF Same
    <3> QED BY <2>5, <2>7, <3>1, <3>2
  <2>9. l \notin DqClosePc BY <2>4 DEF DqClosePc
  <2>10. k'.cur = t /\ k'.nest = 0 BY <1>2, <2>3, <2>7 DEF Kept
  <2>11. Settled(k') BY <2>7, <2>10 DEF Settled
  <2>12. /\ Runs(DqEnters)' /\ DqLocked'
         /\ pc'[t] = l /\ \A u \in Thread : u # t => pc'[u] = pc[u]
    BY <1>1, <2>1, <2>7, <2>9, <2>10, <2>11, DqGoesOn
  <2>13. /\ DqWaits'
         /\ On(k', PopList) = On(k, PopList) \ T /\ On(k', PushList) = On(k, PushList) \ T
         /\ WokenPoppers \ T \subseteq WokenPoppers' /\ WokenPushers \ T \subseteq WokenPushers'
         /\ \A u \in T : k'.err[u] = "EOK" => (pc'[u] \in DqPushPc => u \in WokenPushers')
    <3>1. \A u \in Thread \ T : /\ pc'[u] \in DqPopPc <=> pc[u] \in DqPopPc
                                /\ pc'[u] \in DqPushPc <=> pc[u] \in DqPushPc
      BY <2>12
    <3> HIDE DEF T
    <3> QED BY <2>7, <2>8, <3>1, DqReady
  <2>14. \A u \in M : u \in WokenPushers' /\ u \notin WokenPoppers /\ u \notin WokenPushers
    <3> TAKE u \in M
    <3>1. u \in On(k, PushList) /\ u # t /\ u \in Thread BY <2>3, <2>5
    <3>2. pc[u] \in DqPushPc /\ k.err[u] = "EOK" BY <3>1 DEF DqOK, DqWaits
    <3>3. k'.err[u] = "EOK" /\ pc'[u] \in DqPushPc /\ u \in T BY <2>8, <2>12, <3>1, <3>2
    <3>4. u \in WokenPushers' BY <2>13, <3>3
    <3>5. u \notin WokenPushers BY <3>1 DEF WokenPushers, DqWoken, On
    <3>6. u \notin WokenPoppers BY <3>2 DEF WokenPoppers, DqWoken, DqPushPc
    <3> QED BY <3>4, <3>5, <3>6
  <2>15. WokenPoppers \ {t} \subseteq WokenPoppers' BY <2>13, <2>14
  <2>16. a <= c + 1 BY <1>3, <1>4, <2>15, Heads DEF a, c
  <2>17. WokenPushers \subseteq WokenPushers' BY <1>8, <2>13, <2>14
  <2>18. b <= d /\ (M # {} => b + 1 <= d)
    <3>1. b <= d BY <1>3, <1>4, <2>17, Heads DEF b, d
    <3>2. ASSUME NEW h \in M PROVE b + 1 <= d
      <4>1. WokenPushers \cup {h} \subseteq WokenPushers' /\ h \notin WokenPushers BY <2>14, <2>17
      <4> QED BY <1>3, <1>4, <4>1, Heads DEF b, d
    <3> QED BY <3>1, <3>2
  <2>19. dq'.wrapped = FALSE /\ On(k', PopList) # {} => n - 1 <= c
    BY <1>5, <1>6, <1>7, <2>13, <2>16
  <2>20. dq'.wrapped = FALSE /\ On(k', PushList) # {} => (n - 1) + d > Lwm
    BY <1>5, <1>6, <1>7, <2>2, <2>3, <2>13, <2>18
  <2>21. DqCounted' BY <2>2, <2>19, <2>20 DEF DqCounted, c, d
  <2>22. dqtime' \in [Thread -> Timeout] BY <1>9, <2>1 DEF Leave
  <2> QED BY <2>12, <2>13, <2>21, <2>22 DEF DqOK
<1>11. CASE DqEmpty /\ time = 0
  <2>1. /\ dq' = dq /\ k' = [k EXCEPT !.err[t] = "EOK"] /\ Goto(t, "run") /\ Leave(t)
    BY <1>11 DEF PopBody, DqReturn, Return
  <2>2. /\ Resting(k') /\ Same(k, k', {t}) /\ Kept(k, k')
        /\ k'.stat[t] = "READY" /\ OnNone(k', t)
    BY <1>2, <2>1, CodeRests
  <2>3. Settled(k') /\ k'.cur = t BY <1>2, <2>2 DEF Settled, Kept
  <2>4. /\ Runs(DqEnters)' /\ DqLocked'
        /\ pc'[t] = "run" /\ \A u \in Thread : u # t => pc'[u] = pc[u]
    <3>1. "run" \notin DqClosePc BY DEF DqClosePc
    <3> QED BY <1>1, <2>1, <2>2, <2>3, <3>1, DqGoesOn
  <2>5. /\ DqWaits'
        /\ On(k', PopList) = On(k, PopList) \ {t} /\ On(k', PushList) = On(k, PushList) \ {t}
        /\ WokenPushers \ {t} \subseteq WokenPushers'
    BY <2>2, <2>4, DqReady
  <2>6. dq'.wrapped = FALSE => n = 0 BY <1>0, <1>11, DqFields DEF DqEmpty, n
  <2>7. WokenPushers \subseteq WokenPushers' BY <1>8, <2>5
  <2>8. b <= d BY <1>3, <1>4, <2>7, Heads DEF b, d
  <2>9. Count(dq') = n BY <2>1 DEF n
  <2>10. dq'.wrapped = FALSE => n <= c /\ (On(k', PushList) # {} => n + d > Lwm)
    BY <1>5, <1>6, <1>7, <2>5, <2>6, <2>8
  <2>11. DqCounted' BY <2>9, <2>10 DEF DqCounted, c, d
  <2>12. dqtime' \in [Thread -> Timeout] BY <1>9, <2>1 DEF Leave
  <2> QED BY <2>4, <2>5, <2>11, <2>12 DEF DqOK
<1>12. CASE DqEmpty /\ time # 0
  <2>1. /\ dq' = dq /\ k' = BlockOn(k, PopList, t, "FIFO", time) /\ Goto(t, "pop_sched")
        /\ dqtime' = [dqtime EXCEPT ![t] = time]
    BY <1>12 DEF PopBody, DqSuspend
  <2>2. /\ Settled(k') /\ Same(k, k', {t}) /\ k'.cur = k.cur
        /\ k'.stat[t] = "SUSPEND" /\ k'.err[t] = "EOK" /\ OnlyOn(k', t, PopList)
    <3> DEFINE r == BlockOn(k, PopList, t, "FIFO", time)
    <3>1. Settled(k) /\ k.stat[t] = "READY" /\ PopList \in WaitList BY <1>2, <1>3
    <3>2. /\ Settled(r) /\ Same(k, r, {t}) /\ r.cur = k.cur
          /\ r.stat[t] = "SUSPEND" /\ r.err[t] = "EOK" /\ OnlyOn(r, t, PopList)
      BY <3>1, BlockOK
    <3>3. k' = r BY <2>1
    <3> HIDE DEF r
    <3> QED BY <3>2, <3>3
  <2>3. Runs(DqEnters)' /\ DqLocked' /\ Resting(k')
        /\ pc'[t] = "pop_sched" /\ \A u \in Thread : u # t => pc'[u] = pc[u]
    <3>1. "pop_sched" \notin DqClosePc /\ "pop_sched" \in DqEnters BY DEF DqClosePc, DqEnters
    <3> QED BY <1>1, <1>2, <2>1, <2>2, <3>1, DqGoesOn
  <2>4. /\ DqWaits' /\ On(k', PushList) = On(k, PushList)
        /\ WokenPushers \ {t} \subseteq WokenPushers'
    BY <1>2, <1>3, <2>2, <2>3, DqSleeps
  <2>5. dq'.wrapped = FALSE => n = 0 BY <1>0, <1>12, DqFields DEF DqEmpty, n
  <2>6. WokenPushers \subseteq WokenPushers' BY <1>8, <2>4
  <2>7. b <= d BY <1>3, <1>4, <2>6, Heads DEF b, d
  <2>8. Count(dq') = n BY <2>1 DEF n
  <2>9. dq'.wrapped = FALSE => n <= c /\ (On(k', PushList) # {} => n + d > Lwm)
    BY <1>5, <1>6, <1>7, <2>4, <2>5, <2>7
  <2>10. DqCounted' BY <2>8, <2>9 DEF DqCounted, c, d
  <2>11. dqtime' \in [Thread -> Timeout] BY <1>9, <2>1
  <2> QED BY <2>3, <2>4, <2>10, <2>11 DEF DqOK
<1> QED BY <1>10, <1>11, <1>12

\* rt_data_queue_push, from its start or after a wait.
LEMMA DqPushBodyWaits ==
  ASSUME DqOK, DqOrder, NEW t \in Thread \ {Idle}, NEW m \in {"run", "push_back"}, Running(t, m),
         NEW x \in Item, NEW time \in Timeout, PushBody(t, x, time), isr' = isr
  PROVE  DqOK'
<1> DEFINE a == Cardinality(WokenPoppers)
           b == Cardinality(WokenPushers)
           c == Cardinality(WokenPoppers')
           d == Cardinality(WokenPushers')
           n == Count(dq)
<1>1. m \notin DqClosePc /\ m \notin DqEnters /\ m \notin DqPopPc BY DEF DqClosePc, DqEnters, DqPopPc
<1>2. /\ Settled(k) /\ k.cur = t /\ pc[t] = m /\ isr = "none"
      /\ k.stat[t] = "READY" /\ OnNone(k, t) /\ Resting(k) /\ k.nest = 0
  BY <1>1, DqCaller DEF Settled
<1>3. /\ PopList \in WaitList /\ PushList \in WaitList /\ PopList # PushList
      /\ On(k, PopList) \subseteq Thread /\ On(k, PushList) \subseteq Thread
      /\ WokenPoppers \subseteq Thread /\ WokenPushers \subseteq Thread
      /\ t \notin On(k, PopList) /\ t \notin On(k, PushList)
  BY <1>2, DqFacts, DqAssumption
<1>4. WokenPoppers' \subseteq Thread /\ WokenPushers' \subseteq Thread
  BY DEF WokenPoppers, WokenPushers, DqWoken
<1>5. a \in Nat /\ b \in Nat /\ c \in Nat /\ d \in Nat BY <1>3, <1>4, Heads
<1>0. dq'.wrapped = FALSE => DqLined
  <2>1. dq' = dq \/ dq' = Popped \/ \E y \in Item : dq' = Pushed(y)
    BY DEF PushBody, DqReturn, DqSuspend
  <2> QED BY <2>1, DqWasLined
<1>6. /\ Lwm \in Nat /\ DqSize \in Nat /\ Lwm < DqSize
      /\ dq'.wrapped = FALSE => n \in Nat /\ n <= DqSize
  BY <1>0, DqFields, DqAssumption
<1>7. dq'.wrapped = FALSE =>
        /\ On(k, PopList) # {} => n <= a
        /\ On(k, PushList) # {} => n + b > Lwm
  BY <1>0 DEF DqOK, DqCounted, DqLined
<1>8. t \notin WokenPoppers BY <1>1, <1>2 DEF WokenPoppers, DqWoken, DqPopPc
<1>9. dqtime \in [Thread -> Timeout] /\ 0 \in Timeout BY BoundAssumption DEF DqOK, Timeout
<1> HIDE DEF a, b, c, d, n
<1>10. CASE ~DqFull
  <2> DEFINE M == Firsts(k, PopList)
             s == ResumeFirst(k, PopList)
             l == IF k.list[PopList] # <<>> THEN "sched" ELSE "run"
             T == M \cup {t}
  <2>1. /\ dq' = Pushed(x) /\ k' = [s EXCEPT !.err[t] = "EOK"] /\ Goto(t, l) /\ Leave(t)
    BY <1>10 DEF PushBody
  <2>2. dq'.wrapped = FALSE => Count(dq') = n + 1 BY <1>0, <1>10, <2>1, DqPushed DEF n
  <2>3. /\ M \subseteq On(k, PopList) /\ (M = {} <=> On(k, PopList) = {})
        /\ Resting(s) /\ Same(k, s, M) /\ Kept(k, s) /\ s.err = k.err
        /\ \A u \in M : s.stat[u] = "READY" /\ OnNone(s, u)
    BY <1>2, <1>3, FirstRests
  <2>4. l \in {"run", "sched"} OBVIOUS
  <2> HIDE DEF M, s, l
  <2>5. t \notin M /\ M \subseteq Thread BY <1>3, <2>3
  <2>6. s.stat[t] = "READY" BY <1>2, <2>3, <2>5 DEF Same
  <2>7. /\ Resting(k') /\ Same(s, k', {t}) /\ Kept(s, k')
        /\ k'.stat[t] = "READY" /\ k'.err[t] = "EOK" /\ OnNone(k', t)
    BY <2>1, <2>3, <2>6, CodeRests
  <2>8. /\ Same(k, k', T) /\ T \in SUBSET Thread
        /\ \A u \in T : k'.stat[u] = "READY" /\ OnNone(k', u) /\ (u # t => k'.err[u] = k.err[u])
    <3>1. \A u \in M : k'.stat[u] = "READY" /\ OnNone(k', u) /\ k'.err[u] = k.err[u]
      <4> TAKE u \in M
      <4>1. u \in Thread \ {t} BY <2>5
      <4> QED BY <2>3, <2>7, <4>1 DEF Same, OnNone
    <3>2. Same(k, k', T) BY <2>3, <2>7 DEF Same
    <3> QED BY <2>5, <2>7, <3>1, <3>2
  <2>9. l \notin DqClosePc BY <2>4 DEF DqClosePc
  <2>10. k'.cur = t /\ k'.nest = 0 BY <1>2, <2>3, <2>7 DEF Kept
  <2>11. Settled(k') BY <2>7, <2>10 DEF Settled
  <2>12. /\ Runs(DqEnters)' /\ DqLocked'
         /\ pc'[t] = l /\ \A u \in Thread : u # t => pc'[u] = pc[u]
    BY <1>1, <2>1, <2>7, <2>9, <2>10, <2>11, DqGoesOn
  <2>13. /\ DqWaits'
         /\ On(k', PopList) = On(k, PopList) \ T /\ On(k', PushList) = On(k, PushList) \ T
         /\ WokenPoppers \ T \subseteq WokenPoppers' /\ WokenPushers \ T \subseteq WokenPushers'
         /\ \A u \in T : k'.err[u] = "EOK" => (pc'[u] \in DqPopPc => u \in WokenPoppers')
    <3>1. \A u \in Thread \ T : /\ pc'[u] \in DqPopPc <=> pc[u] \in DqPopPc
                                /\ pc'[u] \in DqPushPc <=> pc[u] \in DqPushPc
      BY <2>12
    <3> HIDE DEF T
    <3> QED BY <2>7, <2>8, <3>1, DqReady
  <2>14. \A u \in M : u \in WokenPoppers' /\ u \notin WokenPoppers /\ u \notin WokenPushers
    <3> TAKE u \in M
    <3>1. u \in On(k, PopList) /\ u # t /\ u \in Thread BY <2>3, <2>5
    <3>2. pc[u] \in DqPopPc /\ k.err[u] = "EOK" BY <3>1 DEF DqOK, DqWaits
    <3>3. k'.err[u] = "EOK" /\ pc'[u] \in DqPopPc /\ u \in T BY <2>8, <2>12, <3>1, <3>2
    <3>4. u \in WokenPoppers' BY <2>13, <3>3
    <3>5. u \notin WokenPoppers BY <3>1 DEF WokenPoppers, DqWoken, On
    <3>6. u \notin WokenPushers BY <3>2 DEF WokenPushers, DqWoken, DqPopPc
    <3> QED BY <3>4, <3>5, <3>6
  <2>15. WokenPushers \ {t} \subseteq WokenPushers' BY <2>13, <2>14
  <2>16. b <= d + 1 BY <1>3, <1>4, <2>15, Heads DEF b, d
  <2>17. WokenPoppers \subseteq WokenPoppers' BY <1>8, <2>13, <2>14
  <2>18. \A h \in M : a + 1 <= c
    <3> TAKE h \in M
    <3>1. WokenPoppers \cup {h} \subseteq WokenPoppers' /\ h \notin WokenPoppers BY <2>14, <2>17
    <3> QED BY <1>3, <1>4, <3>1, Heads DEF a, c
  <2>19. dq'.wrapped = FALSE /\ On(k', PopList) # {} => n + 1 <= c
    BY <1>5, <1>6, <1>7, <2>3, <2>13, <2>18
  <2>20. dq'.wrapped = FALSE /\ On(k', PushList) # {} => (n + 1) + d > Lwm
    BY <1>5, <1>6, <1>7, <2>13, <2>16
  <2>21. DqCounted' BY <2>2, <2>19, <2>20 DEF DqCounted, c, d
  <2>22. dqtime' \in [Thread -> Timeout] BY <1>9, <2>1 DEF Leave
  <2> QED BY <2>12, <2>13, <2>21, <2>22 DEF DqOK
<1>11. CASE DqFull /\ time = 0
  <2>1. /\ dq' = dq /\ k' = [k EXCEPT !.err[t] = "EOK"] /\ Goto(t, "run") /\ Leave(t)
    BY <1>11 DEF PushBody, DqReturn, Return
  <2>2. /\ Resting(k') /\ Same(k, k', {t}) /\ Kept(k, k')
        /\ k'.stat[t] = "READY" /\ OnNone(k', t)
    BY <1>2, <2>1, CodeRests
  <2>3. Settled(k') /\ k'.cur = t BY <1>2, <2>2 DEF Settled, Kept
  <2>4. /\ Runs(DqEnters)' /\ DqLocked'
        /\ pc'[t] = "run" /\ \A u \in Thread : u # t => pc'[u] = pc[u]
    <3>1. "run" \notin DqClosePc BY DEF DqClosePc
    <3> QED BY <1>1, <2>1, <2>2, <2>3, <3>1, DqGoesOn
  <2>5. /\ DqWaits'
        /\ On(k', PopList) = On(k, PopList) \ {t} /\ On(k', PushList) = On(k, PushList) \ {t}
        /\ WokenPoppers \ {t} \subseteq WokenPoppers'
    BY <2>2, <2>4, DqReady
  <2>6. n = DqSize BY <1>11 DEF DqFull, n
  <2>7. WokenPoppers \subseteq WokenPoppers' BY <1>8, <2>5
  <2>8. a <= c BY <1>3, <1>4, <2>7, Heads DEF a, c
  <2>9. Count(dq') = n BY <2>1 DEF n
  <2>10. dq'.wrapped = FALSE => (On(k', PopList) # {} => n <= c) /\ n + d > Lwm
    BY <1>5, <1>6, <1>7, <2>5, <2>6, <2>8
  <2>11. DqCounted' BY <2>9, <2>10 DEF DqCounted, c, d
  <2>12. dqtime' \in [Thread -> Timeout] BY <1>9, <2>1 DEF Leave
  <2> QED BY <2>4, <2>5, <2>11, <2>12 DEF DqOK
<1>12. CASE DqFull /\ time # 0
  <2>1. /\ dq' = dq /\ k' = BlockOn(k, PushList, t, "FIFO", time) /\ Goto(t, "push_sched")
        /\ dqtime' = [dqtime EXCEPT ![t] = time]
    BY <1>12 DEF PushBody, DqSuspend
  <2>2. /\ Settled(k') /\ Same(k, k', {t}) /\ k'.cur = k.cur
        /\ k'.stat[t] = "SUSPEND" /\ k'.err[t] = "EOK" /\ OnlyOn(k', t, PushList)
    <3> DEFINE r == BlockOn(k, PushList, t, "FIFO", time)
    <3>1. Settled(k) /\ k.stat[t] = "READY" /\ PushList \in WaitList BY <1>2, <1>3
    <3>2. /\ Settled(r) /\ Same(k, r, {t}) /\ r.cur = k.cur
          /\ r.stat[t] = "SUSPEND" /\ r.err[t] = "EOK" /\ OnlyOn(r, t, PushList)
      BY <3>1, BlockOK
    <3>3. k' = r BY <2>1
    <3> HIDE DEF r
    <3> QED BY <3>2, <3>3
  <2>3. Runs(DqEnters)' /\ DqLocked' /\ Resting(k')
        /\ pc'[t] = "push_sched" /\ \A u \in Thread : u # t => pc'[u] = pc[u]
    <3>1. "push_sched" \notin DqClosePc /\ "push_sched" \in DqEnters BY DEF DqClosePc, DqEnters
    <3> QED BY <1>1, <1>2, <2>1, <2>2, <3>1, DqGoesOn
  <2>4. /\ DqWaits' /\ On(k', PopList) = On(k, PopList)
        /\ WokenPoppers \ {t} \subseteq WokenPoppers'
    BY <1>2, <1>3, <2>2, <2>3, DqSleeps
  <2>5. n = DqSize BY <1>12 DEF DqFull, n
  <2>6. WokenPoppers \subseteq WokenPoppers' BY <1>8, <2>4
  <2>7. a <= c BY <1>3, <1>4, <2>6, Heads DEF a, c
  <2>8. Count(dq') = n BY <2>1 DEF n
  <2>9. dq'.wrapped = FALSE => (On(k', PopList) # {} => n <= c) /\ n + d > Lwm
    BY <1>5, <1>6, <1>7, <2>4, <2>5, <2>7
  <2>10. DqCounted' BY <2>8, <2>9 DEF DqCounted, c, d
  <2>11. dqtime' \in [Thread -> Timeout] BY <1>9, <2>1
  <2> QED BY <2>3, <2>4, <2>10, <2>11 DEF DqOK
<1> QED BY <1>10, <1>11, <1>12

\* A step that neither puts nor takes: the threads of T, of whom none was woken
\* for an item or a place, are ready.
LEMMA DqIdleStep ==
  ASSUME DqOK, DqOrder, dq' = dq, Runs(DqEnters)', DqLocked', Resting(k'),
         dqtime' \in [Thread -> Timeout],
         NEW T \in SUBSET Thread, Same(k, k', T),
         \A u \in T : /\ k'.stat[u] = "READY" /\ OnNone(k', u)
                      /\ u \notin WokenPoppers /\ u \notin WokenPushers,
         \A u \in Thread \ T : /\ pc'[u] \in DqPopPc <=> pc[u] \in DqPopPc
                               /\ pc'[u] \in DqPushPc <=> pc[u] \in DqPushPc
  PROVE  DqOK'
<1>1. /\ DqWaits'
      /\ On(k', PopList) = On(k, PopList) \ T /\ On(k', PushList) = On(k, PushList) \ T
      /\ WokenPoppers \ T \subseteq WokenPoppers' /\ WokenPushers \ T \subseteq WokenPushers'
  BY DqReady
<1>2. WokenPoppers' \subseteq Thread /\ WokenPushers' \subseteq Thread
  BY DEF WokenPoppers, WokenPushers, DqWoken
<1>3. WokenPoppers \subseteq WokenPoppers' /\ WokenPushers \subseteq WokenPushers' BY <1>1
<1>4. On(k', PopList) \subseteq On(k, PopList) /\ On(k', PushList) \subseteq On(k, PushList) BY <1>1
<1>5. DqCounted' BY <1>2, <1>3, <1>4, DqSameCount
<1> QED BY <1>1, <1>5 DEF DqOK

\* Nobody who still waits, or has failed, was woken for an item or a place.
LEMMA DqNotWoken ==
  ASSUME DqOK, NEW u \in Thread
  PROVE  /\ k.stat[u] = "SUSPEND" => u \notin WokenPoppers /\ u \notin WokenPushers
         /\ k.err[u] # "EOK" => u \notin WokenPoppers /\ u \notin WokenPushers
<1>1. u \in On(k, PopList) => u \notin WokenPoppers /\ u \notin WokenPushers
  BY DEF DqOK, DqWaits, WokenPoppers, WokenPushers, DqWoken, On, DqPopPc
<1>2. u \in On(k, PushList) => u \notin WokenPoppers /\ u \notin WokenPushers
  BY DEF DqOK, DqWaits, WokenPoppers, WokenPushers, DqWoken, On, DqPushPc
<1>3. k.err[u] # "EOK" => u \notin WokenPoppers /\ u \notin WokenPushers
  BY DEF WokenPoppers, WokenPushers, DqWoken
<1> QED BY <1>1, <1>2, <1>3 DEF DqOK, DqWaits

\* A wait that has failed.
LEMMA DqFails ==
  ASSUME DqOK, DqOrder, NEW t \in Thread \ {Idle}, NEW m \in {"push_back", "pop_back"}, Running(t, m),
         k.err[t] # "EOK", DqReturn(t), dq' = dq, isr' = isr
  PROVE  DqOK'
<1>1. m \notin DqClosePc /\ m \notin DqEnters /\ "run" \notin DqClosePc BY DEF DqClosePc, DqEnters
<1>2. /\ Settled(k) /\ k.cur = t /\ k.stat[t] = "READY" /\ Resting(k) /\ k.nest = 0
  BY <1>1, DqCaller DEF Settled
<1>3. /\ k' = [k EXCEPT !.err[t] = "EOK"] /\ Goto(t, "run") /\ Leave(t) BY DEF DqReturn, Return
<1>4. /\ Resting(k') /\ Same(k, k', {t}) /\ Kept(k, k')
      /\ k'.stat[t] = "READY" /\ OnNone(k', t)
  BY <1>2, <1>3, CodeRests
<1>5. Settled(k') /\ k'.cur = t BY <1>2, <1>4 DEF Settled, Kept
<1>6. /\ Runs(DqEnters)' /\ DqLocked'
      /\ pc'[t] = "run" /\ \A u \in Thread : u # t => pc'[u] = pc[u]
  BY <1>1, <1>3, <1>4, <1>5, DqGoesOn
<1>7. dqtime' \in [Thread -> Timeout] BY <1>3, BoundAssumption DEF Leave, DqOK, Timeout
<1>8. t \notin WokenPoppers /\ t \notin WokenPushers BY DqNotWoken
<1> QED BY <1>4, <1>6, <1>7, <1>8, DqIdleStep

\* rt_schedule, on the way into a wait or after a wake-up.
LEMMA DqSwitches ==
  ASSUME DqOK, DqOrder, NEW t \in Thread, NEW l, NEW m, ScheduleStep(t, l, m),
         dq' = dq, dqtime' = dqtime,
         <<l, m>> \in {<<"push_sched", "push_back">>, <<"pop_sched", "pop_back">>, <<"sched", "run">>}
  PROVE  DqOK'
<1>1. Running(t, l) /\ l \notin DqClosePc /\ m \notin DqClosePc /\ l # "run"
  BY DEF ScheduleStep, DqClosePc
<1>2. Runs(DqEnters) /\ k.nest = 0 /\ pc[t] = l /\ \A u \in Thread : pc[u] \notin DqClosePc
  BY <1>1, DqCaller DEF DqOK, Settled
<1>3. /\ Runs(DqEnters)' /\ Same(k, k', {}) /\ Chosen(k, k')
      /\ pc'[t] = m /\ \A u \in Thread : u # t => pc'[u] = pc[u]
  BY <1>1, <1>2, RunsSchedule
<1>4. k'.nest = 0 /\ Resting(k') /\ DqLocked' BY <1>1, <1>2, <1>3 DEF Chosen, Runs, DqLocked
<1>5. dqtime' \in [Thread -> Timeout] BY DEF DqOK
<1>6. \A u \in Thread : /\ pc'[u] \in DqPopPc <=> pc[u] \in DqPopPc
                        /\ pc'[u] \in DqPushPc <=> pc[u] \in DqPushPc
  BY <1>2, <1>3 DEF DqPopPc, DqPushPc
<1> QED BY <1>3, <1>4, <1>5, <1>6, DqIdleStep

\* rt_data_queue_reset.
LEMMA DqResets ==
  ASSUME DqOK, DqOrder, NEW t \in Thread, DqReset(t) \/ DqResetResume(t) \/ DqResetEnd(t)
  PROVE  DqOK'
<1>1. dq' = dq /\ dqtime' = dqtime /\ dqtime' \in [Thread -> Timeout] /\ isr' = isr
  BY DEF DqReset, DqResetResume, DqResetEnd, DqOK
<1>2. Runs(DqEnters) /\ Resting(k) /\ PopList \in WaitList /\ PushList \in WaitList BY DqFacts
<1>3. Same(k, k, {}) BY DEF Same
<1>4. CASE DqReset(t)
  <2>1. Calls(t, "dq_reset") /\ k' = rt_enter_critical(k) /\ Goto(t, "close_pop")
    BY <1>4 DEF DqReset
  <2>2. Running(t, "run") /\ t # Idle /\ k.stat[t] = "READY" BY <1>2, <2>1, CallerOf
  <2>3. /\ k.nest = 0 /\ k.cur = t /\ pc[t] = "run" /\ isr = "none"
        /\ \A u \in Thread : pc[u] \notin DqClosePc
    <3>1. "run" \notin DqClosePc BY DEF DqClosePc
    <3> QED BY <2>2, <3>1, DqCaller DEF Settled
  <2>4. Resting(k') /\ Same(k, k', {}) /\ k'.cur = t /\ k'.nest = 1
    BY <1>2, <2>1, <2>3, EnterRests
  <2>5. k'.stat[t] = "READY" BY <2>2, <2>4 DEF Same
  <2>6. t \in Thread \ {Idle} BY <2>2
  <2>7. Runs(DqEnters)' /\ pc'[t] = "close_pop" /\ \A u \in Thread : u # t => pc'[u] = pc[u]
    BY <1>1, <1>2, <2>1, <2>3, <2>4, <2>5, <2>6, RunsOn
  <2>8. DqLocked' BY <2>3, <2>4, <2>7 DEF DqLocked, DqClosePc
  <2>9. \A u \in Thread : /\ pc'[u] \in DqPopPc <=> pc[u] \in DqPopPc
                          /\ pc'[u] \in DqPushPc <=> pc[u] \in DqPushPc
    BY <2>3, <2>7 DEF DqPopPc, DqPushPc
  <2> QED BY <1>1, <2>4, <2>7, <2>8, <2>9, DqIdleStep
<1>5. CASE DqResetResume(t)
  <2>1. PICK w \in {PopList, PushList}, l \in DqClosePc, m \in DqClosePc :
          /\ Running(t, l) /\ Goto(t, m)
          /\ k' = k \/ (k.list[w] # <<>> /\ k' = ResumeWithError(k, w))
    BY <1>5 DEF DqResetResume, CloseList, DqClosePc
  <2>2. l \notin DqEnters /\ l # "run" BY DEF DqClosePc, DqEnters
  <2>3. k.cur = t /\ pc[t] = l /\ isr = "none" /\ k.stat[t] = "READY" /\ OnNone(k, t) /\ t # Idle
    BY <1>2, <2>1, <2>2, Caller
  <2>4. k.nest = 1 /\ \A u \in Thread \ {t} : pc[u] \notin DqClosePc
    BY <2>1, <2>3 DEF DqOK, DqLocked
  <2>5. PICK T \in SUBSET Thread :
          /\ Resting(k') /\ Same(k, k', T) /\ Kept(k, k')
          /\ \A u \in T : k.stat[u] = "SUSPEND" /\ k'.stat[u] = "READY" /\ OnNone(k', u)
    <3>1. CASE k' = k
      <4>1. Kept(k, k) BY DEF Kept
      <4> QED BY <1>2, <1>3, <3>1, <4>1
    <3>2. CASE k.list[w] # <<>> /\ k' = ResumeWithError(k, w)
      <4> DEFINE h == Head(k.list[w])
      <4>1. /\ h \in Thread /\ k.stat[h] = "SUSPEND"
            /\ Resting(k') /\ Same(k, k', {h}) /\ Kept(k, k')
            /\ k'.stat[h] = "READY" /\ OnNone(k', h)
        <5>1. w \in WaitList BY <1>2
        <5> QED BY <1>2, <3>2, <5>1, ErrorRests
      <4> HIDE DEF h
      <4>2. {h} \in SUBSET Thread BY <4>1
      <4> QED BY <4>1, <4>2
    <3> QED BY <2>1, <3>1, <3>2
  <2>6. t \notin T /\ t \in Thread \ {Idle} BY <2>3, <2>5
  <2>7. k'.cur = t /\ k'.nest = 1 /\ k'.stat[t] = "READY" BY <2>3, <2>4, <2>5, <2>6 DEF Kept, Same
  <2>8. Runs(DqEnters)' /\ pc'[t] = m /\ \A u \in Thread : u # t => pc'[u] = pc[u]
    BY <1>1, <1>2, <2>1, <2>3, <2>5, <2>6, <2>7, RunsOn
  <2>9. DqLocked' BY <2>1, <2>4, <2>7, <2>8 DEF DqLocked
  <2>10. \A u \in Thread : /\ pc'[u] \in DqPopPc <=> pc[u] \in DqPopPc
                           /\ pc'[u] \in DqPushPc <=> pc[u] \in DqPushPc
    BY <2>1, <2>3, <2>8 DEF DqPopPc, DqPushPc, DqClosePc
  <2>11. \A u \in T : u \notin WokenPoppers /\ u \notin WokenPushers BY <2>5, DqNotWoken
  <2> QED BY <1>1, <2>5, <2>8, <2>9, <2>10, <2>11, DqIdleStep
<1>6. CASE DqResetEnd(t)
  <2>1. Running(t, "dq_exit") /\ k' = rt_schedule(rt_exit_critical(k)) /\ Goto(t, "sched")
    BY <1>6 DEF DqResetEnd
  <2>2. "dq_exit" \notin DqEnters /\ "dq_exit" \in DqClosePc BY DEF DqClosePc, DqEnters
  <2>3. k.cur = t /\ pc[t] = "dq_exit" /\ isr = "none" /\ t \in Thread \ {Idle}
    BY <1>2, <2>1, <2>2, Caller
  <2>4. k.nest = 1 /\ \A u \in Thread \ {t} : pc[u] \notin DqClosePc
    BY <2>2, <2>3 DEF DqOK, DqLocked
  <2>5. Resting(k') /\ Same(k, k', {}) /\ Serves(k') /\ k'.nest = 0
    BY <1>2, <2>1, <2>4, ExitRests
  <2>6. Runs(DqEnters)' /\ pc'[t] = "sched" /\ \A u \in Thread : u # t => pc'[u] = pc[u]
    BY <1>1, <1>2, <2>1, <2>3, <2>5, RunsOn
  <2>7. DqLocked' BY <2>4, <2>5, <2>6 DEF DqLocked, DqClosePc
  <2>8. \A u \in Thread : /\ pc'[u] \in DqPopPc <=> pc[u] \in DqPopPc
                          /\ pc'[u] \in DqPushPc <=> pc[u] \in DqPushPc
    BY <2>3, <2>6 DEF DqPopPc, DqPushPc
  <2> QED BY <1>1, <2>5, <2>6, <2>7, <2>8, DqIdleStep
<1> QED BY <1>4, <1>5, <1>6

\* The lock is kept while somebody else is given the processor.
LEMMA DqStaysLocked ==
  ASSUME DqOK, pc' = pc, Kept(k, k') \/ Chosen(k, k')
  PROVE  DqLocked'
<1>1. CASE k.nest = 0 /\ \A t \in Thread : pc[t] \notin DqClosePc
  <2>1. k'.nest = 0 BY <1>1 DEF Kept, Chosen
  <2> QED BY <1>1, <2>1 DEF DqLocked
<1>2. CASE k.nest = 1 /\ pc[k.cur] \in DqClosePc /\ \A t \in Thread \ {k.cur} : pc[t] \notin DqClosePc
  <2>1. k'.nest = 1 /\ k'.cur = k.cur BY <1>2 DEF Kept, Chosen
  <2> QED BY <1>2, <2>1 DEF DqLocked
<1> QED BY <1>1, <1>2 DEF DqOK, DqLocked

\* An interrupt handler puts an item in or takes one out.
LEMMA DqHandler ==
  ASSUME DqOK, DqOrder, isr = "none", UNCHANGED <<isr, pc, dqtime>>,
         NEW M \in SUBSET Thread, Resting(k'), Same(k, k', M), Kept(k, k') \/ Chosen(k, k'),
         \A u \in M : k'.stat[u] = "READY" /\ OnNone(k', u)
  PROVE  /\ Runs(DqEnters)' /\ DqLocked' /\ DqWaits' /\ dqtime' \in [Thread -> Timeout]
         /\ On(k', PopList) = On(k, PopList) \ M /\ On(k', PushList) = On(k, PushList) \ M
         /\ WokenPoppers \ M \subseteq WokenPoppers' /\ WokenPushers \ M \subseteq WokenPushers'
         /\ \A u \in M : k'.err[u] = "EOK" => /\ pc[u] \in DqPopPc => u \in WokenPoppers'
                                              /\ pc[u] \in DqPushPc => u \in WokenPushers'
         /\ WokenPoppers' \subseteq Thread /\ WokenPushers' \subseteq Thread
<1>1. Runs(DqEnters) BY DEF DqOK
<1>2. (k'.cur = k.cur /\ k'.stat[k.cur] = k.stat[k.cur]) \/ (k'.cur = k.cur /\ k.cur \in M) \/ Serves(k')
  <2>1. CASE k'.cur = k.cur BY <1>1, <2>1 DEF Same, Runs
  <2>2. CASE k'.cur # k.cur BY <2>2 DEF Kept, Chosen, Serves
  <2> QED BY <2>1, <2>2
<1>3. Runs(DqEnters)'
  <2>1. CASE k'.cur = k.cur /\ k.cur \in M
    <3>1. Serves(k') BY <1>1, <2>1 DEF Serves, Runs
    <3> QED BY <1>1, <3>1, RunsStay
  <2> QED BY <1>1, <1>2, <2>1, RunsStay
<1>4. DqLocked' BY DqStaysLocked
<1>5. dqtime' \in [Thread -> Timeout] BY DEF DqOK
<1>6. WokenPoppers' \subseteq Thread /\ WokenPushers' \subseteq Thread
  BY DEF WokenPoppers, WokenPushers, DqWoken
<1> QED BY <1>3, <1>4, <1>5, <1>6, DqReady

LEMMA DqHandlers ==
  ASSUME DqOK, DqOrder, DqInterrupt
  PROVE  DqOK'
<1> DEFINE a == Cardinality(WokenPoppers)
           b == Cardinality(WokenPushers)
           c == Cardinality(WokenPoppers')
           d == Cardinality(WokenPushers')
           n == Count(dq)
<1>1. /\ Resting(k) /\ PopList \in WaitList /\ PushList \in WaitList
      /\ On(k, PopList) \subseteq Thread /\ On(k, PushList) \subseteq Thread
      /\ WokenPoppers \subseteq Thread /\ WokenPushers \subseteq Thread
  BY DqFacts
<1>2. WokenPoppers' \subseteq Thread /\ WokenPushers' \subseteq Thread
  BY DEF WokenPoppers, WokenPushers, DqWoken
<1>3. a \in Nat /\ b \in Nat /\ c \in Nat /\ d \in Nat BY <1>1, <1>2, Heads
<1>0. dq'.wrapped = FALSE => DqLined
  <2>1. dq' = Popped \/ \E y \in Item : dq' = Pushed(y) BY DEF DqInterrupt, IsrPop, IsrPush
  <2> QED BY <2>1, DqWasLined
<1>4. Lwm \in Nat /\ (dq'.wrapped = FALSE => n \in Nat) BY <1>0, DqFields, DqAssumption
<1>5. dq'.wrapped = FALSE =>
        /\ On(k, PopList) # {} => n <= a
        /\ On(k, PushList) # {} => n + b > Lwm
  BY <1>0 DEF DqOK, DqCounted, DqLined
<1> HIDE DEF a, b, c, d, n
<1>6. CASE IsrPop
  <2> DEFINE M == IF WakesPusher THEN Firsts(k, PushList) ELSE {}
  <2>1. /\ isr = "none" /\ ~DqEmpty /\ dq' = Popped /\ UNCHANGED <<isr, pc, dqtime>>
        /\ k' = IF WakesPusher THEN rt_schedule(Taken(k)) ELSE k
    BY <1>6 DEF IsrPop
  <2>2. dq'.wrapped = FALSE => n > 0 /\ Count(Popped) = n - 1 /\ Count(dq') = n - 1
    BY <1>0, <2>1, DqTaken DEF n
  <2>3. /\ M \subseteq On(k, PushList)
        /\ Resting(k') /\ Same(k, k', M) /\ (Kept(k, k') \/ Chosen(k, k'))
        /\ \A u \in M : k'.stat[u] = "READY" /\ k'.err[u] = k.err[u] /\ OnNone(k', u)
        /\ dq'.wrapped = FALSE /\ M = {} => On(k, PushList) = {} \/ n - 1 > Lwm
    <3>1. CASE WakesPusher
      <4>1. M = Firsts(k, PushList) /\ k.list[PushList] # <<>> BY <3>1 DEF WakesPusher
      <4>2. k' = IF k.list[PushList] # <<>> THEN rt_schedule(ResumeFirst(k, PushList)) ELSE k
        BY <2>1, <3>1, <4>1 DEF Taken
      <4>3. M \subseteq On(k, PushList) /\ M # {} BY <1>1, <4>1, RestingFields DEF Firsts
      <4>4. /\ Resting(k') /\ Same(k, k', Firsts(k, PushList)) /\ (Kept(k, k') \/ Chosen(k, k'))
            /\ \A u \in Firsts(k, PushList) :
                 k'.stat[u] = "READY" /\ k'.err[u] = k.err[u] /\ OnNone(k', u)
        BY <1>1, <4>2, HandlerRests
      <4> HIDE DEF M
      <4> QED BY <4>1, <4>3, <4>4
    <3>2. CASE ~WakesPusher
      <4>1. M = {} /\ k' = k BY <2>1, <3>2
      <4>2. dq'.wrapped = FALSE => n - 1 > Lwm \/ On(k, PushList) = {}
        BY <1>1, <1>4, <2>2, <3>2, RestingFields DEF WakesPusher
      <4>3. Same(k, k, {}) /\ Kept(k, k) BY DEF Same, Kept
      <4> HIDE DEF M
      <4> QED BY <1>1, <4>1, <4>2, <4>3
    <3> QED BY <3>1, <3>2
  <2> HIDE DEF M
  <2>4. M \in SUBSET Thread BY <1>1, <2>3
  <2>5. /\ Runs(DqEnters)' /\ DqLocked' /\ DqWaits' /\ dqtime' \in [Thread -> Timeout]
        /\ On(k', PopList) = On(k, PopList) \ M /\ On(k', PushList) = On(k, PushList) \ M
        /\ WokenPoppers \ M \subseteq WokenPoppers' /\ WokenPushers \ M \subseteq WokenPushers'
        /\ \A u \in M : k'.err[u] = "EOK" => (pc[u] \in DqPushPc => u \in WokenPushers')
    BY <2>1, <2>3, <2>4, DqHandler
  <2>6. \A u \in M : u \in WokenPushers' /\ u \notin WokenPoppers /\ u \notin WokenPushers
    <3> TAKE u \in M
    <3>1. u \in On(k, PushList) /\ u \in Thread BY <2>3, <2>4
    <3>2. pc[u] \in DqPushPc /\ k.err[u] = "EOK" BY <3>1 DEF DqOK, DqWaits
    <3>3. u \in WokenPushers' BY <2>3, <2>5, <3>2
    <3>4. u \notin WokenPushers BY <3>1 DEF WokenPushers, DqWoken, On
    <3>5. u \notin WokenPoppers BY <3>2 DEF WokenPoppers, DqWoken, DqPushPc
    <3> QED BY <3>3, <3>4, <3>5
  <2>7. WokenPoppers \subseteq WokenPoppers' /\ WokenPushers \subseteq WokenPushers' BY <2>5, <2>6
  <2>8. a <= c /\ b <= d BY <1>1, <1>2, <2>7, Heads DEF a, b, c, d
  <2>9. \A h \in M : b + 1 <= d
    <3> TAKE h \in M
    <3>1. WokenPushers \cup {h} \subseteq WokenPushers' /\ h \notin WokenPushers BY <2>6, <2>7
    <3> QED BY <1>1, <1>2, <3>1, Heads DEF b, d
  <2>10. dq'.wrapped = FALSE /\ On(k', PopList) # {} => n - 1 <= c
    BY <1>3, <1>4, <1>5, <2>5, <2>8
  <2>11. dq'.wrapped = FALSE /\ On(k', PushList) # {} => (n - 1) + d > Lwm
    BY <1>3, <1>4, <1>5, <2>3, <2>5, <2>8, <2>9
  <2>12. DqCounted' BY <2>2, <2>10, <2>11 DEF DqCounted, c, d
  <2> QED BY <2>5, <2>12 DEF DqOK
<1>7. CASE \E x \in Item : IsrPush(x)
  <2> DEFINE M == Firsts(k, PopList)
  <2>1. PICK x \in Item :
          /\ isr = "none" /\ ~DqFull /\ dq' = Pushed(x) /\ UNCHANGED <<isr, pc, dqtime>>
          /\ k' = IF k.list[PopList] # <<>> THEN rt_schedule(ResumeFirst(k, PopList)) ELSE k
    BY <1>7 DEF IsrPush
  <2>2. dq'.wrapped = FALSE => Count(dq') = n + 1 BY <1>0, <2>1, DqPushed DEF n
  <2>3. /\ Resting(k') /\ Same(k, k', M) /\ (Kept(k, k') \/ Chosen(k, k'))
        /\ \A u \in M : k'.stat[u] = "READY" /\ k'.err[u] = k.err[u] /\ OnNone(k', u)
    BY <1>1, <2>1, HandlerRests
  <2>4. M \subseteq On(k, PopList) /\ (M = {} <=> On(k, PopList) = {}) BY <1>1, FirstRests
  <2> HIDE DEF M
  <2>5. M \in SUBSET Thread BY <1>1, <2>4
  <2>6. /\ Runs(DqEnters)' /\ DqLocked' /\ DqWaits' /\ dqtime' \in [Thread -> Timeout]
        /\ On(k', PopList) = On(k, PopList) \ M /\ On(k', PushList) = On(k, PushList) \ M
        /\ WokenPoppers \ M \subseteq WokenPoppers' /\ WokenPushers \ M \subseteq WokenPushers'
        /\ \A u \in M : k'.err[u] = "EOK" => (pc[u] \in DqPopPc => u \in WokenPoppers')
    BY <2>1, <2>3, <2>5, DqHandler
  <2>7. \A u \in M : u \in WokenPoppers' /\ u \notin WokenPoppers /\ u \notin WokenPushers
    <3> TAKE u \in M
    <3>1. u \in On(k, PopList) /\ u \in Thread BY <2>4, <2>5
    <3>2. pc[u] \in DqPopPc /\ k.err[u] = "EOK" BY <3>1 DEF DqOK, DqWaits
    <3>3. u \in WokenPoppers' BY <2>3, <2>6, <3>2
    <3>4. u \notin WokenPoppers BY <3>1 DEF WokenPoppers, DqWoken, On
    <3>5. u \notin WokenPushers BY <3>2 DEF WokenPushers, DqWoken, DqPopPc
    <3> QED BY <3>3, <3>4, <3>5
  <2>8. WokenPoppers \subseteq WokenPoppers' /\ WokenPushers \subseteq WokenPushers' BY <2>6, <2>7
  <2>9. a <= c /\ b <= d BY <1>1, <1>2, <2>8, Heads DEF a, b, c, d
  <2>10. \A h \in M : a + 1 <= c
    <3> TAKE h \in M
    <3>1. WokenPoppers \cup {h} \subseteq WokenPoppers' /\ h \notin WokenPoppers BY <2>7, <2>8
    <3> QED BY <1>1, <1>2, <3>1, Heads DEF a, c
  <2>11. dq'.wrapped = FALSE /\ On(k', PopList) # {} => n + 1 <= c
    BY <1>3, <1>4, <1>5, <2>4, <2>6, <2>9, <2>10
  <2>12. dq'.wrapped = FALSE /\ On(k', PushList) # {} => (n + 1) + d > Lwm BY <1>3, <1>4, <1>5, <2>6, <2>9
  <2>13. DqCounted' BY <2>2, <2>11, <2>12 DEF DqCounted, c, d
  <2> QED BY <2>6, <2>13 DEF DqOK
<1> QED BY <1>6, <1>7 DEF DqInterrupt

LEMMA DqThreads ==
  ASSUME DqOK, DqOrder, DqItems, NEW t \in Thread, DqStep(t)
  PROVE  DqOK'
<1>1. CASE \E time \in Timeout : Pop(t, time)
  <2>1. PICK time \in Timeout : PopBody(t, time) /\ isr' = isr /\ \E op : Calls(t, op)
    BY <1>1 DEF Pop
  <2>2. Running(t, "run") /\ t \in Thread \ {Idle} BY <2>1, CallerOf DEF DqOK
  <2> QED BY <2>1, <2>2, DqPopBodyWaits
<1>2. CASE \E time \in Timeout : \E x \in Item : Push(t, x, time)
  <2>1. PICK time \in Timeout, x \in Item : PushBody(t, x, time) /\ isr' = isr /\ \E op : Calls(t, op)
    BY <1>2 DEF Push
  <2>2. Running(t, "run") /\ t \in Thread \ {Idle} BY <2>1, CallerOf DEF DqOK
  <2> QED BY <2>1, <2>2, DqPushBodyWaits
<1>3. CASE PushBack(t)
  <2>1. Running(t, "push_back") /\ isr' = isr BY <1>3 DEF PushBack
  <2>2. t \in Thread \ {Idle} BY <2>1, DqCaller DEF DqClosePc
  <2>3. CASE k.err[t] = "EOK"
    <3>1. PushBody(t, dqitem[t], dqtime[t]) /\ dqtime[t] \in Timeout
      BY <1>3, <2>3 DEF PushBack, DqOK
    <3>2. dqitem[t] \in Item BY <2>1 DEF Running, DqItems, DqPushPc
    <3> QED BY <2>1, <2>2, <3>1, <3>2, DqPushBodyWaits
  <2>4. CASE k.err[t] # "EOK"
    <3>1. DqReturn(t) /\ dq' = dq BY <1>3, <2>4 DEF PushBack
    <3> QED BY <2>1, <2>2, <2>4, <3>1, DqFails
  <2> QED BY <2>3, <2>4
<1>4. CASE PopBack(t)
  <2>1. Running(t, "pop_back") /\ isr' = isr BY <1>4 DEF PopBack
  <2>2. t \in Thread \ {Idle} BY <2>1, DqCaller DEF DqClosePc
  <2>3. CASE k.err[t] = "EOK"
    <3>1. PopBody(t, dqtime[t]) /\ dqtime[t] \in Timeout BY <1>4, <2>3 DEF PopBack, DqOK
    <3> QED BY <2>1, <2>2, <3>1, DqPopBodyWaits
  <2>4. CASE k.err[t] # "EOK"
    <3>1. DqReturn(t) /\ dq' = dq BY <1>4, <2>4 DEF PopBack
    <3> QED BY <2>1, <2>2, <2>4, <3>1, DqFails
  <2> QED BY <2>3, <2>4
<1>5. CASE PushSchedule(t) \/ PopSchedule(t)
  BY <1>5, DqSwitches DEF PushSchedule, PopSchedule, IpcSchedule
<1>6. CASE DqReset(t) \/ DqResetResume(t) \/ DqResetEnd(t) BY <1>6, DqResets
<1> QED BY <1>1, <1>2, <1>3, <1>4, <1>5, <1>6 DEF DqStep

LEMMA DqKernel ==
  ASSUME DqOK, DqOrder, (\E t \in Thread : Schedule(t)) \/ Tick \/ TimerCheck
  PROVE  DqOK'
<1>1. dq' = dq /\ dqtime' = dqtime /\ dqtime' \in [Thread -> Timeout] /\ Runs(DqEnters) /\ Resting(k)
  BY DEF Schedule, Tick, TimerCheck, DqOK, Runs
<1>2. CASE \E t \in Thread : Schedule(t)
  <2>1. PICK t \in Thread : ScheduleStep(t, "sched", "run") BY <1>2 DEF Schedule, IpcSchedule
  <2> QED BY <1>1, <2>1, DqSwitches
<1>3. CASE Tick
  <2>1. Runs(DqEnters)' /\ Same(k, k', {}) /\ (Kept(k, k') \/ Chosen(k, k')) /\ pc' = pc
    BY <1>1, <1>3, RunsTick DEF Tick
  <2>2. Resting(k') /\ DqLocked' BY <2>1, DqStaysLocked DEF Runs
  <2> QED BY <1>1, <2>1, <2>2, DqIdleStep
<1>4. CASE TimerCheck
  <2> DEFINE h == Head(k.timers)
  <2>1. /\ Runs(DqEnters)' /\ Same(k, k', {h}) /\ Chosen(k, k') /\ pc' = pc
        /\ h \in Thread /\ k.stat[h] = "SUSPEND" /\ k'.stat[h] = "READY" /\ OnNone(k', h)
    BY <1>1, <1>4, RunsTimer DEF TimerCheck
  <2> HIDE DEF h
  <2>2. Resting(k') /\ DqLocked' BY <2>1, DqStaysLocked DEF Runs
  <2>3. h \notin WokenPoppers /\ h \notin WokenPushers BY <2>1, DqNotWoken
  <2>4. {h} \in SUBSET Thread BY <2>1
  <2> QED BY <1>1, <2>1, <2>2, <2>3, <2>4, DqIdleStep
<1> QED BY <1>2, <1>3, <1>4

DqWaitInv == DqInv /\ (helper = "dataqueue" => DqOK)

LEMMA DqWaitInit ==
  ASSUME Init
  PROVE  DqWaitInv
<1>1. IpcInit /\ dqtime = [t \in Thread |-> 0] /\ DqInv BY DqInvInit DEF Init, DqInit
<1>2. "run" \notin DqEnters /\ "run" \notin DqClosePc BY DEF DqEnters, DqClosePc
<1>3. PopList \in WaitList /\ PushList \in WaitList BY DqAssumption
<1>4. /\ Runs(DqEnters) /\ k.nest = 0 /\ pc = [t \in Thread |-> "run"]
      /\ On(k, PopList) = {} /\ On(k, PushList) = {} /\ \A t \in Thread : k.stat[t] = "READY"
  BY <1>1, <1>2, <1>3, BootRuns DEF Settled
<1>5. dqtime \in [Thread -> Timeout] BY <1>1, BoundAssumption DEF Timeout
<1>6. DqOK BY <1>2, <1>4, <1>5 DEF DqOK, DqLocked, DqWaits, DqCounted
<1> QED BY <1>1, <1>6 DEF DqWaitInv

LEMMA DqWaitNext ==
  ASSUME DqWaitInv, [Next]_vars
  PROVE  DqWaitInv'
<1>1. DqInv /\ DqInv' BY DqInvNext DEF DqWaitInv
<1>2. CASE UNCHANGED vars
  <2>1. UNCHANGED <<k, isr, pc, dq, dqtime, helper>> BY <1>2 DEF vars, dqvars
  <2>2. DqOK => DqOK'
    BY <2>1 DEF DqOK, Runs, DqLocked, DqWaits, DqCounted, WokenPoppers, WokenPushers, DqWoken
  <2> QED BY <1>1, <2>1, <2>2 DEF DqWaitInv
<1>3. CASE Next /\ helper # "dataqueue"
  <2>1. helper' = helper BY <1>3 DEF Next
  <2> QED BY <1>1, <1>3, <2>1 DEF DqWaitInv
<1>4. CASE Next /\ helper = "dataqueue"
  <2>1. DqOK /\ DqOrder /\ DqItems BY <1>4 DEF DqWaitInv, DqInv
  <2>2. DqNext \/ (\E t \in Thread : Schedule(t)) \/ Tick \/ TimerCheck BY <1>4 DEF Next
  <2>3. DqOK' BY <2>1, <2>2, DqThreads, DqHandlers, DqKernel DEF DqNext
  <2> QED BY <1>1, <2>3 DEF DqWaitInv
<1> QED BY <1>2, <1>3, <1>4

THEOREM DqWaitInvariance == Spec => []DqWaitInv
<1>1. Init => DqWaitInv BY DqWaitInit
<1>2. DqWaitInv /\ [Next]_vars => DqWaitInv' BY DqWaitNext
<1> QED BY <1>1, <1>2, PTL DEF Spec

\* No consumer sleeps on an item and no producer on room below the low water
\* mark, but for what threads that were woken are about to take or to fill,
\* although a wake-up, a timeout and a reset may come before the woken thread
\* runs.
THEOREM DataQueueStrandsNobody == Spec => [](helper = "dataqueue" => DqNobodyStranded)
<1>1. ASSUME DqWaitInv PROVE helper = "dataqueue" => DqNobodyStranded
  <2> SUFFICES ASSUME helper = "dataqueue" PROVE DqNobodyStranded OBVIOUS
  <2>1. Resting(k) /\ DqCounted /\ PopList \in WaitList /\ PushList \in WaitList
    BY <1>1, DqFacts DEF DqWaitInv, DqOK
  <2>2. /\ k.list[PopList] = <<>> <=> On(k, PopList) = {}
        /\ k.list[PushList] = <<>> <=> On(k, PushList) = {}
    BY <2>1, RestingFields
  <2>3. dq.wrapped \in BOOLEAN BY <1>1 DEF DqWaitInv, DqInv, DqOrder, DqRing
  <2> QED BY <2>1, <2>2, <2>3 DEF DqCounted, DqNobodyStranded
<1> QED BY <1>1, DqWaitInvariance, PTL

-----------------------------------------------------------------------------
(* Pipe: who sleeps in a wait queue is the one blocking reader or writer,  *)
(* and whoever has something for it is on the way to its wake-up.          *)

PpEnters == {"pp_sched", "sched"}

\* The labels of a reader and of a writer, and among them those at which it is
\* about to wait, or has waited, because the pipe was empty or full.
CallOf(q) ==
  IF q = "reader"
  THEN {"read_in", "read_done", "read_out", "read_idle", "read_wait", "read_woken", "read_lock"}
  ELSE {"write_in", "write_again", "write_out", "write_end", "write_idle", "write_wait",
        "write_woken", "write_lock", "write_last"}
Before(q) == IF q = "reader" THEN {"read_out", "read_idle", "read_wait"}
             ELSE {"write_out", "write_idle", "write_wait"}
WokenAt(q) == IF q = "reader" THEN "read_woken" ELSE "write_woken"

\* Those that are about to wake it, for what is in the pipe or for its end.
Filling(q) == IF q = "reader" THEN {"write_out", "write_end", "write_idle", "write_last"}
              ELSE {"read_done"}
Closing(q) == IF q = "reader" THEN {"close_readers"} ELSE {"close_readers", "close_writers"}
Past == {"close_readers", "close_writers", "close_end"}

Uses(q, t) == IF q = "reader" THEN Reads(t) ELSE Writes(t)
Available(q) == IF q = "reader" THEN DataLen(pipe.fifo) > 0 ELSE SpaceLen(pipe.fifo) > 0
Others(q) == IF q = "reader" THEN pipe.writers ELSE pipe.readers
Users(q) == {t \in opened : Uses(q, t) /\ At(t) \notin Past}

PpFields ==
  /\ {"fifo", "readers", "writers", "ref_count", "owner", "original", "flag", "waiting"} \subseteq DOMAIN pipe
  /\ DOMAIN pc = Thread /\ DOMAIN after = Thread /\ \A t \in Thread : after[t] # "pp_sched"
  /\ pipe.flag \in [Queue -> BOOLEAN] /\ pipe.waiting \in [Queue -> Seq(Thread)]
  /\ pipe.owner \in (Thread \ {Idle}) \cup {NoThread} /\ pipe.original \in Prio

PpPlace(t, l) ==
  /\ l \notin {"run", "sched"} => "pipe" \in Prog[t]
  /\ \A q \in Queue : /\ l \in CallOf(q) => Uses(q, t)
                      /\ l \in Before(q) \cup {WokenAt(q)} => t \notin NonBlock
PpPlaces == \A t \in Thread : PpPlace(t, At(t)) /\ (t \in opened => "pipe" \in Prog[t])

\* One thread sleeps in a queue, with no other way to wake up.
PpSleepers ==
  \A q \in Queue :
    \/ pipe.waiting[q] = <<>>
    \/ ~pipe.flag[q] /\ \E t \in Thread :
         /\ pipe.waiting[q] = <<t>> /\ At(t) = WokenAt(q)
         /\ k.stat[t] = "SUSPEND" /\ OnNone(k, t) /\ t \notin Timed(k)

PpCounts == pipe.readers = Cardinality(Users("reader")) /\ pipe.writers = Cardinality(Users("writer"))

PpOwned == On(k, PipeLock) # {} => pipe.owner # NoThread

Wanting(q) == pipe.waiting[q] # <<>> \/ OnTheWay(Before(q))
PpNeeds(q) ==
  Wanting(q) =>
    /\ Available(q) => pipe.flag[q] \/ OnTheWay(Filling(q))
    /\ Others(q) = 0 => pipe.flag[q] \/ OnTheWay(Closing(q))

PpOK ==
  /\ Runs(PpEnters) /\ k.nest = 0
  /\ PpFields /\ PpPlaces /\ PpSleepers /\ PpCounts /\ PpOwned /\ OnlyList(k, PipeLock)
  /\ \A q \in Queue : PpNeeds(q)

-----------------------------------------------------------------------------
(* What each operation of the mutex and of the wait queues does.           *)

\* A thread goes from one place to another, and the threads of M are moved.
PpMove(t, l, M) ==
  /\ Runs(PpEnters)' /\ k'.nest = 0 /\ Resting(k') /\ M \in SUBSET Thread /\ Same(k, k', M)
  /\ DOMAIN pc' = Thread /\ DOMAIN after' = Thread /\ \A u \in Thread : after'[u] # "pp_sched"
  /\ At(t)' = l /\ \A u \in Thread : u # t => At(u)' = At(u)
  /\ DOMAIN pipe' = DOMAIN pipe
  /\ pipe'.owner \in (Thread \ {Idle}) \cup {NoThread} /\ pipe'.original \in Prio
  /\ OnlyList(k', PipeLock)

PpSameData ==
  /\ pipe'.fifo = pipe.fifo /\ pipe'.readers = pipe.readers /\ pipe'.writers = pipe.writers
  /\ pipe'.ref_count = pipe.ref_count
PpSameMutex == pipe'.owner = pipe.owner /\ pipe'.original = pipe.original
PpSameQueues == pipe'.flag = pipe.flag /\ pipe'.waiting = pipe.waiting

\* A thread in a call, or on its way into one.
PpCaller(t, l) ==
  /\ t \in Thread \ {Idle} /\ Running(t, l) /\ l \notin PpEnters
  /\ k.cur = t /\ isr = "none" /\ k.stat[t] = "READY" /\ OnNone(k, t) /\ t \notin Timed(k)
  /\ At(t) = l

LEMMA PpFacts ==
  ASSUME PpOK
  PROVE  /\ Runs(PpEnters) /\ Resting(k) /\ k.nest = 0 /\ Settled(k) /\ PpFields /\ PipeLock \in WaitList
         /\ {"fifo", "readers", "writers", "ref_count", "owner", "original", "flag", "waiting"} \subseteq DOMAIN pipe
         /\ On(k, PipeLock) \subseteq Thread
<1>1. Runs(PpEnters) /\ Resting(k) /\ k.nest = 0 /\ PpFields BY DEF PpOK, Runs
<1>2. PipeLock \in WaitList BY PipeAssumption
<1>3. On(k, PipeLock) \subseteq Thread BY <1>1, <1>2, RestingFields
<1> QED BY <1>1, <1>2, <1>3 DEF Settled, PpFields

LEMMA PpCallers ==
  ASSUME PpOK, NEW t \in Thread, NEW l, Running(t, l), l \notin PpEnters, l # "run" \/ Prog[t] # {}
  PROVE  PpCaller(t, l)
<1>1. Runs(PpEnters) BY PpFacts
<1>2. /\ k.cur = t /\ pc[t] = l /\ isr = "none" /\ k.stat[t] = "READY" /\ OnNone(k, t) /\ Resting(k)
      /\ l # "run" => t # Idle
  BY <1>1, Caller
<1>3. t # Idle BY <1>2, DriverAssumption
<1>4. t \notin Timed(k) BY <1>2, RestingOnNone
<1>5. At(t) = l BY <1>2 DEF At, PpEnters
<1> QED BY <1>2, <1>3, <1>4, <1>5 DEF PpCaller

\* Goto and after, on the way through rt_schedule or not.
LEMMA PpMoves ==
  ASSUME PpOK, NEW t, NEW l, PpCaller(t, l), NEW m, m # "pp_sched", isr' = isr,
         GoOn(t, m) \/ Switch(t, m),
         Resting(k'), k'.nest = 0, k'.cur = t, NEW M \in SUBSET Thread, Same(k, k', M),
         GoOn(t, m) => k'.stat[t] = "READY",
         \A u \in M : OnNone(k', u) \/ OnlyOn(k', u, PipeLock),
         DOMAIN pipe' = DOMAIN pipe, pipe'.owner \in (Thread \ {Idle}) \cup {NoThread},
         pipe'.original \in Prio
  PROVE  PpMove(t, m, M)
<1>1. /\ t \in Thread \ {Idle} /\ isr = "none" /\ Runs(PpEnters) /\ DOMAIN pc = Thread
      /\ DOMAIN after = Thread /\ \A u \in Thread : after[u] # "pp_sched"
  BY PpFacts DEF PpCaller, PpFields
<1>2. /\ DOMAIN pc' = Thread /\ DOMAIN after' = Thread /\ At(t)' = m
      /\ \A u \in Thread : u # t => At(u)' = At(u)
  BY <1>1, ItMoves DEF Moves
<1>3. \A u \in Thread : after'[u] # "pp_sched" BY <1>1 DEF GoOn, Switch
<1>4. Runs(PpEnters)'
  <2>1. CASE GoOn(t, m)
    <3>1. Goto(t, m) BY <2>1 DEF GoOn
    <3> QED BY <1>1, <2>1, <3>1, RunsOn
  <2>2. CASE Switch(t, m)
    <3>1. Goto(t, "pp_sched") /\ "pp_sched" \in PpEnters BY <2>2 DEF Switch, PpEnters
    <3> QED BY <1>1, <3>1, RunsOn
  <2> QED BY <2>1, <2>2
<1>5. OnlyList(k', PipeLock) BY OnlyListKept DEF PpOK
<1> QED BY <1>2, <1>3, <1>4, <1>5 DEF PpMove

\* The kernel is left alone.
LEMMA PpStays ==
  ASSUME PpOK, NEW t, NEW l, PpCaller(t, l), NEW m, m # "pp_sched", isr' = isr,
         GoOn(t, m), k' = k,
         DOMAIN pipe' = DOMAIN pipe, pipe'.owner \in (Thread \ {Idle}) \cup {NoThread},
         pipe'.original \in Prio
  PROVE  PpMove(t, m, {})
<1>1. Same(k, k', {}) BY DEF Same
<1>2. Resting(k) /\ k.nest = 0 BY PpFacts
<1>3. k.cur = t /\ k.stat[t] = "READY" BY DEF PpCaller
<1> QED BY <1>1, <1>2, <1>3, PpMoves

LEMMA PpLock ==
  ASSUME PpOK, NEW t, NEW l, PpCaller(t, l), NEW m, m # "pp_sched", isr' = isr, Lock(t, m)
  PROVE  PpMove(t, m, {t}) /\ PpSameData /\ PpSameQueues /\ PpOwned'
<1>1. /\ Settled(k) /\ Resting(k) /\ k.nest = 0 /\ PpFields /\ PpOwned /\ PipeLock \in WaitList
      /\ t \in Thread \ {Idle} /\ k.stat[t] = "READY" /\ k.cur = t
  BY PpFacts DEF PpOK, PpCaller
<1>2. /\ {"fifo", "readers", "writers", "ref_count", "owner", "original", "flag", "waiting"} \subseteq DOMAIN pipe
      /\ pipe.owner \in (Thread \ {Idle}) \cup {NoThread} /\ pipe.original \in Prio
  BY <1>1 DEF PpFields
<1>3. k.prio[t] \in Prio BY <1>1, KernelFields DEF Resting, KernelOK
<1>4. CASE pipe.owner = NoThread
  <2>1. pipe' = [pipe EXCEPT !.owner = t, !.original = k.prio[t]] /\ GoOn(t, m) /\ k' = k
    BY <1>4 DEF Lock
  <2>2. /\ DOMAIN pipe' = DOMAIN pipe /\ pipe'.owner = t /\ pipe'.original = k.prio[t]
        /\ PpSameData /\ PpSameQueues
    BY <1>2, <2>1 DEF PpSameData, PpSameQueues
  <2>3. Same(k, k', {t}) BY <2>1 DEF Same
  <2>4. PpMove(t, m, {t})
    <3>1. {t} \in SUBSET Thread BY <1>1
    <3>2. OnNone(k', t) BY <2>1 DEF PpCaller
    <3> QED BY <1>1, <1>3, <2>1, <2>2, <2>3, <3>1, <3>2, PpMoves
  <2>5. t # NoThread BY <1>1, ThreadAssumption
  <2> QED BY <2>2, <2>4, <2>5 DEF PpOwned
<1>5. CASE pipe.owner # NoThread
  <2> DEFINE o == pipe.owner
             p == k.prio[t]
             s == IF p < k.prio[o] THEN ChangePriority(k, o, p) ELSE k
             r == rt_ipc_list_suspend(s, PipeLock, t, "FIFO")
  <2>1. pipe' = pipe /\ Switch(t, m) /\ k' = r BY <1>5 DEF Lock
  <2>2. o \in Thread \ {Idle} BY <1>2, <1>5
  <2> HIDE DEF o
  <2>3. KernelOK(s) /\ Same(k, s, {}) /\ Kept(k, s)
    <3>1. KernelOK(k) /\ (k.stat[o] = "READY" => ~Off(k, o)) BY <1>1, <2>2 DEF Resting
    <3>2. Same(k, k, {}) /\ Kept(k, k) BY DEF Same, Kept
    <3>3. CASE p < k.prio[o]
      <4>1. /\ KernelOK(ChangePriority(k, o, p)) /\ Kept(k, ChangePriority(k, o, p))
            /\ Same(k, ChangePriority(k, o, p), {})
        BY <1>3, <2>2, <3>1, MovePriority, PrioritySame
      <4> QED BY <3>3, <4>1
    <3> QED BY <3>1, <3>2, <3>3
  <2> HIDE DEF s
  <2>4. s.stat[t] = "READY" BY <1>1, <2>3 DEF Same
  <2>5. /\ KernelOK(r) /\ Kept(s, r) /\ r.stat[t] = "SUSPEND"
        /\ Same(s, r, {t}) /\ t \in On(r, PipeLock)
    BY <1>1, <2>3, <2>4, ListSuspend, ListSuspendSame
  <2> HIDE DEF r
  <2>6. Same(k, r, {t}) BY <2>3, <2>5 DEF Same
  <2>7. Resting(r) /\ r.nest = 0 /\ r.cur = t
    BY <1>1, <2>3, <2>5, <2>6, OneSleeps DEF Kept
  <2>8. PpMove(t, m, {t})
    <3>1. {t} \in SUBSET Thread BY <1>1
    <3>2. GoOn(t, m) => FALSE
      <4>1. t \in DOMAIN pc BY <1>1 DEF PpFields
      <4> QED BY <2>1, <4>1 DEF GoOn, Switch, Goto
    <3>3. OnlyOn(k', t, PipeLock) BY <1>1, <2>1, <2>5, <2>7, RestingFields
    <3> QED BY <1>2, <2>1, <2>6, <2>7, <3>1, <3>2, <3>3, PpMoves
  <2> QED BY <1>5, <2>1, <2>8 DEF PpSameData, PpSameQueues, PpOwned
<1> QED BY <1>4, <1>5

\* Who hands the mutex over makes one of its waiters ready.
LEMMA PpUnlock ==
  ASSUME PpOK, NEW t, NEW l, PpCaller(t, l), NEW m, m # "pp_sched", isr' = isr, Unlock(t, m)
  PROVE  \E M : /\ PpMove(t, m, M) /\ M \subseteq On(k, PipeLock)
                /\ PpSameData /\ PpSameQueues /\ PpOwned'
<1> DEFINE s == PriorityTo(k, t, pipe.original)
<1>1. /\ Settled(k) /\ Resting(k) /\ k.nest = 0 /\ PpFields /\ PpOwned /\ PipeLock \in WaitList
      /\ t \in Thread \ {Idle} /\ k.stat[t] = "READY" /\ k.cur = t
  BY PpFacts DEF PpOK, PpCaller
<1>2. /\ {"fifo", "readers", "writers", "ref_count", "owner", "original", "flag", "waiting"} \subseteq DOMAIN pipe
      /\ pipe.owner \in (Thread \ {Idle}) \cup {NoThread} /\ pipe.original \in Prio
  BY <1>1 DEF PpFields
<1>3. KernelOK(s) /\ Same(k, s, {}) /\ Kept(k, s)
  <2>1. KernelOK(k) /\ ~Off(k, t) BY <1>1 DEF Resting
  <2>2. Same(k, k, {}) /\ Kept(k, k) BY DEF Same, Kept
  <2> DEFINE p == pipe.original
  <2>3. p \in Prio BY <1>2
  <2> HIDE DEF p
  <2>4. /\ KernelOK(ChangePriority(k, t, p)) /\ Kept(k, ChangePriority(k, t, p))
        /\ Same(k, ChangePriority(k, t, p), {})
    BY <1>1, <2>1, <2>3, MovePriority, PrioritySame
  <2> QED BY <2>1, <2>2, <2>4 DEF PriorityTo, p
<1> HIDE DEF s
<1>4. Resting(s) /\ s.nest = 0 /\ s.cur = t /\ s.stat[t] = "READY"
  BY <1>1, <1>3, NobodyRests DEF Kept, Same
<1>5. On(s, PipeLock) = On(k, PipeLock)
  <2>1. On(k, PipeLock) \subseteq Thread /\ On(s, PipeLock) \subseteq Thread
    BY <1>1, <1>4, RestingFields
  <2> QED BY <1>1, <1>3, <2>1 DEF Same
<1>6. CASE s.list[PipeLock] = <<>>
  <2>1. pipe' = [pipe EXCEPT !.owner = NoThread] /\ k' = s /\ GoOn(t, m)
    BY <1>6 DEF Unlock, s
  <2>2. /\ DOMAIN pipe' = DOMAIN pipe /\ pipe'.owner = NoThread /\ pipe'.original = pipe.original
        /\ PpSameData /\ PpSameQueues
    BY <1>2, <2>1 DEF PpSameData, PpSameQueues
  <2>3. PpMove(t, m, {})
    <3>1. {} \in SUBSET Thread OBVIOUS
    <3> QED BY <1>2, <1>3, <1>4, <2>1, <2>2, <3>1, PpMoves
  <2>4. On(k', PipeLock) = {} BY <1>1, <1>4, <1>6, <2>1, RestingFields
  <2> QED BY <2>2, <2>3, <2>4 DEF PpOwned
<1>7. CASE s.list[PipeLock] # <<>>
  <2> DEFINE o == Head(s.list[PipeLock])
             r == rt_ipc_list_resume(s, PipeLock)
  <2>1. /\ pipe' = [pipe EXCEPT !.owner = o, !.original = s.prio[o]] /\ k' = r /\ Switch(t, m)
    BY <1>7 DEF Unlock, s
  <2>2. /\ o \in Thread /\ o \in On(s, PipeLock) /\ s.stat[o] = "SUSPEND"
        /\ Resting(r) /\ Same(s, r, {o}) /\ Kept(s, r) /\ r.stat[o] = "READY"
    BY <1>1, <1>4, <1>7, HeadRests
  <2> HIDE DEF o, r
  <2>3. o # Idle /\ o # t
    <3>1. s.stat[Idle] = "READY" BY <1>3, IdleReady
    <3> QED BY <1>4, <2>2, <3>1
  <2>4. s.prio[o] \in Prio BY <1>3, <2>2, KernelFields DEF KernelOK
  <2>5. /\ DOMAIN pipe' = DOMAIN pipe /\ pipe'.owner = o /\ pipe'.original = s.prio[o]
        /\ PpSameData /\ PpSameQueues
    BY <1>2, <2>1 DEF PpSameData, PpSameQueues
  <2>6. Same(k, r, {o}) BY <1>3, <2>2 DEF Same
  <2>7. r.nest = 0 /\ r.cur = t BY <1>4, <2>2 DEF Kept
  <2>8. r.stat[t] = "READY" BY <1>1, <1>4, <2>2, <2>3 DEF Same
  <2>9. PpMove(t, m, {o})
    <3>1. {o} \in SUBSET Thread BY <2>2
    <3>2. o \in (Thread \ {Idle}) \cup {NoThread} BY <2>2, <2>3
    <3>3. OnNone(k', o) BY <2>1, <2>2, RestingOnNone
    <3> QED BY <2>1, <2>2, <2>4, <2>5, <2>6, <2>7, <2>8, <3>1, <3>2, <3>3, PpMoves
  <2>10. o # NoThread BY <2>2, ThreadAssumption
  <2>11. PpOwned' BY <2>5, <2>10 DEF PpOwned
  <2> QED BY <1>5, <2>2, <2>5, <2>9, <2>11
<1> QED BY <1>6, <1>7

\* The one who sleeps in a wait queue.
LEMMA PpSleeper ==
  ASSUME PpOK, NEW q \in Queue, pipe.waiting[q] # <<>>
  PROVE  LET o == Head(pipe.waiting[q])
         IN  /\ o \in Thread /\ pipe.waiting[q] = <<o>> /\ Tail(pipe.waiting[q]) = <<>>
             /\ At(o) = WokenAt(q) /\ k.stat[o] = "SUSPEND" /\ OnNone(k, o) /\ o \notin Timed(k)
<1>1. PICK o \in Thread :
        /\ pipe.waiting[q] = <<o>> /\ At(o) = WokenAt(q)
        /\ k.stat[o] = "SUSPEND" /\ OnNone(k, o) /\ o \notin Timed(k)
  BY DEF PpOK, PpSleepers
<1>2. Head(<<o>>) = o /\ Tail(<<o>>) = <<>> OBVIOUS
<1> QED BY <1>1, <1>2

\* The two fields of a wait queue.
PpOneQueue(q, f, w) ==
  /\ pipe'.flag = [pipe.flag EXCEPT ![q] = f]
  /\ pipe'.waiting = [pipe.waiting EXCEPT ![q] = w]

LEMMA PpWakeup ==
  ASSUME PpOK, NEW t, NEW l, PpCaller(t, l), NEW m, m # "pp_sched", isr' = isr,
         NEW q \in Queue, rt_wqueue_wakeup(t, q, m)
  PROVE  /\ PpMove(t, m, ToSet(pipe.waiting[q])) /\ PpSameData /\ PpSameMutex
         /\ PpOneQueue(q, TRUE, <<>>)
         /\ On(k', PipeLock) = On(k, PipeLock)
<1>1. /\ Resting(k) /\ k.nest = 0 /\ PpFields /\ PipeLock \in WaitList
      /\ t \in Thread \ {Idle} /\ k.stat[t] = "READY" /\ k.cur = t
      /\ On(k, PipeLock) \subseteq Thread
  BY PpFacts DEF PpOK, PpCaller
<1>2. /\ {"fifo", "readers", "writers", "ref_count", "owner", "original", "flag", "waiting"} \subseteq DOMAIN pipe
      /\ pipe.owner \in (Thread \ {Idle}) \cup {NoThread} /\ pipe.original \in Prio
      /\ pipe.flag \in [Queue -> BOOLEAN] /\ pipe.waiting \in [Queue -> Seq(Thread)]
  BY <1>1 DEF PpFields
<1>3. CASE pipe.waiting[q] = <<>>
  <2>1. pipe' = [pipe EXCEPT !.flag[q] = TRUE] /\ GoOn(t, m) /\ k' = k
    BY <1>3 DEF rt_wqueue_wakeup, Flagged
  <2>2. /\ DOMAIN pipe' = DOMAIN pipe /\ PpSameData /\ PpSameMutex
        /\ pipe'.flag = [pipe.flag EXCEPT ![q] = TRUE] /\ pipe'.waiting = pipe.waiting
    BY <1>2, <2>1 DEF PpSameData, PpSameMutex
  <2>3. PpOneQueue(q, TRUE, <<>>) BY <1>2, <1>3, <2>2 DEF PpOneQueue
  <2>4. ToSet(pipe.waiting[q]) = {} BY <1>3 DEF ToSet
  <2>5. PpMove(t, m, {}) BY <1>2, <2>1, <2>2, PpStays DEF PpSameMutex
  <2> QED BY <2>1, <2>2, <2>3, <2>4, <2>5
<1>4. CASE pipe.waiting[q] # <<>>
  <2> DEFINE o == Head(pipe.waiting[q])
             r == rt_thread_resume(k, o)
  <2>1. /\ k' = r /\ Switch(t, m)
        /\ pipe' = [[pipe EXCEPT !.flag[q] = TRUE] EXCEPT !.waiting[q] = Tail(@)]
    BY <1>4 DEF rt_wqueue_wakeup, Flagged
  <2>2. /\ o \in Thread /\ pipe.waiting[q] = <<o>> /\ Tail(pipe.waiting[q]) = <<>>
        /\ k.stat[o] = "SUSPEND" /\ OnNone(k, o)
    BY <1>4, PpSleeper
  <2> HIDE DEF o
  <2>3. /\ Resting(r) /\ Same(k, r, {o}) /\ Kept(k, r) /\ OnNone(r, o)
    BY <1>1, <2>2, ResumeRests
  <2> HIDE DEF r
  <2>4. /\ DOMAIN pipe' = DOMAIN pipe /\ PpSameData /\ PpSameMutex /\ PpOneQueue(q, TRUE, <<>>)
    <3> DEFINE a == [pipe EXCEPT !.flag[q] = TRUE]
    <3>1. /\ DOMAIN a = DOMAIN pipe /\ a.fifo = pipe.fifo /\ a.readers = pipe.readers
          /\ a.writers = pipe.writers /\ a.ref_count = pipe.ref_count /\ a.owner = pipe.owner
          /\ a.original = pipe.original /\ a.waiting = pipe.waiting
          /\ a.flag = [pipe.flag EXCEPT ![q] = TRUE]
      BY <1>2
    <3>2. pipe' = [a EXCEPT !.waiting[q] = Tail(@)] BY <2>1
    <3> HIDE DEF a
    <3>3. /\ DOMAIN pipe' = DOMAIN a /\ pipe'.fifo = a.fifo /\ pipe'.readers = a.readers
          /\ pipe'.writers = a.writers /\ pipe'.ref_count = a.ref_count /\ pipe'.owner = a.owner
          /\ pipe'.original = a.original /\ pipe'.flag = a.flag
          /\ pipe'.waiting = [a.waiting EXCEPT ![q] = Tail(a.waiting[q])]
      BY <1>2, <3>1, <3>2
    <3> QED BY <2>2, <3>1, <3>3 DEF PpSameData, PpSameMutex, PpOneQueue
  <2>5. ToSet(pipe.waiting[q]) = {o} BY <2>2 DEF ToSet
  <2>6. o # t BY <1>1, <2>2
  <2>7. r.nest = 0 /\ r.cur = t /\ r.stat[t] = "READY" BY <1>1, <2>3, <2>6 DEF Kept, Same
  <2>8. PpMove(t, m, {o})
    <3>1. {o} \in SUBSET Thread BY <2>2
    <3> QED BY <1>2, <2>1, <2>3, <2>4, <2>7, <3>1, PpMoves DEF PpSameMutex
  <2>9. On(r, PipeLock) = On(k, PipeLock)
    <3>1. On(r, PipeLock) \subseteq Thread BY <1>1, <2>3, RestingFields
    <3> QED BY <1>1, <2>2, <2>3, <3>1 DEF Same, OnNone
  <2> QED BY <2>1, <2>4, <2>5, <2>8, <2>9
<1> QED BY <1>3, <1>4

\* The one thread that may wait in a queue.
LEMMA PpOne ==
  ASSUME PpPlaces, NEW q \in Queue, NEW t \in Thread, NEW u \in Thread,
         At(t) \in Before(q) \cup {WokenAt(q)}, At(u) \in Before(q) \cup {WokenAt(q)}
  PROVE  t = u
<1>1. Before(q) \cup {WokenAt(q)} \subseteq CallOf(q) BY DEF Before, WokenAt, CallOf, Queue
<1>2. /\ Uses(q, t) /\ Uses(q, u) /\ t \notin NonBlock /\ u \notin NonBlock
      /\ "pipe" \in Prog[t] /\ "pipe" \in Prog[u]
  <2>1. At(t) \notin {"run", "sched"} /\ At(u) \notin {"run", "sched"} BY <1>1 DEF CallOf
  <2> QED BY <1>1, <2>1 DEF PpPlaces, PpPlace
<1> DEFINE m == IF q = "reader" THEN "r" ELSE "w"
           S == {v \in Thread : "pipe" \in Prog[v] /\ v \notin NonBlock /\ Access[v] \in {m, "rw"}}
<1>3. t \in S /\ u \in S BY <1>2 DEF Uses, Reads, Writes
<1>4. m \in {"r", "w"} OBVIOUS
<1>5. Cardinality(S) <= 1 BY <1>4, PipeAssumption
<1>6. S \subseteq Thread OBVIOUS
<1> HIDE DEF S
<1>7. IsFiniteSet(S) BY <1>6, FS_Subset, IpcAssumption
<1>8. {t, u} \subseteq S /\ Cardinality({t, u}) <= Cardinality(S) BY <1>3, <1>7, FS_Subset
<1>9. Cardinality({t, u}) \in Nat /\ Cardinality(S) \in Nat
  BY <1>7, <1>8, FS_Subset, FS_CardinalityType
<1>10. SUFFICES ASSUME t # u PROVE FALSE OBVIOUS
<1>11. Cardinality({t, u}) = 2
  <2>1. IsFiniteSet({t}) /\ Cardinality({t}) = 1 BY FS_Singleton
  <2>2. u \notin {t} BY <1>10
  <2>3. Cardinality({t} \cup {u}) = Cardinality({t}) + 1 BY <2>1, <2>2, FS_AddElement
  <2>4. {t, u} = {t} \cup {u} OBVIOUS
  <2> QED BY <2>1, <2>3, <2>4
<1> QED BY <1>5, <1>8, <1>9, <1>11

\* A thread that runs where one waits is the only one that could be asleep
\* there, and is awake.
LEMMA PpAlone ==
  ASSUME PpOK, NEW q \in Queue, NEW t, NEW l \in Before(q) \cup {WokenAt(q)}, PpCaller(t, l)
  PROVE  /\ pipe.waiting[q] = <<>>
         /\ \A u \in Thread \ {t} : At(u) \notin Before(q) \cup {WokenAt(q)}
<1>1. t \in Thread /\ At(t) = l /\ k.stat[t] = "READY" /\ PpPlaces BY DEF PpCaller, PpOK
<1>2. \A u \in Thread \ {t} : At(u) \notin Before(q) \cup {WokenAt(q)} BY <1>1, PpOne
<1>3. SUFFICES ASSUME pipe.waiting[q] # <<>> PROVE FALSE BY <1>2
<1>4. PICK o \in Thread : At(o) = WokenAt(q) /\ k.stat[o] = "SUSPEND" BY <1>3, PpSleeper
<1> QED BY <1>1, <1>2, <1>4

LEMMA PpWait ==
  ASSUME PpOK, NEW t, NEW l, PpCaller(t, l), isr' = isr, NEW q \in Queue, pipe.waiting[q] = <<>>,
         NEW n, n # "pp_sched", rt_wqueue_wait(t, q, WokenAt(q), n)
  PROVE  /\ PpSameData /\ PpSameMutex /\ On(k', PipeLock) = On(k, PipeLock)
         /\ \/ pipe.flag[q] /\ PpMove(t, n, {}) /\ PpOneQueue(q, FALSE, <<>>)
            \/ /\ ~pipe.flag[q] /\ PpMove(t, WokenAt(q), {t}) /\ PpOneQueue(q, FALSE, <<t>>)
               /\ k'.stat[t] = "SUSPEND" /\ OnNone(k', t) /\ t \notin Timed(k')
<1>1. /\ Resting(k) /\ k.nest = 0 /\ PpFields /\ PipeLock \in WaitList
      /\ t \in Thread \ {Idle} /\ k.stat[t] = "READY" /\ k.cur = t
      /\ OnNone(k, t) /\ On(k, PipeLock) \subseteq Thread
  BY PpFacts DEF PpOK, PpCaller
<1>2. /\ {"fifo", "readers", "writers", "ref_count", "owner", "original", "flag", "waiting"} \subseteq DOMAIN pipe
      /\ pipe.owner \in (Thread \ {Idle}) \cup {NoThread} /\ pipe.original \in Prio
      /\ pipe.flag \in [Queue -> BOOLEAN] /\ pipe.waiting \in [Queue -> Seq(Thread)]
  BY <1>1 DEF PpFields
<1>3. CASE pipe.flag[q]
  <2>1. pipe' = [pipe EXCEPT !.flag[q] = FALSE] /\ GoOn(t, n) /\ k' = k
    BY <1>3 DEF rt_wqueue_wait
  <2>2. /\ DOMAIN pipe' = DOMAIN pipe /\ PpSameData /\ PpSameMutex
        /\ pipe'.flag = [pipe.flag EXCEPT ![q] = FALSE] /\ pipe'.waiting = pipe.waiting
    BY <1>2, <2>1 DEF PpSameData, PpSameMutex
  <2>3. PpOneQueue(q, FALSE, <<>>) BY <1>2, <2>2 DEF PpOneQueue
  <2>4. PpMove(t, n, {}) BY <1>2, <2>1, <2>2, PpStays DEF PpSameMutex
  <2> QED BY <1>3, <2>1, <2>2, <2>3, <2>4
<1>4. CASE ~pipe.flag[q]
  <2> DEFINE r == rt_timer_stop(rt_schedule_remove_thread([k EXCEPT !.stat[t] = "SUSPEND"], t), t)
  <2>1. pipe' = [pipe EXCEPT !.waiting[q] = Append(@, t)] /\ Switch(t, WokenAt(q)) /\ k' = r
    BY <1>1, <1>4 DEF rt_wqueue_wait, rt_thread_suspend
  <2>2. /\ DOMAIN pipe' = DOMAIN pipe /\ PpSameData /\ PpSameMutex /\ pipe'.flag = pipe.flag
        /\ pipe'.waiting = [pipe.waiting EXCEPT ![q] = Append(pipe.waiting[q], t)]
    BY <1>2, <2>1 DEF PpSameData, PpSameMutex
  <2>3. PpOneQueue(q, FALSE, <<t>>) BY <1>2, <1>4, <2>2 DEF PpOneQueue
  <2>4. /\ KernelOK(r) /\ Kept(k, r) /\ r.stat[t] = "SUSPEND" /\ Off(r, t) /\ t \notin Timed(r)
        /\ Same(k, r, {t}) /\ Unmoved(k, r)
    BY <1>1, SuspendThread, SuspendSame DEF Resting
  <2> HIDE DEF r
  <2>5. Resting(r) /\ r.nest = 0 /\ r.cur = t BY <1>1, <2>4, OneSleeps DEF Kept
  <2>6. OnNone(r, t) BY <2>4 DEF Off, OnNone, ListHead
  <2>7. On(r, PipeLock) = On(k, PipeLock) BY <1>1, <2>4 DEF Unmoved, On
  <2>8. PpMove(t, WokenAt(q), {t})
    <3>1. {t} \in SUBSET Thread BY <1>1
    <3>2. GoOn(t, WokenAt(q)) => FALSE
      <4>1. t \in DOMAIN pc BY <1>1 DEF PpFields
      <4> QED BY <2>1, <4>1 DEF GoOn, Switch, Goto, WokenAt
    <3>3. WokenAt(q) # "pp_sched" BY DEF WokenAt
    <3> QED BY <1>2, <2>1, <2>2, <2>4, <2>5, <2>6, <3>1, <3>2, <3>3, PpMoves DEF PpSameMutex
  <2> QED BY <1>4, <2>1, <2>2, <2>3, <2>4, <2>6, <2>7, <2>8
<1> QED BY <1>3, <1>4

LEMMA PpWoken ==
  ASSUME PpOK, NEW t, NEW l, PpCaller(t, l), isr' = isr, NEW q \in Queue, pipe.waiting[q] = <<>>,
         NEW n, n # "pp_sched", Woken(t, q, n)
  PROVE  PpMove(t, n, {}) /\ PpSameData /\ PpSameMutex /\ PpOneQueue(q, FALSE, <<>>) /\ k' = k
<1>1. PpFields BY PpFacts
<1>2. /\ {"fifo", "readers", "writers", "ref_count", "owner", "original", "flag", "waiting"} \subseteq DOMAIN pipe
      /\ pipe.owner \in (Thread \ {Idle}) \cup {NoThread} /\ pipe.original \in Prio
      /\ pipe.flag \in [Queue -> BOOLEAN] /\ pipe.waiting \in [Queue -> Seq(Thread)]
  BY <1>1 DEF PpFields
<1> DEFINE f == [pipe.flag EXCEPT ![q] = FALSE]
           w == [pipe.waiting EXCEPT ![q] = Without(@, t)]
<1>3. pipe' = [pipe EXCEPT !.flag = f, !.waiting = w] /\ GoOn(t, n) /\ k' = k
  BY DEF Woken
<1>4. w = [pipe.waiting EXCEPT ![q] = <<>>]
  <2>1. Without(<<>>, t) = <<>> BY DEF Without, ToSet
  <2> QED BY <1>2, <2>1
<1> HIDE DEF f, w
<1>5. /\ DOMAIN pipe' = DOMAIN pipe /\ PpSameData /\ PpSameMutex
      /\ pipe'.flag = f /\ pipe'.waiting = w
  BY <1>2, <1>3 DEF PpSameData, PpSameMutex
<1>6. PpOneQueue(q, FALSE, <<>>) BY <1>4, <1>5 DEF PpOneQueue, f
<1>7. PpMove(t, n, {}) BY <1>2, <1>3, <1>5, PpStays DEF PpSameMutex
<1> QED BY <1>3, <1>5, <1>6, <1>7

-----------------------------------------------------------------------------
(* What keeps each part of PpOK.                                           *)

LEMMA PpNeedsKept ==
  ASSUME NEW q \in Queue, PpNeeds(q), NEW t \in Thread, NEW l,
         At(t)' = l, \A u \in Thread : u # t => At(u)' = At(u),
         pipe'.waiting[q] # <<>> => Wanting(q),
         pipe.flag[q] => pipe'.flag[q],
         Available(q)' => Available(q) \/ l \in Filling(q),
         Others(q)' = 0 => Others(q) = 0 \/ l \in Closing(q),
         l \in Before(q) => At(t) \in Before(q) \/ (~Available(q)' /\ Others(q)' # 0),
         At(t) \in Filling(q) => l \in Filling(q),
         At(t) \in Closing(q) => l \in Closing(q) \/ Others(q)' # 0
  PROVE  PpNeeds(q)'
<1>1. SUFFICES ASSUME Wanting(q)'
               PROVE  /\ Available(q)' => pipe'.flag[q] \/ OnTheWay(Filling(q))'
                      /\ Others(q)' = 0 => pipe'.flag[q] \/ OnTheWay(Closing(q))'
  BY DEF PpNeeds
<1>2. OnTheWay(Filling(q)) => OnTheWay(Filling(q))' BY DEF OnTheWay
<1>3. Others(q)' = 0 /\ OnTheWay(Closing(q)) => OnTheWay(Closing(q))' BY DEF OnTheWay
<1>4. l \in Filling(q) => OnTheWay(Filling(q))' BY DEF OnTheWay
<1>5. l \in Closing(q) => OnTheWay(Closing(q))' BY DEF OnTheWay
<1>6. Wanting(q) \/ (~Available(q)' /\ Others(q)' # 0)
  <2>1. CASE pipe'.waiting[q] # <<>> BY <2>1
  <2>2. CASE OnTheWay(Before(q))'
    <3>1. PICK u \in Thread : At(u)' \in Before(q) BY <2>2 DEF OnTheWay
    <3>2. CASE u = t BY <3>1, <3>2 DEF Wanting, OnTheWay
    <3>3. CASE u # t BY <3>1, <3>3 DEF Wanting, OnTheWay
    <3> QED BY <3>2, <3>3
  <2> QED BY <1>1, <2>1, <2>2 DEF Wanting
<1> QED BY <1>2, <1>3, <1>4, <1>5, <1>6 DEF PpNeeds

\* A queue whose flag is up, or in which nobody waits.
LEMMA PpNeedsFlag ==
  ASSUME NEW q \in Queue, pipe'.flag[q]
  PROVE  PpNeeds(q)'
  BY DEF PpNeeds

LEMMA PpNeedsNobody ==
  ASSUME NEW q \in Queue, pipe'.waiting[q] = <<>>, \A u \in Thread : At(u)' \notin Before(q)
  PROVE  PpNeeds(q)'
  BY DEF PpNeeds, Wanting, OnTheWay

LEMMA PpSleepersKept ==
  ASSUME PpOK, NEW t \in Thread, k.stat[t] = "READY", NEW l, NEW M,
         Same(k, k', M), At(t)' = l, \A u \in Thread : u # t => At(u)' = At(u),
         \A q \in Queue :
           \/ pipe'.waiting[q] = <<>>
           \/ /\ pipe'.waiting[q] = pipe.waiting[q] /\ pipe'.flag[q] = pipe.flag[q]
              /\ \A u \in M : u = t \/ u \notin ToSet(pipe.waiting[q])
           \/ /\ pipe'.waiting[q] = <<t>> /\ ~pipe'.flag[q] /\ l = WokenAt(q)
              /\ k'.stat[t] = "SUSPEND" /\ OnNone(k', t) /\ t \notin Timed(k')
  PROVE  PpSleepers'
<1> SUFFICES ASSUME NEW q \in Queue
             PROVE  \/ pipe'.waiting[q] = <<>>
                    \/ ~pipe'.flag[q] /\ \E u \in Thread :
                         /\ pipe'.waiting[q] = <<u>> /\ At(u)' = WokenAt(q)
                         /\ k'.stat[u] = "SUSPEND" /\ OnNone(k', u) /\ u \notin Timed(k')
  BY DEF PpSleepers
<1>1. CASE pipe'.waiting[q] = <<>> BY <1>1
<1>2. CASE /\ pipe'.waiting[q] = pipe.waiting[q] /\ pipe'.flag[q] = pipe.flag[q]
           /\ \A u \in M : u = t \/ u \notin ToSet(pipe.waiting[q])
           /\ pipe.waiting[q] # <<>>
  <2>1. PICK u \in Thread :
          /\ ~pipe.flag[q] /\ pipe.waiting[q] = <<u>> /\ At(u) = WokenAt(q)
          /\ k.stat[u] = "SUSPEND" /\ OnNone(k, u) /\ u \notin Timed(k)
    BY <1>2 DEF PpOK, PpSleepers
  <2>2. u # t BY <2>1
  <2>3. u \in ToSet(pipe.waiting[q]) BY <2>1 DEF ToSet
  <2>4. u \notin M BY <1>2, <2>2, <2>3
  <2>5. k'.stat[u] = "SUSPEND" /\ OnNone(k', u) /\ u \notin Timed(k') BY <2>1, <2>4 DEF Same, OnNone
  <2> QED BY <1>2, <2>1, <2>2, <2>5
<1>3. CASE /\ pipe'.waiting[q] = <<t>> /\ ~pipe'.flag[q] /\ l = WokenAt(q)
           /\ k'.stat[t] = "SUSPEND" /\ OnNone(k', t) /\ t \notin Timed(k')
  BY <1>3
<1> QED BY <1>1, <1>2, <1>3

\* Nobody opens or closes the pipe.
LEMMA PpCountsKept ==
  ASSUME PpOK, NEW t \in Thread, NEW l, At(t)' = l, \A u \in Thread : u # t => At(u)' = At(u),
         opened' = opened, opened \subseteq Thread, l \in Past <=> At(t) \in Past,
         pipe'.readers = pipe.readers, pipe'.writers = pipe.writers
  PROVE  PpCounts'
<1>1. \A q \in Queue : Users(q)' = Users(q) BY DEF Users, Uses, Reads, Writes
<1>2. PpCounts BY DEF PpOK
<1> QED BY <1>1, <1>2 DEF PpCounts, Queue

LEMMA PpPlacesKept ==
  ASSUME PpOK, NEW t \in Thread, NEW l, At(t)' = l, \A u \in Thread : u # t => At(u)' = At(u),
         opened' \subseteq opened \cup {t}, PpPlace(t, l), "pipe" \in Prog[t]
  PROVE  PpPlaces'
<1>1. PpPlaces BY DEF PpOK
<1> QED BY <1>1 DEF PpPlaces, PpPlace, Uses, Reads, Writes

\* A thread moves and neither the data nor who has the pipe open changes.
LEMMA PpKept ==
  ASSUME PpOK, opened \subseteq Thread, NEW t, NEW l, PpCaller(t, l), NEW m, NEW M, PpMove(t, m, M),
         opened' = opened, pipe'.readers = pipe.readers, pipe'.writers = pipe.writers,
         m \in Past <=> l \in Past, PpPlace(t, m), "pipe" \in Prog[t],
         pipe'.flag \in [Queue -> BOOLEAN], pipe'.waiting \in [Queue -> Seq(Thread)],
         PpSleepers', PpOwned', \A q \in Queue : PpNeeds(q)'
  PROVE  PpOK'
<1>1. /\ t \in Thread /\ At(t) = l /\ At(t)' = m /\ \A u \in Thread : u # t => At(u)' = At(u)
  BY DEF PpCaller, PpMove
<1>2. PpPlaces' BY <1>1, PpPlacesKept
<1>3. PpCounts' BY <1>1, PpCountsKept
<1>4. PpFields' BY PpFacts DEF PpMove, PpFields
<1> QED BY <1>2, <1>3, <1>4 DEF PpOK, PpMove

\* From one label to another without a wake-up.
Pairs(q, l, m) ==
  /\ m \in Before(q) => l \in Before(q)
  /\ l \in Filling(q) => m \in Filling(q)
  /\ l \in Closing(q) => m \in Closing(q)

\* The fields that the two queues look at stay.
LEMMA PpPair ==
  ASSUME PpOK, NEW q \in Queue, NEW t, NEW l, PpCaller(t, l), NEW m, NEW M, PpMove(t, m, M),
         PpSameData, pipe'.waiting[q] = pipe.waiting[q], pipe'.flag[q] = pipe.flag[q],
         Pairs(q, l, m)
  PROVE  PpNeeds(q)'
<1>1. /\ t \in Thread /\ At(t) = l /\ At(t)' = m /\ \A u \in Thread : u # t => At(u)' = At(u)
      /\ PpNeeds(q)
  BY DEF PpCaller, PpMove, PpOK
<1>2. (Available(q)' <=> Available(q)) /\ Others(q)' = Others(q)
  BY DEF PpSameData, Available, Others
<1>3. pipe'.waiting[q] # <<>> => Wanting(q) BY DEF Wanting
<1> QED BY <1>1, <1>2, <1>3, PpNeedsKept DEF Pairs

\* The mutex is taken or given up between two labels.
LEMMA PpMutexStep ==
  ASSUME PpOK, opened \subseteq Thread, NEW t, NEW l, PpCaller(t, l), NEW m, m # "pp_sched",
         isr' = isr, Lock(t, m) \/ Unlock(t, m), opened' = opened,
         m \in Past <=> l \in Past, PpPlace(t, m), "pipe" \in Prog[t],
         \A q \in Queue : Pairs(q, l, m)
  PROVE  PpOK'
<1>1. PICK M : /\ PpMove(t, m, M) /\ M \subseteq On(k, PipeLock) \cup {t}
               /\ PpSameData /\ PpSameQueues /\ PpOwned'
  <2>1. CASE Lock(t, m)
    <3>1. PpMove(t, m, {t}) /\ PpSameData /\ PpSameQueues /\ PpOwned' BY <2>1, PpLock
    <3> QED BY <3>1
  <2>2. CASE Unlock(t, m)
    <3>1. PICK M : /\ PpMove(t, m, M) /\ M \subseteq On(k, PipeLock)
                   /\ PpSameData /\ PpSameQueues /\ PpOwned'
      BY <2>2, PpUnlock
    <3> QED BY <3>1
  <2> QED BY <2>1, <2>2
<1>2. /\ pipe'.flag = pipe.flag /\ pipe'.waiting = pipe.waiting
      /\ pipe'.readers = pipe.readers /\ pipe'.writers = pipe.writers
  BY <1>1 DEF PpSameQueues, PpSameData
<1>3. pipe.flag \in [Queue -> BOOLEAN] /\ pipe.waiting \in [Queue -> Seq(Thread)] BY DEF PpOK, PpFields
<1>4. \A q \in Queue : PpNeeds(q)' BY <1>1, <1>2, PpPair
<1>5. PpSleepers'
  <2>1. ASSUME NEW q \in Queue, NEW u \in M, u \in ToSet(pipe.waiting[q]) PROVE u = t
    <3>1. pipe.waiting[q] # <<>> BY <2>1 DEF ToSet
    <3>2. PICK o \in Thread : pipe.waiting[q] = <<o>> /\ OnNone(k, o) BY <3>1, PpSleeper
    <3>3. u = o BY <2>1, <3>2 DEF ToSet
    <3>4. o \notin On(k, PipeLock) BY <3>2, PpFacts DEF OnNone
    <3> QED BY <1>1, <3>3, <3>4
  <2>2. /\ t \in Thread /\ k.stat[t] = "READY" /\ Same(k, k', M)
        /\ At(t)' = m /\ \A u \in Thread : u # t => At(u)' = At(u)
    BY <1>1 DEF PpMove, PpCaller
  <2> QED BY <1>2, <2>1, <2>2, PpSleepersKept
<1> QED BY <1>1, <1>2, <1>3, <1>4, <1>5, PpKept

\* A wait queue is woken.
LEMMA PpWakeStep ==
  ASSUME PpOK, opened \subseteq Thread, NEW t, NEW l, PpCaller(t, l), NEW m, m # "pp_sched",
         isr' = isr, NEW q \in Queue, rt_wqueue_wakeup(t, q, m), opened' = opened,
         m \in Past <=> l \in Past, PpPlace(t, m), "pipe" \in Prog[t],
         \A p \in Queue : p # q => Pairs(p, l, m)
  PROVE  PpOK'
<1> DEFINE M == ToSet(pipe.waiting[q])
<1>1. /\ PpMove(t, m, M) /\ PpSameData /\ PpSameMutex /\ PpOneQueue(q, TRUE, <<>>)
      /\ On(k', PipeLock) = On(k, PipeLock)
  BY PpWakeup
<1>2. pipe.flag \in [Queue -> BOOLEAN] /\ pipe.waiting \in [Queue -> Seq(Thread)] BY DEF PpOK, PpFields
<1>3. /\ pipe'.flag \in [Queue -> BOOLEAN] /\ pipe'.waiting \in [Queue -> Seq(Thread)]
      /\ pipe'.flag[q] = TRUE /\ pipe'.waiting[q] = <<>>
      /\ \A p \in Queue : p # q => pipe'.flag[p] = pipe.flag[p] /\ pipe'.waiting[p] = pipe.waiting[p]
  BY <1>1, <1>2 DEF PpOneQueue
<1>4. \A p \in Queue : PpNeeds(p)'
  <2>1. PpNeeds(q)' BY <1>3, PpNeedsFlag
  <2>2. \A p \in Queue : p # q => PpNeeds(p)' BY <1>1, <1>3, PpPair
  <2> QED BY <2>1, <2>2
<1>5. PpSleepers'
  <2>1. ASSUME NEW p \in Queue, p # q, NEW u \in M PROVE u \notin ToSet(pipe.waiting[p])
    <3>1. SUFFICES ASSUME u \in ToSet(pipe.waiting[p]) PROVE FALSE OBVIOUS
    <3>2. pipe.waiting[p] # <<>> /\ pipe.waiting[q] # <<>> BY <2>1, <3>1 DEF ToSet
    <3>3. PICK o \in Thread : pipe.waiting[p] = <<o>> /\ At(o) = WokenAt(p) BY <3>2, PpSleeper
    <3>4. PICK v \in Thread : pipe.waiting[q] = <<v>> /\ At(v) = WokenAt(q) BY <3>2, PpSleeper
    <3>5. u = o /\ u = v BY <2>1, <3>1, <3>3, <3>4 DEF ToSet
    <3> QED BY <2>1, <3>3, <3>4, <3>5 DEF WokenAt, Queue
  <2>2. /\ t \in Thread /\ k.stat[t] = "READY" /\ Same(k, k', M)
        /\ At(t)' = m /\ \A u \in Thread : u # t => At(u)' = At(u)
    BY <1>1 DEF PpMove, PpCaller
  <2> HIDE DEF M
  <2> QED BY <1>3, <2>1, <2>2, PpSleepersKept
<1>6. PpOwned' BY <1>1 DEF PpOK, PpOwned, PpSameMutex
<1>7. pipe'.readers = pipe.readers /\ pipe'.writers = pipe.writers BY <1>1 DEF PpSameData
<1> HIDE DEF M
<1> QED BY <1>1, <1>3, <1>4, <1>5, <1>6, <1>7, PpKept

\* A thread begins to wait, finds the wake-up, or has been woken.
LEMMA PpWaitStep ==
  ASSUME PpOK, opened \subseteq Thread, NEW q \in Queue, NEW t,
         NEW l \in Before(q) \cup {WokenAt(q)}, PpCaller(t, l),
         isr' = isr, opened' = opened, NEW n, n \notin Past, n # "pp_sched",
         PpPlace(t, n), "pipe" \in Prog[t], n \notin Before(q),
         \A p \in Queue : p # q => Pairs(p, l, n) /\ Pairs(p, l, WokenAt(q)),
         \/ l \in Before(q) /\ rt_wqueue_wait(t, q, WokenAt(q), n)
         \/ Woken(t, q, n)
  PROVE  PpOK'
<1>1. pipe.waiting[q] = <<>> /\ \A u \in Thread \ {t} : At(u) \notin Before(q) \cup {WokenAt(q)}
  BY PpAlone
<1>2. pipe.flag \in [Queue -> BOOLEAN] /\ pipe.waiting \in [Queue -> Seq(Thread)] BY DEF PpOK, PpFields
<1>3. l \notin Past /\ WokenAt(q) \notin Past /\ WokenAt(q) \notin Before(q)
  BY DEF Before, WokenAt, Past, Queue
<1>4. PpPlace(t, WokenAt(q))
  <2>1. t \in Thread /\ At(t) = l BY DEF PpCaller
  <2>2. PpPlace(t, l) BY <2>1 DEF PpOK, PpPlaces
  <2>3. WokenAt(q) \in CallOf(q) /\ l \in CallOf(q) BY DEF Before, WokenAt, CallOf, Queue
  <2>4. \A p \in Queue : p # q => WokenAt(q) \notin CallOf(p) /\ WokenAt(q) \notin Before(p) \cup {WokenAt(p)}
    BY DEF Before, WokenAt, CallOf, Queue
  <2> QED BY <2>2, <2>3, <2>4 DEF PpPlace
\* Both ways the thread goes on, and the queue has its flag down.
<1>5. ASSUME NEW m, m = n \/ m = WokenAt(q), NEW M, M = {} \/ M = {t}, PpMove(t, m, M), PpSameData, PpSameMutex,
             On(k', PipeLock) = On(k, PipeLock), NEW w, PpOneQueue(q, FALSE, w), w \in Seq(Thread),
             PpNeeds(q)',
             \/ w = <<>>
             \/ w = <<t>> /\ m = WokenAt(q) /\ k'.stat[t] = "SUSPEND" /\ OnNone(k', t) /\ t \notin Timed(k')
      PROVE  PpOK'
  <2>1. /\ pipe'.flag \in [Queue -> BOOLEAN] /\ pipe'.waiting \in [Queue -> Seq(Thread)]
        /\ pipe'.flag[q] = FALSE /\ pipe'.waiting[q] = w
        /\ \A p \in Queue : p # q => pipe'.flag[p] = pipe.flag[p] /\ pipe'.waiting[p] = pipe.waiting[p]
    BY <1>2, <1>5 DEF PpOneQueue
  <2>2. \A p \in Queue : PpNeeds(p)'
    <3>1. \A p \in Queue : p # q => PpNeeds(p)' BY <1>5, <2>1, PpPair
    <3> QED BY <1>5, <3>1
  <2>3. PpSleepers'
    <3>1. /\ t \in Thread /\ k.stat[t] = "READY" /\ Same(k, k', M)
          /\ At(t)' = m /\ \A u \in Thread : u # t => At(u)' = At(u)
      BY <1>5 DEF PpMove, PpCaller
    <3>2. \A u \in M : u = t BY <1>5
    <3> QED BY <1>5, <2>1, <3>1, <3>2, PpSleepersKept
  <2>4. PpOwned' BY <1>5 DEF PpOK, PpOwned, PpSameMutex
  <2>5. /\ pipe'.readers = pipe.readers /\ pipe'.writers = pipe.writers
        /\ m \in Past <=> l \in Past
        /\ PpPlace(t, m)
    BY <1>3, <1>4, <1>5 DEF PpSameData
  <2> QED BY <1>5, <2>1, <2>2, <2>3, <2>4, <2>5, PpKept
\* If it goes on to n, nobody waits.
<1>6. ASSUME PpMove(t, n, {}), PpOneQueue(q, FALSE, <<>>)
      PROVE  PpNeeds(q)'
  <2>1. pipe'.waiting[q] = <<>> BY <1>2, <1>6 DEF PpOneQueue
  <2>2. \A u \in Thread : At(u)' \notin Before(q)
    <3>1. /\ t \in Thread /\ At(t)' = n /\ \A u \in Thread : u # t => At(u)' = At(u)
      BY <1>6 DEF PpMove, PpCaller
    <3> QED BY <1>1, <3>1
  <2> QED BY <2>1, <2>2, PpNeedsNobody
<1>7. <<>> \in Seq(Thread) /\ t \in Thread /\ <<t>> \in Seq(Thread) BY DEF PpCaller
<1>8. CASE l \in Before(q) /\ rt_wqueue_wait(t, q, WokenAt(q), n)
  <2>1. /\ PpSameData /\ PpSameMutex /\ On(k', PipeLock) = On(k, PipeLock)
        /\ \/ pipe.flag[q] /\ PpMove(t, n, {}) /\ PpOneQueue(q, FALSE, <<>>)
           \/ /\ ~pipe.flag[q] /\ PpMove(t, WokenAt(q), {t}) /\ PpOneQueue(q, FALSE, <<t>>)
              /\ k'.stat[t] = "SUSPEND" /\ OnNone(k', t) /\ t \notin Timed(k')
    BY <1>1, <1>8, PpWait
  <2>2. CASE pipe.flag[q] /\ PpMove(t, n, {}) /\ PpOneQueue(q, FALSE, <<>>)
    <3>1. PpNeeds(q)' BY <1>6, <2>2
    <3> QED BY <1>5, <1>7, <2>1, <2>2, <3>1
  <2>3. CASE /\ ~pipe.flag[q] /\ PpMove(t, WokenAt(q), {t}) /\ PpOneQueue(q, FALSE, <<t>>)
             /\ k'.stat[t] = "SUSPEND" /\ OnNone(k', t) /\ t \notin Timed(k')
    <3>1. PpNeeds(q)'
      <4>1. /\ t \in Thread /\ At(t) = l /\ At(t)' = WokenAt(q) /\ PpNeeds(q)
            /\ \A u \in Thread : u # t => At(u)' = At(u)
        BY <2>3 DEF PpCaller, PpMove, PpOK
      <4>2. (Available(q)' <=> Available(q)) /\ Others(q)' = Others(q)
        BY <2>1 DEF PpSameData, Available, Others
      <4>3. Wanting(q) BY <1>8, <4>1 DEF Wanting, OnTheWay
      <4>4. l \notin Filling(q) /\ l \notin Closing(q)
        BY <1>8 DEF Before, Filling, Closing, Queue
      <4> QED BY <1>3, <2>3, <4>1, <4>2, <4>3, <4>4, PpNeedsKept
    <3> QED BY <1>5, <1>7, <2>1, <2>3, <3>1
  <2> QED BY <2>1, <2>2, <2>3
<1>9. CASE Woken(t, q, n)
  <2>1. PpMove(t, n, {}) /\ PpSameData /\ PpSameMutex /\ PpOneQueue(q, FALSE, <<>>) /\ k' = k
    BY <1>1, <1>9, PpWoken
  <2>2. PpNeeds(q)' BY <1>6, <2>1
  <2> QED BY <1>5, <1>7, <2>1, <2>2
<1> QED BY <1>8, <1>9

-----------------------------------------------------------------------------
(* The actions under the mutex.                                            *)

\* A read leaves no more data than there was.
LEMMA GetLess ==
  ASSUME NEW rb, RingOK(rb), NEW n \in Nat
  PROVE  DataLen(RingGet(rb, n)) > 0 => DataLen(rb) > 0
<1> DEFINE g == RingGet(rb, n)
           a == RingData(rb, n)
<1>1. RingOK(g) /\ a \o Content(g) = Content(rb) BY GetOK
<1>2. rb \in Ring /\ g \in Ring BY <1>1 DEF RingOK
<1>3. /\ Content(rb) \in Seq(Byte) /\ Len(Content(rb)) = DataLen(rb) /\ DataLen(rb) \in Nat
      /\ Content(g) \in Seq(Byte) /\ Len(Content(g)) = DataLen(g) /\ DataLen(g) \in Nat
  <2> HIDE DEF g
  <2>1. DataLen(rb) \in 0..BufSize /\ DataLen(g) \in 0..BufSize /\ BufSize \in Nat
    BY <1>2, LenOK, RingAssumption
  <2> QED BY <1>2, <2>1, ContentOK
<1>4. a \in Seq(Byte)
  <2>1. Lower(n, DataLen(rb)) \in 0..Len(Content(rb)) BY <1>3 DEF Lower
  <2> HIDE DEF g
  <2> QED BY <1>3, <2>1, PartOK DEF RingData
<1> HIDE DEF g, a
<1>5. Len(a \o Content(g)) = Len(a) + Len(Content(g)) /\ Len(a) \in Nat BY <1>3, <1>4
<1> QED BY <1>1, <1>3, <1>5 DEF g

\* A write that cannot write all fills the pipe.
LEMMA PutMore ==
  ASSUME NEW rb, RingOK(rb), NEW data \in Seq(Byte)
  PROVE  LET p == RingPut(rb, data)
         IN  /\ SpaceLen(p) > 0 => SpaceLen(rb) > 0
             /\ Lower(Len(data), SpaceLen(rb)) # Len(data) => ~(SpaceLen(p) > 0)
<1> DEFINE n == Lower(Len(data), SpaceLen(rb))
           part == SubSeq(data, 1, n)
<1>1. rb \in Ring BY DEF RingOK
<1>2. DataLen(rb) \in 0..BufSize /\ BufSize \in Nat BY <1>1, LenOK, RingAssumption
<1>3. n \in 0..Len(data) /\ n <= SpaceLen(rb) /\ (n # Len(data) => n = SpaceLen(rb))
  BY <1>2 DEF Lower, SpaceLen
<1>4. part \in Seq(Byte) /\ Len(part) = n BY <1>3, PartOK
<1>5. DataLen(Written(rb, part)) = DataLen(rb) + n
  <2> HIDE DEF part, n
  <2> QED BY <1>3, <1>4, WrittenLen
<1>6. RingPut(rb, data) = Written(rb, part) BY DEF RingPut
<1> HIDE DEF part, n
<1>7. SpaceLen(RingPut(rb, data)) = SpaceLen(rb) - n BY <1>2, <1>3, <1>5, <1>6 DEF SpaceLen
<1> QED BY <1>2, <1>3, <1>7 DEF n, SpaceLen

\* A step under the mutex that changes neither the kernel nor the queues.
LEMMA PpBodyKept ==
  ASSUME PpOK, NEW t, NEW l, PpCaller(t, l), NEW m, m # "pp_sched",
         isr' = isr, GoOn(t, m), k' = k,
         DOMAIN pipe' = DOMAIN pipe, PpSameMutex, PpSameQueues
  PROVE  /\ PpMove(t, m, {}) /\ PpSleepers' /\ PpOwned'
         /\ pipe'.flag \in [Queue -> BOOLEAN] /\ pipe'.waiting \in [Queue -> Seq(Thread)]
         /\ \A q \in Queue : (pipe'.waiting[q] # <<>> => Wanting(q)) /\ (pipe.flag[q] => pipe'.flag[q])
<1>1. /\ pipe.owner \in (Thread \ {Idle}) \cup {NoThread} /\ pipe.original \in Prio
      /\ pipe.flag \in [Queue -> BOOLEAN] /\ pipe.waiting \in [Queue -> Seq(Thread)]
  BY DEF PpOK, PpFields
<1>2. PpMove(t, m, {}) BY <1>1, PpStays DEF PpSameMutex
<1>3. PpSleepers'
  <2>1. /\ t \in Thread /\ k.stat[t] = "READY" /\ Same(k, k', {})
        /\ At(t)' = m /\ \A u \in Thread : u # t => At(u)' = At(u)
    BY <1>2 DEF PpMove, PpCaller
  <2> QED BY <2>1, PpSleepersKept DEF PpSameQueues
<1>4. PpOwned' BY DEF PpOK, PpOwned, PpSameMutex
<1> QED BY <1>1, <1>2, <1>3, <1>4 DEF PpSameQueues, Wanting

\* Nobody is in a call of a pipe that nobody has open.
LEMMA PpUnopened ==
  ASSUME PipeOK, PpOK, NEW t \in Thread, opened \subseteq {t}, NEW q \in Queue, PpNeeds(q),
         At(t) \notin Before(q) \cup {WokenAt(q)}
  PROVE  pipe.waiting[q] = <<>> /\ \A u \in Thread : At(u) \notin Before(q)
<1>1. Before(q) \cup {WokenAt(q)} \subseteq InCall BY DEF Before, WokenAt, InCall, Queue
<1>2. \A u \in Thread : At(u) \notin Before(q) \cup {WokenAt(q)} BY <1>1 DEF PipeOK
<1>3. pipe.waiting[q] = <<>> BY <1>2, PpSleeper
<1> QED BY <1>2, <1>3

LEMMA PpOpenBody ==
  ASSUME PipeOK, PpOK, NEW t \in Thread, OpenBody(t)
  PROVE  PpOK'
<1>1. /\ Running(t, "open_in") /\ opened' = opened \cup {t} /\ isr' = isr /\ GoOn(t, "pp_out") /\ k' = k
      /\ pipe' = [pipe EXCEPT !.fifo = IF pipe.ref_count = 0 THEN NewRing ELSE @,
                              !.readers = @ + OneIf(Reads(t)), !.writers = @ + OneIf(Writes(t)),
                              !.ref_count = @ + 1]
  BY DEF OpenBody
<1>2. PpCaller(t, "open_in") BY <1>1, PpCallers DEF PpEnters
<1>3. /\ {"fifo", "readers", "writers", "ref_count", "owner", "original", "flag", "waiting"} \subseteq DOMAIN pipe
      /\ PpCounts
  BY PpFacts DEF PpOK
<1>4. /\ DOMAIN pipe' = DOMAIN pipe /\ PpSameMutex /\ PpSameQueues
      /\ pipe'.fifo = (IF pipe.ref_count = 0 THEN NewRing ELSE pipe.fifo)
      /\ pipe'.readers = pipe.readers + OneIf(Reads(t)) /\ pipe'.writers = pipe.writers + OneIf(Writes(t))
  BY <1>1, <1>3 DEF PpSameMutex, PpSameQueues
<1>5. /\ PpMove(t, "pp_out", {}) /\ PpSleepers' /\ PpOwned'
      /\ pipe'.flag \in [Queue -> BOOLEAN] /\ pipe'.waiting \in [Queue -> Seq(Thread)]
      /\ \A q \in Queue : (pipe'.waiting[q] # <<>> => Wanting(q)) /\ (pipe.flag[q] => pipe'.flag[q])
  BY <1>1, <1>2, <1>4, PpBodyKept
<1>6. /\ At(t) = "open_in" /\ At(t)' = "pp_out" /\ \A u \in Thread : u # t => At(u)' = At(u)
  BY <1>2, <1>5 DEF PpCaller, PpMove
<1>7. "pipe" \in Prog[t] BY <1>6 DEF PpOK, PpPlaces, PpPlace
<1>8. PpPlaces'
  <2>1. opened' \subseteq opened \cup {t} BY <1>1
  <2>2. PpPlace(t, "pp_out") BY <1>7 DEF PpPlace, CallOf, Before, WokenAt
  <2> QED BY <1>6, <1>7, <2>1, <2>2, PpPlacesKept
<1>9. t \notin opened /\ opened \subseteq Thread /\ IsFiniteSet(opened) BY <1>6 DEF PipeOK
<1>10. \A q \in Queue : /\ IsFiniteSet(Users(q)) /\ Cardinality(Users(q)) \in Nat
                        /\ Cardinality(Users(q)') = Cardinality(Users(q)) + OneIf(Uses(q, t))
  <2> SUFFICES ASSUME NEW q \in Queue
               PROVE  /\ IsFiniteSet(Users(q)) /\ Cardinality(Users(q)) \in Nat
                      /\ Cardinality(Users(q)') = Cardinality(Users(q)) + OneIf(Uses(q, t))
    OBVIOUS
  <2>1. IsFiniteSet(Users(q)) /\ Cardinality(Users(q)) \in Nat /\ t \notin Users(q)
    BY <1>9, FS_Subset, FS_CardinalityType DEF Users
  <2>2. Users(q)' = IF Uses(q, t) THEN Users(q) \cup {t} ELSE Users(q)
    BY <1>1, <1>6, <1>9 DEF Users, Past, Uses, Reads, Writes
  <2>3. CASE Uses(q, t)
    <3>1. Cardinality(Users(q) \cup {t}) = Cardinality(Users(q)) + 1 BY <2>1, FS_AddElement
    <3> QED BY <2>1, <2>2, <2>3, <3>1 DEF OneIf
  <2>4. CASE ~Uses(q, t) BY <2>1, <2>2, <2>4 DEF OneIf
  <2> QED BY <2>3, <2>4
<1>11. PpCounts'
  <2>1. "reader" \in Queue /\ "writer" \in Queue BY DEF Queue
  <2> QED BY <1>3, <1>4, <1>10, <2>1 DEF PpCounts, Uses
<1>12. \A q \in Queue : PpNeeds(q)'
  <2> SUFFICES ASSUME NEW q \in Queue PROVE PpNeeds(q)' OBVIOUS
  <2>1. PpNeeds(q) BY DEF PpOK
  <2>2. CASE pipe.ref_count = 0
    <3>1. opened = {} BY <2>2, <1>9, FS_EmptySet DEF PipeOK
    <3>2. At(t) \notin Before(q) \cup {WokenAt(q)} BY <1>6 DEF Before, WokenAt
    <3>3. pipe.waiting[q] = <<>> /\ \A u \in Thread : At(u) \notin Before(q)
      BY <2>1, <3>1, <3>2, PpUnopened
    <3>4. pipe'.waiting[q] = <<>> /\ \A u \in Thread : At(u)' \notin Before(q)
      BY <1>4, <1>6, <3>3 DEF PpSameQueues, Before
    <3> QED BY <3>4, PpNeedsNobody
  <2>3. CASE pipe.ref_count # 0
    <3>1. Available(q)' <=> Available(q) BY <1>4, <2>3 DEF Available
    <3>2. Others(q)' = 0 => Others(q) = 0
      <4>1. "reader" \in Queue /\ "writer" \in Queue BY DEF Queue
      <4>2. pipe.readers \in Nat /\ pipe.writers \in Nat BY <1>3, <1>10, <4>1 DEF PpCounts
      <4> QED BY <1>4, <4>2 DEF Others, OneIf
    <3>3. "pp_out" \notin Before(q) /\ "open_in" \notin Filling(q) /\ "open_in" \notin Closing(q)
      BY DEF Before, Filling, Closing
    <3> QED BY <1>5, <1>6, <2>1, <3>1, <3>2, <3>3, PpNeedsKept
  <2> QED BY <2>2, <2>3
<1>13. PpFields' BY <1>3, <1>5 DEF PpMove, PpFields
<1> QED BY <1>5, <1>8, <1>11, <1>12, <1>13 DEF PpOK, PpMove

LEMMA PpCloseBody ==
  ASSUME PipeOK, PpOK, NEW t \in Thread, CloseBody(t)
  PROVE  PpOK'
<1>1. /\ Running(t, "close_in") /\ opened' = opened /\ isr' = isr /\ GoOn(t, "close_readers") /\ k' = k
      /\ pipe' = [pipe EXCEPT !.readers = @ - OneIf(Reads(t)), !.writers = @ - OneIf(Writes(t))]
  BY DEF CloseBody
<1>2. PpCaller(t, "close_in") BY <1>1, PpCallers DEF PpEnters
<1>3. /\ {"fifo", "readers", "writers", "ref_count", "owner", "original", "flag", "waiting"} \subseteq DOMAIN pipe
      /\ PpCounts
  BY PpFacts DEF PpOK
<1>4. /\ DOMAIN pipe' = DOMAIN pipe /\ PpSameMutex /\ PpSameQueues /\ pipe'.fifo = pipe.fifo
      /\ pipe'.readers = pipe.readers - OneIf(Reads(t)) /\ pipe'.writers = pipe.writers - OneIf(Writes(t))
  BY <1>1, <1>3 DEF PpSameMutex, PpSameQueues
<1>5. /\ PpMove(t, "close_readers", {}) /\ PpSleepers' /\ PpOwned'
      /\ pipe'.flag \in [Queue -> BOOLEAN] /\ pipe'.waiting \in [Queue -> Seq(Thread)]
      /\ \A q \in Queue : (pipe'.waiting[q] # <<>> => Wanting(q)) /\ (pipe.flag[q] => pipe'.flag[q])
  BY <1>1, <1>2, <1>4, PpBodyKept
<1>6. /\ At(t) = "close_in" /\ At(t)' = "close_readers" /\ \A u \in Thread : u # t => At(u)' = At(u)
  BY <1>2, <1>5 DEF PpCaller, PpMove
<1>7. "pipe" \in Prog[t] BY <1>6 DEF PpOK, PpPlaces, PpPlace
<1>8. PpPlaces'
  <2>1. opened' \subseteq opened \cup {t} BY <1>1
  <2>2. PpPlace(t, "close_readers") BY <1>7 DEF PpPlace, CallOf, Before, WokenAt
  <2> QED BY <1>6, <1>7, <2>1, <2>2, PpPlacesKept
<1>9. t \in opened /\ opened \subseteq Thread /\ IsFiniteSet(opened) BY <1>6 DEF PipeOK, InCall
<1>10. \A q \in Queue : /\ Cardinality(Users(q)) \in Nat
                        /\ Cardinality(Users(q)') = Cardinality(Users(q)) - OneIf(Uses(q, t))
  <2> SUFFICES ASSUME NEW q \in Queue
               PROVE  /\ Cardinality(Users(q)) \in Nat
                      /\ Cardinality(Users(q)') = Cardinality(Users(q)) - OneIf(Uses(q, t))
    OBVIOUS
  <2>1. IsFiniteSet(Users(q)) /\ Cardinality(Users(q)) \in Nat
    BY <1>9, FS_Subset, FS_CardinalityType DEF Users
  <2>2. t \in Users(q) <=> Uses(q, t) BY <1>6, <1>9 DEF Users, Past
  <2>3. Users(q)' = Users(q) \ {t} BY <1>1, <1>6, <1>9 DEF Users, Past, Uses, Reads, Writes
  <2>4. CASE Uses(q, t) BY <2>1, <2>2, <2>3, <2>4, FS_RemoveElement DEF OneIf
  <2>5. CASE ~Uses(q, t)
    <3>1. Users(q)' = Users(q) BY <2>2, <2>3, <2>5
    <3> QED BY <2>1, <2>5, <3>1 DEF OneIf
  <2> QED BY <2>4, <2>5
<1>11. PpCounts'
  <2>1. "reader" \in Queue /\ "writer" \in Queue BY DEF Queue
  <2> QED BY <1>3, <1>4, <1>10, <2>1 DEF PpCounts, Uses
<1>12. \A q \in Queue : PpNeeds(q)'
  <2> SUFFICES ASSUME NEW q \in Queue PROVE PpNeeds(q)' OBVIOUS
  <2>1. PpNeeds(q) BY DEF PpOK
  <2>2. Available(q)' <=> Available(q) BY <1>4 DEF Available
  <2>3. /\ "close_readers" \in Closing(q) /\ "close_readers" \notin Before(q)
        /\ "close_in" \notin Filling(q) /\ "close_in" \notin Closing(q)
    BY DEF Before, Filling, Closing
  <2> QED BY <1>5, <1>6, <2>1, <2>2, <2>3, PpNeedsKept
<1>13. PpFields' BY <1>3, <1>5 DEF PpMove, PpFields
<1> QED BY <1>5, <1>8, <1>11, <1>12, <1>13 DEF PpOK, PpMove

LEMMA PpCloseEnd ==
  ASSUME PipeOK, PpOK, NEW t \in Thread, CloseEnd(t)
  PROVE  PpOK'
<1>1. /\ Running(t, "close_end") /\ opened' = opened \ {t} /\ isr' = isr /\ GoOn(t, "pp_out") /\ k' = k
      /\ pipe' = [pipe EXCEPT !.fifo = IF pipe.ref_count = 1 THEN NoFifo ELSE @, !.ref_count = @ - 1]
  BY DEF CloseEnd
<1>2. PpCaller(t, "close_end") BY <1>1, PpCallers DEF PpEnters
<1>3. /\ {"fifo", "readers", "writers", "ref_count", "owner", "original", "flag", "waiting"} \subseteq DOMAIN pipe
      /\ PpCounts
  BY PpFacts DEF PpOK
<1>4. /\ DOMAIN pipe' = DOMAIN pipe /\ PpSameMutex /\ PpSameQueues
      /\ pipe'.fifo = (IF pipe.ref_count = 1 THEN NoFifo ELSE pipe.fifo)
      /\ pipe'.readers = pipe.readers /\ pipe'.writers = pipe.writers
  BY <1>1, <1>3 DEF PpSameMutex, PpSameQueues
<1>5. /\ PpMove(t, "pp_out", {}) /\ PpSleepers' /\ PpOwned'
      /\ pipe'.flag \in [Queue -> BOOLEAN] /\ pipe'.waiting \in [Queue -> Seq(Thread)]
      /\ \A q \in Queue : (pipe'.waiting[q] # <<>> => Wanting(q)) /\ (pipe.flag[q] => pipe'.flag[q])
  BY <1>1, <1>2, <1>4, PpBodyKept
<1>6. /\ At(t) = "close_end" /\ At(t)' = "pp_out" /\ \A u \in Thread : u # t => At(u)' = At(u)
  BY <1>2, <1>5 DEF PpCaller, PpMove
<1>7. "pipe" \in Prog[t] BY <1>6 DEF PpOK, PpPlaces, PpPlace
<1>8. PpPlaces'
  <2>1. opened' \subseteq opened \cup {t} BY <1>1
  <2>2. PpPlace(t, "pp_out") BY <1>7 DEF PpPlace, CallOf, Before, WokenAt
  <2> QED BY <1>6, <1>7, <2>1, <2>2, PpPlacesKept
<1>9. t \in opened /\ opened \subseteq Thread /\ IsFiniteSet(opened) /\ pipe.ref_count = Cardinality(opened)
  BY <1>6 DEF PipeOK, InCall
<1>10. PpCounts'
  <2>1. \A q \in Queue : Users(q)' = Users(q)
    BY <1>1, <1>6, <1>9 DEF Users, Past, Uses, Reads, Writes
  <2> QED BY <1>3, <1>4, <2>1 DEF PpCounts, Queue
<1>11. \A q \in Queue : PpNeeds(q)'
  <2> SUFFICES ASSUME NEW q \in Queue PROVE PpNeeds(q)' OBVIOUS
  <2>1. PpNeeds(q) BY DEF PpOK
  <2>2. CASE pipe.ref_count = 1
    <3>1. opened \subseteq {t}
      <4>0. Cardinality(opened) = 1 BY <1>9, <2>2
      <4>1. IsFiniteSet(opened \ {t}) /\ Cardinality(opened \ {t}) = 0
        BY <1>9, <4>0, FS_RemoveElement
      <4>2. opened \ {t} = {} BY <4>1, FS_EmptySet
      <4> QED BY <4>2
    <3>2. At(t) \notin Before(q) \cup {WokenAt(q)} BY <1>6 DEF Before, WokenAt
    <3>3. pipe.waiting[q] = <<>> /\ \A u \in Thread : At(u) \notin Before(q)
      BY <2>1, <3>1, <3>2, PpUnopened
    <3>4. pipe'.waiting[q] = <<>> /\ \A u \in Thread : At(u)' \notin Before(q)
      BY <1>4, <1>6, <3>3 DEF PpSameQueues, Before
    <3> QED BY <3>4, PpNeedsNobody
  <2>3. CASE pipe.ref_count # 1
    <3>1. (Available(q)' <=> Available(q)) /\ Others(q)' = Others(q)
      BY <1>4, <2>3 DEF Available, Others
    <3>2. "pp_out" \notin Before(q) /\ "close_end" \notin Filling(q) /\ "close_end" \notin Closing(q)
      BY DEF Before, Filling, Closing
    <3> QED BY <1>5, <1>6, <2>1, <3>1, <3>2, PpNeedsKept
  <2> QED BY <2>2, <2>3
<1>12. PpFields' BY <1>3, <1>5 DEF PpMove, PpFields
<1> QED BY <1>5, <1>8, <1>10, <1>11, <1>12 DEF PpOK, PpMove

\* A reader finds data, or goes on to wait for a writer.
LEMMA PpReadBody ==
  ASSUME PipeOK, PpOK, NEW t \in Thread, NEW count \in 1..BufSize, ReadBody(t, count)
  PROVE  PpOK'
<1>1. Running(t, "read_in") /\ opened' = opened /\ isr' = isr /\ k' = k BY DEF ReadBody
<1>2. PpCaller(t, "read_in") BY <1>1, PpCallers DEF PpEnters
<1>3. /\ {"fifo", "readers", "writers", "ref_count", "owner", "original", "flag", "waiting"} \subseteq DOMAIN pipe
      /\ opened \subseteq Thread
  BY PpFacts DEF PipeOK
<1>4. RingOK(pipe.fifo) BY <1>1, InsideOpened DEF InCall
<1>5. At(t) = "read_in" BY <1>2 DEF PpCaller
<1>6. PpPlace(t, "read_in") /\ "pipe" \in Prog[t] /\ Reads(t)
  <2>1. PpPlace(t, "read_in") BY <1>5 DEF PpOK, PpPlaces
  <2> QED BY <2>1 DEF PpPlace, CallOf, Queue, Uses
<1>7. ASSUME NEW l \in {"pp_out", "read_done", "read_out"}, GoOn(t, l),
             DOMAIN pipe' = DOMAIN pipe, PpSameMutex, PpSameQueues,
             pipe'.readers = pipe.readers, pipe'.writers = pipe.writers,
             DataLen(pipe'.fifo) > 0 => DataLen(pipe.fifo) > 0,
             pipe'.fifo = pipe.fifo \/ l = "read_done",
             l = "read_out" => t \notin NonBlock /\ ~(DataLen(pipe'.fifo) > 0) /\ pipe.writers # 0
      PROVE  PpOK'
  <2>1. l # "pp_sched" /\ l \notin Past BY DEF Past
  <2>2. /\ PpMove(t, l, {}) /\ PpSleepers' /\ PpOwned'
        /\ pipe'.flag \in [Queue -> BOOLEAN] /\ pipe'.waiting \in [Queue -> Seq(Thread)]
        /\ \A q \in Queue : (pipe'.waiting[q] # <<>> => Wanting(q)) /\ (pipe.flag[q] => pipe'.flag[q])
    BY <1>1, <1>2, <1>7, <2>1, PpBodyKept
  <2>3. At(t)' = l /\ \A u \in Thread : u # t => At(u)' = At(u) BY <2>2 DEF PpMove
  <2>4. PpPlace(t, l) BY <1>6, <1>7 DEF PpPlace, CallOf, Before, WokenAt, Queue, Uses
  <2>5. \A q \in Queue : PpNeeds(q)'
    <3> SUFFICES ASSUME NEW q \in Queue PROVE PpNeeds(q)' OBVIOUS
    <3>1. PpNeeds(q) BY DEF PpOK
    <3>2. Others(q)' = Others(q) BY <1>7 DEF Others
    <3>3. Available(q)' => Available(q) \/ l \in Filling(q)
      BY <1>7 DEF Available, Filling, Queue
    <3>4. l \in Before(q) => ~Available(q)' /\ Others(q)' # 0
      BY <1>7 DEF Before, Available, Others, Queue
    <3>5. "read_in" \notin Filling(q) /\ "read_in" \notin Closing(q) BY DEF Filling, Closing
    <3> QED BY <1>5, <2>2, <2>3, <3>1, <3>2, <3>3, <3>4, <3>5, PpNeedsKept
  <2>6. "read_in" \notin Past BY DEF Past
  <2> QED BY <1>1, <1>2, <1>3, <1>6, <1>7, <2>1, <2>2, <2>4, <2>5, <2>6, PpKept
<1>8. CASE pipe.writers = 0
  <2>1. GoOn(t, "pp_out") /\ pipe' = pipe BY <1>8 DEF ReadBody
  <2> QED BY <1>7, <2>1 DEF PpSameMutex, PpSameQueues
<1>9. CASE pipe.writers # 0 /\ DataLen(pipe.fifo) > 0
  <2>1. pipe' = [pipe EXCEPT !.fifo = RingGet(@, count)] /\ GoOn(t, "read_done")
    BY <1>9 DEF ReadBody
  <2>2. /\ DOMAIN pipe' = DOMAIN pipe /\ PpSameMutex /\ PpSameQueues
        /\ pipe'.readers = pipe.readers /\ pipe'.writers = pipe.writers
    BY <1>3, <2>1 DEF PpSameMutex, PpSameQueues
  <2> QED BY <1>7, <1>9, <2>1, <2>2
<1>10. CASE pipe.writers # 0 /\ ~(DataLen(pipe.fifo) > 0)
  <2>1. pipe' = pipe /\ GoOn(t, IF t \in NonBlock THEN "pp_out" ELSE "read_out")
    BY <1>10 DEF ReadBody
  <2>2. PpSameMutex /\ PpSameQueues BY <2>1 DEF PpSameMutex, PpSameQueues
  <2>3. CASE t \in NonBlock BY <1>7, <2>1, <2>2, <2>3
  <2>4. CASE t \notin NonBlock BY <1>7, <1>10, <2>1, <2>2, <2>4
  <2> QED BY <2>3, <2>4
<1> QED BY <1>8, <1>9, <1>10

\* A writer puts what there is room for, or goes on to wait for a reader.
LEMMA PpWriteBody ==
  ASSUME PipeOK, PpOK, NEW t \in Thread, NEW data \in Payload, WriteBody(t, data)
  PROVE  PpOK'
<1> DEFINE n == Lower(rest[t], SpaceLen(pipe.fifo))
           part == SubSeq(data, 1, rest[t])
<1>1. PICK l0 \in {"write_in", "write_again"} : Running(t, l0) BY DEF WriteBody
<1>2. opened' = opened /\ isr' = isr /\ k' = k BY DEF WriteBody
<1>3. PpCaller(t, l0) BY <1>1, PpCallers DEF PpEnters
<1>4. /\ {"fifo", "readers", "writers", "ref_count", "owner", "original", "flag", "waiting"} \subseteq DOMAIN pipe
      /\ opened \subseteq Thread
  BY PpFacts DEF PipeOK
<1>5. RingOK(pipe.fifo) BY <1>1, InsideOpened DEF InCall
<1>6. At(t) = l0 BY <1>3 DEF PpCaller
<1>7. PpPlace(t, l0) /\ "pipe" \in Prog[t] /\ Writes(t)
  <2>1. PpPlace(t, l0) BY <1>6 DEF PpOK, PpPlaces
  <2> QED BY <2>1 DEF PpPlace, CallOf, Queue, Uses
<1>8. ASSUME NEW l \in {"pp_out", "write_end", "write_out"}, GoOn(t, l),
             DOMAIN pipe' = DOMAIN pipe, PpSameMutex, PpSameQueues,
             pipe'.readers = pipe.readers, pipe'.writers = pipe.writers,
             SpaceLen(pipe'.fifo) > 0 => SpaceLen(pipe.fifo) > 0,
             pipe'.fifo = pipe.fifo \/ l # "pp_out",
             l = "write_out" => t \notin NonBlock /\ ~(SpaceLen(pipe'.fifo) > 0) /\ pipe.readers # 0
      PROVE  PpOK'
  <2>1. l # "pp_sched" /\ l \notin Past BY DEF Past
  <2>2. /\ PpMove(t, l, {}) /\ PpSleepers' /\ PpOwned'
        /\ pipe'.flag \in [Queue -> BOOLEAN] /\ pipe'.waiting \in [Queue -> Seq(Thread)]
        /\ \A q \in Queue : (pipe'.waiting[q] # <<>> => Wanting(q)) /\ (pipe.flag[q] => pipe'.flag[q])
    BY <1>2, <1>3, <1>8, <2>1, PpBodyKept
  <2>3. At(t)' = l /\ \A u \in Thread : u # t => At(u)' = At(u) BY <2>2 DEF PpMove
  <2>4. PpPlace(t, l) BY <1>7, <1>8 DEF PpPlace, CallOf, Before, WokenAt, Queue, Uses
  <2>5. \A q \in Queue : PpNeeds(q)'
    <3> SUFFICES ASSUME NEW q \in Queue PROVE PpNeeds(q)' OBVIOUS
    <3>1. PpNeeds(q) BY DEF PpOK
    <3>2. Others(q)' = Others(q) BY <1>8 DEF Others
    <3>3. Available(q)' => Available(q) \/ l \in Filling(q)
      BY <1>8 DEF Available, Filling, Queue
    <3>4. l \in Before(q) => ~Available(q)' /\ Others(q)' # 0
      BY <1>8 DEF Before, Available, Others, Queue
    <3>5. l0 \notin Filling(q) /\ l0 \notin Closing(q) BY DEF Filling, Closing
    <3> QED BY <1>6, <2>2, <2>3, <3>1, <3>2, <3>3, <3>4, <3>5, PpNeedsKept
  <2>6. l0 \notin Past BY DEF Past
  <2> QED BY <1>2, <1>3, <1>4, <1>7, <1>8, <2>1, <2>2, <2>4, <2>5, <2>6, PpKept
<1>9. CASE pipe.readers = 0
  <2>1. pipe' = pipe /\ (GoOn(t, "pp_out") \/ GoOn(t, "write_end")) BY <1>9 DEF WriteBody
  <2>2. PpSameMutex /\ PpSameQueues BY <2>1 DEF PpSameMutex, PpSameQueues
  <2> QED BY <1>8, <2>1, <2>2
<1>10. CASE pipe.readers # 0
  <2>1. /\ pipe' = [pipe EXCEPT !.fifo = RingPut(@, part)]
        /\ IF n = rest[t] \/ t \in NonBlock THEN GoOn(t, "write_end") ELSE GoOn(t, "write_out")
    BY <1>10 DEF WriteBody
  <2>2. rest[t] \in 0..(BufSize + 1) BY DEF PipeOK
  <2>3. part \in Seq(Byte) /\ Len(part) = rest[t]
    <3>1. data \in Seq(Byte) /\ Len(data) = BufSize + 1 BY PipeAssumption, RingAssumption
    <3> QED BY <2>2, <3>1, PartOK
  <2> HIDE DEF part
  <2>4. /\ SpaceLen(RingPut(pipe.fifo, part)) > 0 => SpaceLen(pipe.fifo) > 0
        /\ n # rest[t] => ~(SpaceLen(RingPut(pipe.fifo, part)) > 0)
    BY <1>5, <2>3, PutMore
  <2> HIDE DEF n
  <2>5. /\ DOMAIN pipe' = DOMAIN pipe /\ PpSameMutex /\ PpSameQueues
        /\ pipe'.readers = pipe.readers /\ pipe'.writers = pipe.writers
        /\ pipe'.fifo = RingPut(pipe.fifo, part)
    BY <1>4, <2>1 DEF PpSameMutex, PpSameQueues
  <2>6. CASE n = rest[t] \/ t \in NonBlock BY <1>8, <2>1, <2>4, <2>5, <2>6
  <2>7. CASE n # rest[t] /\ t \notin NonBlock BY <1>8, <1>10, <2>1, <2>4, <2>5, <2>7
  <2> QED BY <2>6, <2>7
<1> QED BY <1>9, <1>10

\* A close wakes the readers if there is no writer left, and the reverse.
LEMMA PpCloseWake ==
  ASSUME PipeOK, PpOK, NEW t \in Thread, CloseWake(t)
  PROVE  PpOK'
<1>1. opened' = opened /\ isr' = isr BY DEF CloseWake
<1>2. opened \subseteq Thread BY DEF PipeOK
<1>3. PICK l, m, q :
        /\ q \in Queue /\ Running(t, l) /\ l \in Closing(q) /\ m \notin Closing("reader")
        /\ \/ l = "close_readers" /\ m = "close_writers" /\ q = "reader"
           \/ l = "close_writers" /\ m = "close_end" /\ q = "writer"
        /\ \/ Others(q) = 0 /\ rt_wqueue_wakeup(t, q, m)
           \/ Others(q) # 0 /\ GoOn(t, m) /\ k' = k /\ pipe' = pipe
  BY DEF CloseWake, Closing, Others, Queue
<1>4. PpCaller(t, l) /\ m # "pp_sched" BY <1>3, PpCallers DEF PpEnters
<1>5. At(t) = l BY <1>4 DEF PpCaller
<1>6. "pipe" \in Prog[t] BY <1>3, <1>5 DEF PpOK, PpPlaces, PpPlace
<1>7. PpPlace(t, m) /\ m \in Past /\ l \in Past
  BY <1>3, <1>6 DEF PpPlace, CallOf, Before, WokenAt, Past
<1>8. \A p \in Queue : p # q => Pairs(p, l, m)
  BY <1>3 DEF Pairs, Before, Filling, Closing, Queue
<1>9. CASE rt_wqueue_wakeup(t, q, m)
  BY <1>1, <1>2, <1>3, <1>4, <1>6, <1>7, <1>8, <1>9, PpWakeStep
<1>10. CASE Others(q) # 0 /\ GoOn(t, m) /\ k' = k /\ pipe' = pipe
  <2>1. PpSameMutex /\ PpSameQueues BY <1>10 DEF PpSameMutex, PpSameQueues
  <2>2. /\ PpMove(t, m, {}) /\ PpSleepers' /\ PpOwned'
        /\ pipe'.flag \in [Queue -> BOOLEAN] /\ pipe'.waiting \in [Queue -> Seq(Thread)]
        /\ \A p \in Queue : (pipe'.waiting[p] # <<>> => Wanting(p)) /\ (pipe.flag[p] => pipe'.flag[p])
    BY <1>1, <1>4, <1>10, <2>1, PpBodyKept
  <2>3. At(t)' = m /\ \A u \in Thread : u # t => At(u)' = At(u) BY <2>2 DEF PpMove
  <2>4. \A p \in Queue : PpNeeds(p)'
    <3> SUFFICES ASSUME NEW p \in Queue PROVE PpNeeds(p)' OBVIOUS
    <3>1. PpNeeds(p) BY DEF PpOK
    <3>2. (Available(p)' <=> Available(p)) /\ Others(p)' = Others(p) BY <1>10 DEF Available, Others
    <3>3. m \notin Before(p) /\ l \notin Filling(p) BY <1>3 DEF Before, Filling
    <3>4. l \in Closing(p) => m \in Closing(p) \/ Others(p)' # 0 BY <1>8, <1>10, <3>2 DEF Pairs
    <3> QED BY <1>5, <2>2, <2>3, <3>1, <3>2, <3>3, <3>4, PpNeedsKept
  <2>5. pipe'.readers = pipe.readers /\ pipe'.writers = pipe.writers BY <1>10
  <2> QED BY <1>1, <1>2, <1>4, <1>6, <1>7, <2>2, <2>4, <2>5, PpKept
<1> QED BY <1>3, <1>9, <1>10

-----------------------------------------------------------------------------
(* The other actions of Pipe.                                              *)

LEMMA PpEntries ==
  ASSUME PipeOK, PpOK, NEW t \in Thread,
         Open(t) \/ Close(t) \/ Read(t) \/ \E count \in 1..(BufSize + 1) : Write(t, count)
  PROVE  PpOK'
<1>1. PICK m \in {"open_in", "close_in", "read_in", "write_in"} :
        /\ Calls(t, "pipe") /\ Lock(t, m) /\ isr' = isr /\ opened' = opened
        /\ m = "read_in" => Reads(t)
        /\ m = "write_in" => Writes(t)
  BY DEF Open, Close, Read, Write
<1>2. Running(t, "run") /\ "pipe" \in Prog[t] BY <1>1 DEF Calls
<1>3. PpCaller(t, "run")
  <2>1. Prog[t] # {} BY <1>2
  <2> QED BY <1>2, <2>1, PpCallers DEF PpEnters
<1>4. m # "pp_sched" /\ m \notin Past /\ "run" \notin Past BY DEF Past
<1>5. PpPlace(t, m) BY <1>1, <1>2 DEF PpPlace, CallOf, Before, WokenAt, Queue, Uses
<1>6. \A q \in Queue : Pairs(q, "run", m) BY DEF Pairs, Before, Filling, Closing, Queue
<1>7. opened \subseteq Thread BY DEF PipeOK
<1> QED BY <1>1, <1>2, <1>3, <1>4, <1>5, <1>6, <1>7, PpMutexStep

\* The mutex is given up, or taken again after a wait.
LEMMA PpLocks ==
  ASSUME PipeOK, PpOK, NEW t \in Thread, PipeUnlock(t) \/ PipeLocked(t)
  PROVE  PpOK'
<1>1. isr' = isr /\ opened' = opened BY DEF PipeUnlock, PipeLocked
<1>2. PICK l, m : /\ Running(t, l) /\ (Lock(t, m) \/ Unlock(t, m))
                  /\ <<l, m>> \in {<<"pp_out", "run">>, <<"read_out", "read_idle">>,
                                   <<"write_out", "write_idle">>, <<"write_end", "write_last">>,
                                   <<"read_lock", "read_in">>, <<"write_lock", "write_again">>}
  BY DEF PipeUnlock, PipeLocked
<1>3. PpCaller(t, l) BY <1>2, PpCallers DEF PpEnters
<1>4. PpPlace(t, l) BY <1>3 DEF PpCaller, PpOK, PpPlaces
<1>5. "pipe" \in Prog[t] BY <1>2, <1>4 DEF PpPlace
<1>6. PpPlace(t, m) BY <1>2, <1>4, <1>5 DEF PpPlace, CallOf, Before, WokenAt, Queue
<1>7. m # "pp_sched" /\ m \notin Past /\ l \notin Past BY <1>2 DEF Past
<1>8. \A q \in Queue : Pairs(q, l, m) BY <1>2 DEF Pairs, Before, Filling, Closing, Queue
<1>9. opened \subseteq Thread BY DEF PipeOK
<1> QED BY <1>1, <1>2, <1>3, <1>5, <1>6, <1>7, <1>8, <1>9, PpMutexStep

LEMMA PpWakes ==
  ASSUME PipeOK, PpOK, NEW t \in Thread, ReadWake(t) \/ WriteWake(t)
  PROVE  PpOK'
<1>1. isr' = isr /\ opened' = opened BY DEF ReadWake, WriteWake
<1>2. PICK l, m, q :
        /\ q \in Queue /\ Running(t, l) /\ rt_wqueue_wakeup(t, q, m)
        /\ <<l, m, q>> \in {<<"read_done", "pp_out", "writer">>, <<"read_idle", "read_wait", "writer">>,
                            <<"write_idle", "write_wait", "reader">>, <<"write_last", "run", "reader">>}
  BY DEF ReadWake, WriteWake, Queue
<1>3. PpCaller(t, l) BY <1>2, PpCallers DEF PpEnters
<1>4. PpPlace(t, l) BY <1>3 DEF PpCaller, PpOK, PpPlaces
<1>5. "pipe" \in Prog[t] BY <1>2, <1>4 DEF PpPlace
<1>6. PpPlace(t, m) BY <1>2, <1>4, <1>5 DEF PpPlace, CallOf, Before, WokenAt, Queue
<1>7. m # "pp_sched" /\ m \notin Past /\ l \notin Past BY <1>2 DEF Past
<1>8. \A p \in Queue : p # q => Pairs(p, l, m) BY <1>2 DEF Pairs, Before, Filling, Closing, Queue
<1>9. opened \subseteq Thread BY DEF PipeOK
<1> QED BY <1>1, <1>2, <1>3, <1>5, <1>6, <1>7, <1>8, <1>9, PpWakeStep

LEMMA PpWaits ==
  ASSUME PipeOK, PpOK, NEW t \in Thread, ReadWait(t) \/ WriteWait(t)
  PROVE  PpOK'
<1>1. isr' = isr /\ opened' = opened BY DEF ReadWait, WriteWait
<1>2. PICK l, n, q :
        /\ Running(t, l) /\ q \in Queue
        /\ \/ q = "reader" /\ n = "read_lock" /\ l \in {"read_wait", "read_woken"}
           \/ q = "writer" /\ n = "write_lock" /\ l \in {"write_wait", "write_woken"}
        /\ \/ l \in {"read_wait", "write_wait"} /\ rt_wqueue_wait(t, q, WokenAt(q), n)
           \/ Woken(t, q, n)
  BY DEF ReadWait, WriteWait, Queue, WokenAt
<1>3. l \in Before(q) \cup {WokenAt(q)} /\ (l \in {"read_wait", "write_wait"} => l \in Before(q))
  BY <1>2 DEF Before, WokenAt
<1>4. PpCaller(t, l) BY <1>2, PpCallers DEF PpEnters
<1>5. PpPlace(t, l) BY <1>4 DEF PpCaller, PpOK, PpPlaces
<1>6. "pipe" \in Prog[t] BY <1>2, <1>5 DEF PpPlace
<1>7. PpPlace(t, n) BY <1>2, <1>5, <1>6 DEF PpPlace, CallOf, Before, WokenAt, Queue
<1>8. n # "pp_sched" /\ n \notin Past /\ n \notin Before(q) BY <1>2 DEF Past, Before
<1>9. \A p \in Queue : p # q => Pairs(p, l, n) /\ Pairs(p, l, WokenAt(q))
  BY <1>2 DEF Pairs, Before, Filling, Closing, Queue, WokenAt
<1>10. opened \subseteq Thread BY DEF PipeOK
<1> QED BY <1>1, <1>2, <1>3, <1>4, <1>6, <1>7, <1>8, <1>9, <1>10, PpWaitStep

-----------------------------------------------------------------------------
(* Steps outside the calls.                                                *)

\* A step in which no thread moves but between its calls, and no sleeper is
\* touched.
LEMMA PpStill ==
  ASSUME PpOK, Runs(PpEnters)', k'.nest = 0, DOMAIN pc' = Thread, DOMAIN after' = Thread,
         \A u \in Thread : after'[u] # "pp_sched",
         \A u \in Thread : At(u)' = At(u) \/ {At(u), At(u)'} \subseteq {"run", "sched"},
         pipe' = pipe, opened' = opened, opened \subseteq Thread, NEW M, Same(k, k', M),
         \A u \in M : (u \in Timed(k) \/ k.stat[u] = "READY") /\ OnNone(k', u)
  PROVE  PpOK'
<1>1. PipeLock \in WaitList /\ PpFields /\ Resting(k') BY PpFacts DEF Runs
<1>2. PpFields' BY <1>1 DEF PpFields
<1>3. PpPlaces' BY DEF PpOK, PpPlaces, PpPlace, CallOf, Before, WokenAt, Queue, Uses, Reads, Writes
<1>4. PpSleepers'
  <2> SUFFICES ASSUME NEW q \in Queue, pipe.waiting[q] # <<>>
               PROVE  ~pipe.flag[q] /\ \E t \in Thread :
                         /\ pipe.waiting[q] = <<t>> /\ At(t)' = WokenAt(q)
                         /\ k'.stat[t] = "SUSPEND" /\ OnNone(k', t) /\ t \notin Timed(k')
    BY DEF PpSleepers
  <2>1. PICK t \in Thread :
          /\ ~pipe.flag[q] /\ pipe.waiting[q] = <<t>> /\ At(t) = WokenAt(q)
          /\ k.stat[t] = "SUSPEND" /\ OnNone(k, t) /\ t \notin Timed(k)
    BY DEF PpOK, PpSleepers
  <2>2. t \notin M BY <2>1
  <2>3. At(t)' = WokenAt(q) BY <2>1 DEF WokenAt
  <2>4. k'.stat[t] = "SUSPEND" /\ OnNone(k', t) /\ t \notin Timed(k') BY <2>1, <2>2 DEF Same, OnNone
  <2> QED BY <2>1, <2>3, <2>4
<1>5. PpCounts'
  <2>1. \A q \in Queue : Users(q)' = Users(q) BY DEF Users, Past, Uses, Reads, Writes
  <2> QED BY <2>1 DEF PpOK, PpCounts, Queue
<1>6. PpOwned'
  <2>1. On(k', PipeLock) \subseteq On(k, PipeLock)
    <3>1. On(k', PipeLock) \subseteq Thread BY <1>1, RestingFields
    <3>2. \A u \in On(k', PipeLock) : u \notin M BY <1>1 DEF OnNone
    <3> QED BY <1>1, <3>1, <3>2 DEF Same
  <2> QED BY <2>1 DEF PpOK, PpOwned
<1>7. \A q \in Queue : PpNeeds(q)'
  <2> SUFFICES ASSUME NEW q \in Queue PROVE PpNeeds(q)' OBVIOUS
  <2>1. PpNeeds(q) BY DEF PpOK
  <2>3. /\ OnTheWay(Before(q))' <=> OnTheWay(Before(q))
        /\ OnTheWay(Filling(q))' <=> OnTheWay(Filling(q))
        /\ OnTheWay(Closing(q))' <=> OnTheWay(Closing(q))
    BY DEF OnTheWay, Before, Filling, Closing
  <2>4. (Available(q)' <=> Available(q)) /\ Others(q)' = Others(q) BY DEF Available, Others
  <2> QED BY <2>1, <2>3, <2>4 DEF PpNeeds, Wanting
<1>8. OnlyList(k', PipeLock) BY <1>1, OnlyListKept DEF PpOK
<1> QED BY <1>2, <1>3, <1>4, <1>5, <1>6, <1>7, <1>8 DEF PpOK

LEMMA PpSchedules ==
  ASSUME PipeOK, PpOK, NEW t \in Thread,
         \/ PipeSchedule(t)
         \/ (Schedule(t) \/ Pause(t)) /\ UNCHANGED pipevars
  PROVE  PpOK'
<1>1. /\ Runs(PpEnters) /\ Resting(k) /\ k.nest = 0 /\ DOMAIN pc = Thread /\ DOMAIN after = Thread
      /\ \A u \in Thread : after[u] # "pp_sched"
  BY PpFacts DEF PpFields
<1>2. opened \subseteq Thread /\ opened' = opened /\ pipe' = pipe
  BY DEF PipeOK, PipeSchedule, pipevars
<1>3. CASE PipeSchedule(t)
  <2>1. /\ ScheduleStep(t, "pp_sched", after[t]) /\ after' = [after EXCEPT ![t] = "run"]
        /\ pc[t] = "pp_sched"
    BY <1>3 DEF PipeSchedule, IpcSchedule, ScheduleStep, Running
  <2>2. /\ Runs(PpEnters)' /\ Same(k, k', {}) /\ Chosen(k, k')
        /\ pc'[t] = after[t] /\ \A u \in Thread : u # t => pc'[u] = pc[u]
    BY <1>1, <2>1, RunsSchedule
  <2>3. k'.nest = 0 /\ DOMAIN pc' = Thread BY <1>1, <2>2 DEF Chosen, Runs
  <2>4. DOMAIN after' = Thread /\ \A u \in Thread : after'[u] # "pp_sched" BY <1>1, <2>1
  <2>5. \A u \in Thread : At(u)' = At(u) BY <1>1, <2>1, <2>2 DEF At
  <2> QED BY <1>2, <2>2, <2>3, <2>4, <2>5, PpStill
<1>4. CASE Schedule(t) /\ UNCHANGED pipevars
  <2>1. ScheduleStep(t, "sched", "run") /\ after' = after /\ pc[t] = "sched"
    BY <1>4 DEF Schedule, IpcSchedule, ScheduleStep, Running, pipevars
  <2>2. /\ Runs(PpEnters)' /\ Same(k, k', {}) /\ Chosen(k, k')
        /\ pc'[t] = "run" /\ \A u \in Thread : u # t => pc'[u] = pc[u]
    BY <1>1, <2>1, RunsSchedule
  <2>3. k'.nest = 0 /\ DOMAIN pc' = Thread BY <1>1, <2>2 DEF Chosen, Runs
  <2>4. \A u \in Thread : At(u)' = At(u) \/ {At(u), At(u)'} \subseteq {"run", "sched"}
    BY <2>1, <2>2 DEF At
  <2> QED BY <1>1, <1>2, <2>1, <2>2, <2>3, <2>4, PpStill
<1>5. CASE Pause(t) /\ UNCHANGED pipevars
  <2>1. /\ Running(t, "run") /\ k' = rt_thread_sleep(k, t, 1) /\ Goto(t, "sched") /\ isr' = isr
        /\ after' = after /\ Prog[t] # {}
    BY <1>5 DEF Pause, Calls, pipevars
  <2>2. PpCaller(t, "run") BY <2>1, PpCallers DEF PpEnters
  <2>3. /\ t \in Thread \ {Idle} /\ k.stat[t] = "READY" /\ OnNone(k, t) /\ k.cur = t /\ isr = "none"
        /\ At(t) = "run" /\ pc[t] = "run"
    BY <2>2 DEF PpCaller, Running
  <2>4. KernelOK(k) /\ 1 \in Nat BY <1>1 DEF Resting
  <2>5. /\ KernelOK(k') /\ Kept(k, k') /\ k'.stat[t] = "SUSPEND" /\ Same(k, k', {t})
        /\ Unmoved(k, k')
    BY <2>1, <2>3, <2>4, SleepThread, SleepSame, SleepMoves
  <2>6. Resting(k') /\ k'.nest = 0 /\ k'.cur = t BY <1>1, <2>3, <2>5, OneSleeps DEF Kept
  <2>7. OnNone(k', t) BY <2>3, <2>5 DEF Unmoved, On, OnNone
  <2>8. Runs(PpEnters)' /\ pc'[t] = "sched" /\ \A u \in Thread : u # t => pc'[u] = pc[u]
    <3>1. "sched" \in PpEnters BY DEF PpEnters
    <3> QED BY <1>1, <2>1, <2>3, <2>6, <3>1, RunsOn
  <2>9. DOMAIN pc' = Thread BY <2>8 DEF Runs
  <2>10. \A u \in Thread : At(u)' = At(u) \/ {At(u), At(u)'} \subseteq {"run", "sched"}
    BY <2>1, <2>3, <2>8 DEF At
  <2>11. \A u \in {t} : (u \in Timed(k) \/ k.stat[u] = "READY") /\ OnNone(k', u) BY <2>3, <2>7
  <2> QED BY <1>1, <1>2, <2>1, <2>5, <2>6, <2>8, <2>9, <2>10, <2>11, PpStill
<1> QED BY <1>3, <1>4, <1>5

LEMMA PpKernel ==
  ASSUME PipeOK, PpOK, Tick \/ TimerCheck, UNCHANGED pipevars
  PROVE  PpOK'
<1>1. /\ Runs(PpEnters) /\ k.nest = 0 /\ DOMAIN pc = Thread /\ DOMAIN after = Thread
      /\ \A u \in Thread : after[u] # "pp_sched"
  BY PpFacts DEF PpFields
<1>2. opened \subseteq Thread /\ opened' = opened /\ pipe' = pipe /\ after' = after
  BY DEF PipeOK, pipevars
<1>3. CASE Tick
  <2>1. Runs(PpEnters)' /\ Same(k, k', {}) /\ (Kept(k, k') \/ Chosen(k, k')) /\ pc' = pc
    BY <1>1, <1>3, RunsTick DEF Tick
  <2>2. k'.nest = 0 BY <1>1, <2>1 DEF Kept, Chosen
  <2>3. \A u \in Thread : At(u)' = At(u) BY <1>2, <2>1 DEF At
  <2> QED BY <1>1, <1>2, <2>1, <2>2, <2>3, PpStill
<1>4. CASE TimerCheck
  <2> DEFINE h == Head(k.timers)
  <2>1. /\ Runs(PpEnters)' /\ Same(k, k', {h}) /\ Chosen(k, k') /\ pc' = pc
        /\ h \in Timed(k) /\ OnNone(k', h)
    BY <1>1, <1>4, RunsTimer DEF TimerCheck
  <2> HIDE DEF h
  <2>2. k'.nest = 0 BY <1>1, <2>1 DEF Chosen
  <2>3. \A u \in Thread : At(u)' = At(u) BY <1>2, <2>1 DEF At
  <2>4. \A u \in {h} : (u \in Timed(k) \/ k.stat[u] = "READY") /\ OnNone(k', u) BY <2>1
  <2> QED BY <1>1, <1>2, <2>1, <2>2, <2>3, <2>4, PpStill
<1> QED BY <1>3, <1>4

-----------------------------------------------------------------------------
PpInv == PipeInv /\ (helper = "pipe" => PpOK)

LEMMA PpInvInit ==
  ASSUME Init
  PROVE  PpInv
<1>1. /\ pipe = [fifo |-> NoFifo, readers |-> 0, writers |-> 0, ref_count |-> 0,
                 owner |-> NoThread, original |-> IdlePrio,
                 flag |-> [q \in Queue |-> FALSE], waiting |-> [q \in Queue |-> <<>>]]
      /\ opened = {} /\ after = [t \in Thread |-> "run"] /\ IpcInit /\ PipeInv
  BY PipeInvInit DEF Init, PipeInit
<1>2. "run" \notin PpEnters /\ PipeLock \in WaitList BY PipeAssumption DEF PpEnters
<1>3. /\ Runs(PpEnters) /\ k.nest = 0 /\ pc = [t \in Thread |-> "run"] /\ On(k, PipeLock) = {}
  BY <1>1, <1>2, BootRuns DEF Settled
<1>4. \A t \in Thread : At(t) = "run" BY <1>1, <1>3 DEF At
<1>5. PpFields
  <2>1. IdlePrio \in Prio BY IpcAssumption, ThreadAssumption
  <2>2. [q \in Queue |-> FALSE] \in [Queue -> BOOLEAN] /\ [q \in Queue |-> <<>>] \in [Queue -> Seq(Thread)]
    OBVIOUS
  <2> QED BY <1>1, <1>3, <2>1, <2>2 DEF PpFields
<1>6. PpPlaces BY <1>1, <1>4 DEF PpPlaces, PpPlace, CallOf, Before, WokenAt, Queue
<1>7. PpSleepers BY <1>1 DEF PpSleepers
<1>8. PpCounts
  <2>1. Users("reader") = {} /\ Users("writer") = {} BY <1>1 DEF Users
  <2> QED BY <1>1, <2>1, FS_EmptySet DEF PpCounts
<1>9. PpOwned BY <1>3 DEF PpOwned
<1>10. \A q \in Queue : PpNeeds(q)
  BY <1>1, <1>4 DEF PpNeeds, Wanting, OnTheWay, Before, Queue
<1>11. OnlyList(k, PipeLock) BY <1>1, <1>2, BootRuns DEF OnlyList
<1> QED BY <1>1, <1>3, <1>5, <1>6, <1>7, <1>8, <1>9, <1>10, <1>11 DEF PpInv, PpOK

LEMMA PpInvStep ==
  ASSUME PipeOK, PpOK, NEW t \in Thread, PipeStep(t)
  PROVE  PpOK'
<1>1. CASE PipeSchedule(t) \/ (Pause(t) /\ UNCHANGED pipevars) BY <1>1, PpSchedules
<1>2. CASE PipeUnlock(t) \/ PipeLocked(t) BY <1>2, PpLocks
<1>3. CASE Open(t) \/ Close(t) \/ Read(t) \/ \E count \in 1..(BufSize + 1) : Write(t, count)
  BY <1>3, PpEntries
<1>4. CASE OpenBody(t) BY <1>4, PpOpenBody
<1>5. CASE CloseBody(t) BY <1>5, PpCloseBody
<1>6. CASE CloseWake(t) BY <1>6, PpCloseWake
<1>7. CASE CloseEnd(t) BY <1>7, PpCloseEnd
<1>8. CASE \E count \in 1..BufSize : ReadBody(t, count) BY <1>8, PpReadBody
<1>9. CASE \E data \in Payload : WriteBody(t, data) BY <1>9, PpWriteBody
<1>10. CASE ReadWake(t) \/ WriteWake(t) BY <1>10, PpWakes
<1>11. CASE ReadWait(t) \/ WriteWait(t) BY <1>11, PpWaits
<1> QED BY <1>1, <1>2, <1>3, <1>4, <1>5, <1>6, <1>7, <1>8, <1>9, <1>10, <1>11 DEF PipeStep

LEMMA PpInvNext ==
  ASSUME PpInv, [Next]_vars
  PROVE  PpInv'
<1>1. PipeInv' BY PipeInvNext DEF PpInv
<1>2. CASE UNCHANGED vars
  <2>1. UNCHANGED <<k, isr, pc, pipe, opened, after, helper>> BY <1>2 DEF vars, pipevars
  <2>2. PpOK => PpOK'
    BY <2>1 DEF PpOK, Runs, PpFields, PpPlaces, PpPlace, PpSleepers, PpCounts, PpOwned, OnlyList, PpNeeds,
                Wanting, OnTheWay, At, Users, Uses, Reads, Writes, Available, Others
  <2> QED BY <1>1, <2>1, <2>2 DEF PpInv
<1>3. CASE Next /\ helper # "pipe"
  <2>1. helper' = helper BY <1>3 DEF Next
  <2> QED BY <1>1, <1>3, <2>1 DEF PpInv
<1>4. CASE Next /\ helper = "pipe"
  <2>1. PpOK /\ PipeOK BY <1>4 DEF PpInv, PipeInv
  <2>2. \/ PipeNext
        \/ ((\E t \in Thread : Schedule(t)) \/ Tick \/ TimerCheck) /\ UNCHANGED pipevars
    BY <1>4 DEF Next
  <2>3. PpOK' BY <2>1, <2>2, PpInvStep, PpSchedules, PpKernel DEF PipeNext
  <2> QED BY <1>1, <2>3 DEF PpInv
<1> QED BY <1>2, <1>3, <1>4

\* Who sleeps in a wait queue of the pipe has no other way to wake up, and its
\* queue has its flag down.
THEOREM PipeWaitInvariance == Spec => []PpInv
<1>1. Init => PpInv BY PpInvInit
<1>2. PpInv /\ [Next]_vars => PpInv' BY PpInvNext
<1> QED BY <1>1, <1>2, PTL DEF Spec

\* No reader sleeps on data, or on a pipe without writers, and no writer on
\* room, or without readers, but for the wake-up that another thread is about
\* to make: although the mutex is given up before the wait begins.
THEOREM PipeStrandsNobody == Spec => [](helper = "pipe" => PipeNobodyStranded)
<1>1. ASSUME PpInv PROVE helper = "pipe" => PipeNobodyStranded
  <2> SUFFICES ASSUME helper = "pipe" PROVE PipeNobodyStranded OBVIOUS
  <2>1. PpOK /\ PipeOK BY <1>1 DEF PpInv, PipeInv
  <2>2. k.list[PipeLock] # <<>> => pipe.owner # NoThread
    <3>1. Resting(k) /\ PipeLock \in WaitList BY <2>1, PpFacts
    <3>2. k.list[PipeLock] = <<>> <=> On(k, PipeLock) = {} BY <3>1, RestingFields
    <3> QED BY <2>1, <3>2 DEF PpOK, PpOwned
  <2>3. \A q \in Queue : pipe.waiting[q] # <<>> =>
          /\ Available(q) => OnTheWay(Filling(q))
          /\ Others(q) = 0 => OnTheWay(Closing(q))
    BY <2>1 DEF PpOK, PpSleepers, PpNeeds, Wanting
  <2>4. pipe.waiting["reader"] # <<>> /\ (DataLen(pipe.fifo) > 0 \/ pipe.writers = 0) =>
          OnTheWay({"write_out", "write_end", "write_idle", "write_last", "close_readers"})
    BY <2>3 DEF Queue, Available, Others, Filling, Closing, OnTheWay
  <2>5. pipe.waiting["writer"] # <<>> /\ (SpaceLen(pipe.fifo) > 0 \/ pipe.readers = 0) =>
          OnTheWay({"read_done", "read_out", "read_idle", "close_readers", "close_writers"})
    BY <2>3 DEF Queue, Available, Others, Filling, Closing, OnTheWay
  <2>6. pipe.fifo = NoFifo <=> opened = {}
    <3>1. NoFifo \notin Ring
      <4>1. \A rb \in Ring : "buffer" \in DOMAIN rb BY DEF Ring
      <4>2. DOMAIN NoFifo = {} BY DEF NoFifo
      <4> QED BY <4>1, <4>2
    <3> QED BY <2>1, <3>1 DEF PipeOK, RingOK
  <2> QED BY <2>2, <2>4, <2>5, <2>6 DEF PipeNobodyStranded
<1> QED BY <1>1, PipeWaitInvariance, PTL

-----------------------------------------------------------------------------
(* Who is the highest: what rt_schedule, the tick and an expired timer     *)
(* promise when the scheduler is not locked.                               *)

Top(s) == \A u \in Thread : s.stat[u] = "READY" => s.prio[s.cur] <= s.prio[u]

LEMMA ScheduleTop ==
  ASSUME NEW s, Resting(s), s.nest = 0
  PROVE  Top(rt_schedule(s))
<1> DEFINE p == Highest(s)
           t == Head(s.list[p])
<1> USE DEF KernelOK
<1>0. s \in KernelState BY DEF Resting
<1>1. s.group \in SUBSET Prio /\ \A q \in Prio : s.list[q] \in Seq(Thread)
  BY <1>0, KernelFields DEF ListHead
<1>2. s.group # {}
  <2>1. IdlePrio \in Prio BY BoundAssumption DEF IdlePrio, Prio
  <2>2. s.list[IdlePrio] # <<>> BY <2>1, <1>1, EmptyList DEF On, Resting
  <2> QED BY <2>1, <2>2 DEF Bitmap, Resting
<1>3. \E q \in s.group : \A x \in s.group : q <= x
  BY <1>1, <1>2, Minimum DEF Prio
<1>4. p \in s.group /\ \A x \in s.group : p <= x BY <1>3 DEF Highest
<1>5. rt_schedule(s) = [s EXCEPT !.cur = t] BY DEF rt_schedule
<1> HIDE DEF p
<1>6. p \in Prio /\ s.list[p] # <<>> BY <1>4, <1>1 DEF Bitmap, Resting
<1>7. t \in On(s, p) /\ t \in Thread BY <1>6, <1>1, EmptyList DEF On
<1>8. s.prio[t] = p BY <1>6, <1>7 DEF Placed, Resting
<1> HIDE DEF t
<1>9. ASSUME NEW u \in Thread, s.stat[u] = "READY" PROVE p <= s.prio[u]
  <2>1. PICK l \in ListHead : u \in On(s, l) BY <1>9 DEF Resting, Off
  <2>2. l \in Prio
    <3>1. l \notin WaitList /\ l # Defunct BY <1>9, <2>1 DEF Resting, Placed
    <3> QED BY <3>1 DEF ListHead
  <2>3. s.prio[u] = l BY <2>1, <2>2 DEF Resting, Placed
  <2>4. s.list[l] # <<>> BY <1>1, <2>1, <2>2, EmptyList DEF On
  <2>5. l \in s.group BY <2>2, <2>4 DEF Resting, Bitmap
  <2> QED BY <1>4, <2>3, <2>5
<1> DEFINE r == [s EXCEPT !.cur = t]
<1>10. r.stat = s.stat /\ r.prio = s.prio /\ r.cur = t BY <1>0 DEF KernelState
<1> HIDE DEF r
<1>11. Top(r) BY <1>8, <1>9, <1>10 DEF Top
<1> QED BY <1>5, <1>11 DEF r

\* Either the processor stays, or the highest thread gets it.
Ranked(s, r) == r.cur = s.cur \/ Top(r)

LEMMA ScheduleRanked ==
  ASSUME NEW s, Resting(s)
  PROVE  Ranked(s, rt_schedule(s)) /\ rt_schedule(s).prio = s.prio
<1>1. rt_schedule(s).prio = s.prio
  <2>1. s \in KernelState BY DEF Resting, KernelOK
  <2> QED BY <2>1, QueueCodes, ThreadAssumption DEF Codes
<1>2. CASE s.nest = 0 BY <1>1, <1>2, ScheduleTop DEF Ranked
<1>3. CASE s.nest # 0
  <2>1. rt_schedule(s) = s BY <1>3 DEF rt_schedule
  <2> QED BY <1>1, <2>1 DEF Ranked
<1> QED BY <1>2, <1>3

LEMMA StillRests ==
  ASSUME NEW s, Resting(s), NEW r, KernelOK(r), Still(s, r)
  PROVE  Resting(r)
  BY DEF Resting, Still

LEMMA TickRanked ==
  ASSUME NEW s, Resting(s), s.cur \in Thread
  PROVE  Ranked(s, TickIncrease(s)) /\ TickIncrease(s).prio = s.prio
<1> DEFINE t == s.cur
           f == [u \in Thread |-> IF s.left[u] > 0 THEN s.left[u] - 1 ELSE 0]
           g == [s.slice EXCEPT ![t] = IF s.slice[t] = 1 THEN InitTick ELSE s.slice[t] - 1]
           a == [s EXCEPT !.left = f, !.slice = g]
           r == TickIncrease(s)
<1>0. KernelOK(s) /\ s \in KernelState /\ (s.stat[t] = "READY" => ~Off(s, t)) BY DEF Resting, KernelOK
<1>1. f \in [Thread -> Nat] BY <1>0, KernelFields
<1>2. g \in [Thread -> 1..InitTick]
  <2>1. s.slice \in [Thread -> 1..InitTick] BY <1>0, KernelFields
  <2> QED BY <2>1, BoundAssumption
<1>3. r = IF s.slice[t] = 1 THEN rt_thread_yield(a) ELSE a
  BY <1>0 DEF TickIncrease, KernelState
<1>9. r.prio = s.prio BY <1>0, TickCodes DEF Codes
<1> HIDE DEF f, g, r
<1>4. a \in KernelState BY <1>0, <1>1, <1>2 DEF KernelState
<1>5. /\ a.list = s.list /\ a.stat = s.stat /\ a.group = s.group /\ a.timers = s.timers
      /\ a.prio = s.prio /\ a.cur = s.cur /\ a.nest = s.nest
  BY <1>0 DEF KernelState
<1> HIDE DEF a
<1>6. KernelOK(a) /\ \A x : Frame(s, a, x) /\ (Off(a, x) <=> Off(s, x)) /\ Timed(a) = Timed(s)
  BY <1>0, <1>4, <1>5, Cosmetic
<1>7. CASE r = a BY <1>5, <1>7, <1>9 DEF r, Ranked
<1>8. CASE r # a
  <2>1. SharesQueue(a, t) /\ r = rt_schedule(ToQueueEnd(a, t))
    BY <1>3, <1>5, <1>8 DEF rt_thread_yield
  <2> DEFINE b == ToQueueEnd(a, t)
  <2>2. a.stat[t] = "READY" /\ ~Off(a, t) BY <1>0, <1>5, <1>6, <2>1 DEF SharesQueue
  <2>3. KernelOK(b) /\ Still(a, b) /\ Kept(a, b) BY <1>6, <2>2, RotateQueue
  <2> HIDE DEF b
  <2>4. Resting(a) BY <1>5, <1>6 DEF Resting
  <2>5. Resting(b) BY <2>3, <2>4, StillRests
  <2>6. Ranked(b, rt_schedule(b)) BY <2>5, ScheduleRanked
  <2>7. Ranked(s, r) BY <1>5, <2>1, <2>3, <2>6 DEF b, Ranked, Kept
  <2> QED BY <1>9, <2>7 DEF r
<1> QED BY <1>7, <1>8

LEMMA FireRanked ==
  ASSUME NEW s, Resting(s), s.timers # <<>>
  PROVE  (s.nest = 0 => Top(TimerFire(s))) /\ TimerFire(s).prio = s.prio
<1> DEFINE t == Head(s.timers)
           q == Tail(s.timers)
           a == [s EXCEPT !.timers = q]
           b == [a EXCEPT !.err[t] = "ETIMEOUT"]
           c == rt_list_remove(b, t)
           d == rt_schedule_insert_thread(c, t)
           r == TimerFire(s)
<1>0. KernelOK(s) /\ s \in KernelState BY DEF Resting, KernelOK
<1>1. r = rt_schedule(d) BY DEF TimerFire, rt_thread_timeout
<1>2. t \in Timed(s) /\ t \in Thread /\ q \in Seq(Thread) /\ ToSet(q) = Timed(s) \ {t} /\ NoDup(q)
  <2>1. s.timers \in Seq(Thread) /\ NoDup(s.timers) BY <1>0, KernelFields DEF KernelOK, Apart
  <2> QED BY <2>1, EmptyList, TailList DEF Timed
<1>3. s.stat[t] = "SUSPEND" BY <1>0, <1>2 DEF KernelOK, Placed
<1>20. r.prio = s.prio BY <1>0, FireCodes
<1> HIDE DEF t, q, r
<1>4. a \in KernelState BY <1>0, <1>2 DEF KernelState
<1>5. /\ a.list = s.list /\ a.group = s.group /\ a.stat = s.stat /\ a.prio = s.prio
      /\ a.timers = q /\ a.cur = s.cur /\ a.nest = s.nest
  BY <1>0 DEF KernelState
<1> HIDE DEF a
<1>6. Timed(a) = Timed(s) \ {t} BY <1>2, <1>5 DEF Timed
<1>7. KernelOK(a) /\ Frame(s, a, t) BY <1>0, <1>2, <1>3, <1>4, <1>5, <1>6, Retime
<1>8. b \in KernelState BY <1>4 DEF KernelState, Error
<1>9. /\ b.list = a.list /\ b.group = a.group /\ b.stat = a.stat /\ b.prio = a.prio
      /\ b.timers = a.timers /\ b.cur = a.cur /\ b.nest = a.nest
  BY <1>4 DEF KernelState
<1> HIDE DEF b
<1>10. KernelOK(b) /\ Frame(a, b, t) /\ Timed(b) = Timed(a)
  BY <1>7, <1>8, <1>9, Cosmetic
<1>11. b.stat[t] # "READY" BY <1>3, <1>5, <1>9
<1>12. KernelOK(c) /\ Frame(b, c, t) /\ Kept(b, c) /\ Off(c, t) /\ Timed(c) = Timed(b)
  BY <1>2, <1>10, <1>11, UnlinkWaiting
<1> HIDE DEF c
<1>13. t \notin Timed(c) BY <1>6, <1>10, <1>12
<1>14. /\ KernelOK(d) /\ Frame(c, d, t) /\ Kept(c, d)
       /\ d.stat[t] = "READY" /\ ~Off(d, t)
  BY <1>2, <1>12, <1>13, InsertThread
<1> HIDE DEF d
<1>15. Frame(s, d, t) BY <1>7, <1>10, <1>12, <1>14, FrameTrans
<1>16. Resting(d) BY <1>14, <1>15 DEF Resting, Frame
<1>17. d.nest = s.nest BY <1>5, <1>9, <1>12, <1>14 DEF Kept
<1>18. s.nest = 0 => Top(r) BY <1>1, <1>16, <1>17, ScheduleTop
<1> QED BY <1>18, <1>20 DEF r

\* The first thread that runs is the highest.
LEMMA BootTop ==
  ASSUME IsFiniteSet(Thread), NEW p0 \in [Thread -> Prio], p0[Idle] = IdlePrio
  PROVE  Top(Booted(p0)) /\ Booted(p0).prio = p0
<1> DEFINE k0 == Booted(p0)
           f == [t \in Thread |-> "READY"]
           g == [l \in ListHead |-> IF l \in Prio THEN SetToSeq({t \in Thread : p0[t] = l}) ELSE <<>>]
           h == {p \in Prio : {t \in Thread : p0[t] = p} # {}}
           s == [PowerOn(p0) EXCEPT !.stat = f, !.list = g, !.group = h]
<1>1. k0 = rt_schedule(s) BY DEF Booted
<1> HIDE DEF f, g, h
<1>2. s.prio = p0 /\ s.list = g /\ s.group = h /\ s.nest = 0 /\ "cur" \in DOMAIN s BY DEF PowerOn
<1> HIDE DEF s
<1> DEFINE c == Head(s.list[Highest(s)])
<1>3. k0 = [s EXCEPT !.cur = c] BY <1>1, <1>2 DEF rt_schedule
<1> HIDE DEF c, k0
<1>4. k0.prio = p0 /\ k0.list = s.list /\ k0.group = s.group /\ k0.nest = 0 /\ k0.cur = c
  BY <1>2, <1>3
<1>5. KernelOK(k0) /\ \A t \in Thread : k0.stat[t] = "READY" /\ ~Off(k0, t) BY BootedOK DEF k0
<1>6. Resting(k0) BY <1>5 DEF Resting
<1>7. Highest(k0) = Highest(s) BY <1>4 DEF Highest
<1>8. rt_schedule(k0) = [k0 EXCEPT !.cur = c] BY <1>4, <1>7 DEF rt_schedule, c
<1>9. [k0 EXCEPT !.cur = c] = k0 BY <1>4, <1>5 DEF KernelOK, KernelState
<1>10. Top(k0) BY <1>4, <1>6, <1>8, <1>9, ScheduleTop
<1> QED BY <1>4, <1>10 DEF k0

-----------------------------------------------------------------------------
(* Work queue: the one thread that submits works is below the work thread, *)
(* so that it runs only while the work thread sleeps.                      *)

WqEnters == {"wq_asleep", "wq_napping", "sched"}
WqHand == {"wq_resume", "wq_unlink", "wq_insert"}
WqOwn == {"wq_suspend", "wq_asleep", "wq_take", "wq_func", "wq_napping", "wq_ack"}

WqFields == {"work_list", "work_current", "sem"} \subseteq DOMAIN wq

WqPlaces ==
  \A t \in Thread : /\ pc[t] \in WqHand => t \in WqUser
                    /\ pc[t] \in WqOwn => t = Worker

\* The scheduler is locked while the work thread acknowledges.
WqNest ==
  \/ k.nest = 0 /\ pc[Worker] # "wq_ack"
  \/ k.nest = 1 /\ pc[Worker] = "wq_ack" /\ k.cur = Worker

WqLists ==
  /\ \A w \in WaitList \ {WqSem} : On(k, w) = {}
  /\ Worker \notin On(k, WqSem)

\* Between the two halves of rt_thread_resume nobody else finds the thread.
WqHalf ==
  (\E t \in Thread : pc[t] = "wq_insert") =>
    k.stat[Worker] = "SUSPEND" /\ Off(k, Worker) /\ Worker \notin Timed(k)

WqBelow ==
  InitPrio[Worker] < InitPrio[k.cur] => k.stat[Worker] = "SUSPEND" \/ pc[k.cur] = "sched"

WqWork ==
  /\ pc[Worker] = "wq_suspend" => k.stat[Worker] = "READY" /\ wq.work_list = <<>>
  /\ wq.work_current # NoWork => pc[Worker] \in {"wq_func", "wq_napping"}
  /\ WorkerAsleep /\ wq.work_list # <<>> => \E t \in Thread : pc[t] \in WqHand

WqWaiters ==
  /\ wq.sem \in {0, 1}
  /\ wq.sem = 1 => pc[Worker] = "wq_ack" /\ On(k, WqSem) = {}
  /\ On(k, WqSem) # {} => wq.work_current # NoWork \/ pc[Worker] = "wq_ack"

\* Who runs, and where everybody is.
WqThreads ==
  /\ Runs(WqEnters) /\ k.prio = InitPrio
  /\ WqPlaces /\ WqNest /\ WqLists /\ WqHalf /\ WqBelow

WqOK == WqThreads /\ WqFields /\ WqWork /\ WqWaiters

LEMMA WqFacts ==
  ASSUME WqThreads
  PROVE  /\ Runs(WqEnters) /\ Resting(k) /\ KernelOK(k) /\ DOMAIN pc = Thread /\ k.cur \in Thread
         /\ Worker \in Thread /\ WqSem \in WaitList /\ On(k, WqSem) \subseteq Thread
         /\ \A t \in Thread : k.stat[t] \in {"READY", "SUSPEND"}
         /\ \A t \in Thread : InitPrio[t] \in Int
         /\ k.cur # Worker => k.nest = 0
<1>1. Runs(WqEnters) /\ Resting(k) /\ DOMAIN pc = Thread /\ k.cur \in Thread BY DEF WqThreads, Runs
<1>2. Worker \in Thread /\ WqSem \in WaitList BY WqAssumption
<1>3. On(k, WqSem) \subseteq Thread BY <1>1, <1>2, RestingFields
<1>4. \A t \in Thread : InitPrio[t] \in Int BY IpcAssumption, BoundAssumption DEF Prio
<1>5. k.cur # Worker => k.nest = 0 BY DEF WqThreads, WqNest
<1> QED BY <1>1, <1>2, <1>3, <1>4, <1>5 DEF Resting

\* The thread that submits works, in a step of its own.
LEMMA WqSubmitter ==
  ASSUME OneSubmitterBelow, WqThreads, NEW t \in WqUser, NEW l, Running(t, l),
         l \notin WqOwn, l # "sched"
  PROVE  /\ t \in Thread \ {Idle} /\ t # Worker /\ k.cur = t /\ pc[t] = l /\ isr = "none"
         /\ k.stat[t] = "READY" /\ OnNone(k, t) /\ k.nest = 0
         /\ k.stat[Worker] = "SUSPEND" /\ pc[Worker] # "wq_ack"
         /\ \A u \in Thread : u # t => pc[u] \notin WqHand
<1>1. /\ Runs(WqEnters) /\ (\A u \in Thread : InitPrio[u] \in Int) /\ Worker \in Thread
      /\ k.cur # Worker => k.nest = 0
  BY WqFacts
<1>2. t \in Thread /\ InitPrio[Worker] < InitPrio[t] /\ t # Idle
  BY DriverAssumption DEF OneSubmitterBelow, WqUser
<1>3. t # Worker BY <1>1, <1>2
<1>4. l \notin WqEnters BY DEF WqEnters, WqOwn
<1>5. k.cur = t /\ pc[t] = l /\ isr = "none" /\ k.stat[t] = "READY" /\ OnNone(k, t)
  BY <1>1, <1>2, <1>4, Caller
<1>6. k.stat[Worker] = "SUSPEND" BY <1>2, <1>5 DEF WqThreads, WqBelow
<1>7. k.nest = 0 /\ pc[Worker] # "wq_ack" BY <1>3, <1>5 DEF WqThreads, WqNest
<1>8. \A u \in Thread : u # t => pc[u] \notin WqHand
  BY DEF WqThreads, WqPlaces, OneSubmitterBelow
<1> QED BY <1>2, <1>3, <1>5, <1>6, <1>7, <1>8

LEMMA WqCallsUser ==
  ASSUME NEW t \in Thread, NEW op \in {"dowork", "cancel", "cancel_sync", "cancel_all"}, Calls(t, op)
  PROVE  t \in WqUser /\ Running(t, "run")
  BY DEF Calls, WqUser

\* The work thread, in a step of its own.
LEMMA WqWorker ==
  ASSUME WqThreads, NEW l, Running(Worker, l), l \notin WqEnters, l # "run" \/ Prog[Worker] # {}
  PROVE  /\ Worker \in Thread \ {Idle} /\ k.cur = Worker /\ pc[Worker] = l /\ isr = "none"
         /\ k.stat[Worker] = "READY" /\ OnNone(k, Worker)
         /\ l # "wq_ack" => k.nest = 0
         /\ \A u \in Thread : pc[u] # "wq_insert"
<1>1. Runs(WqEnters) /\ Worker \in Thread BY WqFacts
<1>2. /\ k.cur = Worker /\ pc[Worker] = l /\ isr = "none"
      /\ k.stat[Worker] = "READY" /\ OnNone(k, Worker) /\ (l # "run" => Worker # Idle)
  BY <1>1, Caller
<1>3. Worker # Idle BY <1>2, DriverAssumption
<1>4. l # "wq_ack" => k.nest = 0 BY <1>2 DEF WqThreads, WqNest
<1>5. \A u \in Thread : pc[u] # "wq_insert" BY <1>2 DEF WqThreads, WqHalf
<1> QED BY <1>1, <1>2, <1>3, <1>4, <1>5

\* Nobody goes to sleep on a list.
LEMMA WqListsKeep ==
  ASSUME WqThreads, Resting(k'), NEW M \in SUBSET Thread, Same(k, k', M),
         \A u \in M : OnNone(k', u)
  PROVE  WqLists' /\ On(k', WqSem) = On(k, WqSem) \ M
<1>1. Worker \in Thread /\ WqSem \in WaitList /\ Resting(k) BY WqFacts
<1>2. ASSUME NEW w \in WaitList PROVE On(k', w) = On(k, w) \ M
  <2>1. On(k, w) \subseteq Thread /\ On(k', w) \subseteq Thread BY <1>1, RestingFields
  <2> QED BY <2>1 DEF Same, OnNone
<1> QED BY <1>1, <1>2 DEF WqThreads, WqLists

LEMMA WqHalfKeep ==
  ASSUME WqThreads, NEW M, Same(k, k', M),
         Worker \notin M \/ \A u \in Thread : pc[u] # "wq_insert",
         \A u \in Thread : pc'[u] = "wq_insert" => pc[u] = "wq_insert"
  PROVE  WqHalf'
<1>1. Worker \in Thread BY WqFacts
<1> QED BY <1>1 DEF WqThreads, WqHalf, Same

LEMMA WqBelowKeep ==
  ASSUME WqThreads, Resting(k'), k'.prio = k.prio, k'.cur \in Thread,
         \/ Top(k') \/ k'.cur = Worker \/ pc'[k'.cur] = "sched" \/ k'.stat[Worker] = "SUSPEND"
         \/ k'.cur = k.cur /\ k'.stat[Worker] = k.stat[Worker] /\ pc'[k.cur] = pc[k.cur]
  PROVE  WqBelow'
<1>1. Worker \in Thread /\ (\A t \in Thread : InitPrio[t] \in Int) /\ k.prio = InitPrio
  BY WqFacts DEF WqThreads
<1>2. k'.stat[Worker] \in {"READY", "SUSPEND"} BY <1>1 DEF Resting
<1>3. CASE Top(k')
  <2>1. k'.stat[Worker] = "READY" => InitPrio[k'.cur] <= InitPrio[Worker] BY <1>1, <1>3 DEF Top
  <2> QED BY <1>1, <1>2, <2>1 DEF WqBelow
<1>4. CASE k'.cur = Worker BY <1>1, <1>4 DEF WqBelow
<1>5. CASE pc'[k'.cur] = "sched" \/ k'.stat[Worker] = "SUSPEND" BY <1>5 DEF WqBelow
<1>6. CASE k'.cur = k.cur /\ k'.stat[Worker] = k.stat[Worker] /\ pc'[k.cur] = pc[k.cur]
  BY <1>6 DEF WqThreads, WqBelow
<1> QED BY <1>3, <1>4, <1>5, <1>6

-----------------------------------------------------------------------------
(* Steps by which somebody goes from one label to another.                 *)

\* Waits and works are as they were, to those properties that speak of them.
LEMMA WqWorkKeep ==
  ASSUME WqThreads, WqWork, WqWaiters, WqFields, UNCHANGED wq,
         pc'[Worker] = pc[Worker], k'.stat[Worker] = k.stat[Worker] \/ k'.stat[Worker] = "READY",
         On(k', WqSem) \subseteq On(k, WqSem),
         \A u \in Thread : pc[u] \in WqHand => pc'[u] \in WqHand
  PROVE  WqWork' /\ WqWaiters' /\ WqFields'
<1>1. WqFields' BY DEF WqFields
<1>2. WqWaiters' BY DEF WqWaiters
<1>3. WqWork' BY DEF WqWork, WorkerAsleep
<1> QED BY <1>1, <1>2, <1>3

LEMMA WqWorkerMoves ==
  ASSUME WqThreads, NEW l, Running(Worker, l), l \notin WqEnters \cup {"wq_ack"},
         l # "run" \/ Prog[Worker] # {},
         NEW m \in WqOwn \ {"wq_ack"}, Goto(Worker, m), isr' = isr,
         Resting(k'), Kept(k, k'), k'.prio = k.prio, Same(k, k', {Worker}), OnNone(k', Worker),
         m \in WqEnters \/ k'.stat[Worker] = "READY"
  PROVE  /\ WqThreads' /\ On(k', WqSem) = On(k, WqSem)
         /\ pc'[Worker] = m /\ \A u \in Thread : u # Worker => pc'[u] = pc[u]
<1>1. /\ Worker \in Thread \ {Idle} /\ k.cur = Worker /\ pc[Worker] = l /\ isr = "none"
      /\ k.stat[Worker] = "READY" /\ OnNone(k, Worker) /\ k.nest = 0
      /\ \A u \in Thread : pc[u] # "wq_insert"
  BY WqWorker
<1>2. k'.cur = Worker /\ k'.nest = 0 /\ Runs(WqEnters) BY <1>1, WqFacts DEF Kept
<1>3. Runs(WqEnters)' /\ pc'[Worker] = m /\ \A u \in Thread : u # Worker => pc'[u] = pc[u]
  BY <1>1, <1>2, RunsOn
<1>4. WqPlaces' BY <1>3 DEF WqPlaces, WqThreads, WqOwn, WqHand
<1>5. WqNest' BY <1>2, <1>3 DEF WqNest
<1>6. WqLists' /\ On(k', WqSem) = On(k, WqSem) \ {Worker} BY <1>1, WqListsKeep
<1>7. WqHalf' BY <1>1, <1>3, WqHalfKeep DEF WqOwn
<1>8. WqBelow' BY <1>1, <1>2, WqBelowKeep
<1>9. Worker \notin On(k, WqSem) BY DEF WqThreads, WqLists
<1> QED BY <1>3, <1>4, <1>5, <1>6, <1>7, <1>8, <1>9 DEF WqThreads

LEMMA WqUserMoves ==
  ASSUME OneSubmitterBelow, WqThreads, NEW t \in WqUser, NEW l, Running(t, l),
         l \notin WqOwn, l # "sched",
         NEW m \in WqHand \cup {"run", "sched"}, Goto(t, m), isr' = isr,
         Resting(k'), Kept(k, k'), k'.prio = k.prio, Same(k, k', {Worker}), OnNone(k', Worker),
         m = "sched" \/ k'.stat[Worker] = "SUSPEND",
         m = "wq_insert" => Off(k', Worker) /\ Worker \notin Timed(k')
  PROVE  /\ WqThreads' /\ On(k', WqSem) = On(k, WqSem)
         /\ pc'[t] = m /\ t # Worker /\ \A u \in Thread : u # t => pc'[u] = pc[u]
<1>1. /\ t \in Thread \ {Idle} /\ t # Worker /\ k.cur = t /\ pc[t] = l /\ isr = "none"
      /\ k.stat[t] = "READY" /\ k.nest = 0 /\ pc[Worker] # "wq_ack"
      /\ \A u \in Thread : u # t => pc[u] \notin WqHand
  BY WqSubmitter
<1>2. k'.cur = t /\ k'.nest = 0 /\ Runs(WqEnters) /\ Worker \in Thread /\ k'.stat[t] = "READY"
  BY <1>1, WqFacts DEF Kept, Same
<1>3. Runs(WqEnters)' /\ pc'[t] = m /\ \A u \in Thread : u # t => pc'[u] = pc[u]
  BY <1>1, <1>2, RunsOn
<1>4. WqPlaces'
  <2>1. m \notin WqOwn BY DEF WqOwn, WqHand
  <2> QED BY <1>1, <1>3, <2>1 DEF WqPlaces, WqThreads
<1>5. WqNest' BY <1>1, <1>2, <1>3 DEF WqNest
<1>6. WqLists' /\ On(k', WqSem) = On(k, WqSem) \ {Worker} BY <1>2, WqListsKeep
<1>7. WqHalf'
  <2> SUFFICES ASSUME NEW u \in Thread, pc'[u] = "wq_insert"
               PROVE  k'.stat[Worker] = "SUSPEND" /\ Off(k', Worker) /\ Worker \notin Timed(k')
    BY DEF WqHalf
  <2>1. u = t BY <1>1, <1>3 DEF WqHand
  <2> QED BY <1>3, <2>1
<1>8. WqBelow' BY <1>1, <1>2, <1>3, WqBelowKeep
<1>9. Worker \notin On(k, WqSem) BY DEF WqThreads, WqLists
<1> QED BY <1>1, <1>3, <1>4, <1>5, <1>6, <1>7, <1>8, <1>9 DEF WqThreads

\* The kernel is left alone.
LEMMA WqStays ==
  ASSUME WqThreads, k' = k
  PROVE  /\ Resting(k') /\ Kept(k, k') /\ k'.prio = k.prio /\ Same(k, k', {Worker})
         /\ k'.stat = k.stat /\ OnNone(k, Worker) => OnNone(k', Worker)
  BY WqFacts DEF Kept, Same

\* The work thread is on no list of its own.
LEMMA WqWorkerFree ==
  ASSUME WqThreads
  PROVE  OnNone(k, Worker)
  BY WqFacts DEF WqThreads, WqLists, OnNone

\* A rescheduling.
LEMMA WqRescheduled ==
  ASSUME WqThreads, k.nest = 0, NEW s, Resting(s), s.nest = 0, s.prio = k.prio,
         k' = rt_schedule(s)
  PROVE  /\ Resting(k') /\ Serves(k') /\ k'.nest = 0 /\ k'.prio = k.prio /\ Same(s, k', {})
         /\ k'.cur \in Thread /\ Top(k')
<1>1. Resting(k') /\ Same(s, k', {}) /\ Chosen(s, k') BY ScheduleRests
<1>2. Top(k') BY ScheduleTop
<1>3. k'.prio = s.prio BY ScheduleRanked
<1> QED BY <1>1, <1>2, <1>3 DEF Chosen, Serves

LEMMA WqSwitches ==
  ASSUME WqOK, NEW t \in Thread, NEW l, NEW m, ScheduleStep(t, l, m), UNCHANGED wq,
         \/ l = "sched" /\ m = "run"
         \/ t = Worker /\ <<l, m>> \in {<<"wq_asleep", "wq_take">>, <<"wq_napping", "wq_func">>}
  PROVE  WqOK'
<1>1. Running(t, l) /\ k' = rt_schedule(k) /\ Goto(t, m) /\ isr' = isr BY DEF ScheduleStep
<1>2. k.cur = t /\ pc[t] = l BY <1>1 DEF Running
<1>3. Runs(WqEnters) /\ Resting(k) /\ Worker \in Thread /\ WqThreads BY WqFacts DEF WqOK
<1>4. l # "run" /\ l # "wq_ack" /\ m # "wq_ack" /\ m # "wq_insert" /\ m # "wq_suspend"
      /\ l \notin WqHand /\ m \notin WqHand
  BY DEF WqHand
<1>5. k.nest = 0 BY <1>2, <1>3, <1>4 DEF WqThreads, WqNest
<1>6. /\ Runs(WqEnters)' /\ Same(k, k', {}) /\ Chosen(k, k')
      /\ pc'[t] = m /\ \A u \in Thread : u # t => pc'[u] = pc[u]
  BY <1>3, <1>4, <1>5, RunsSchedule
<1>7. /\ Resting(k') /\ k'.nest = 0 /\ k'.prio = k.prio /\ k'.cur \in Thread /\ Top(k')
  BY <1>1, <1>3, <1>5, WqRescheduled
<1>8. WqPlaces'
  <2>1. m \in WqOwn => t = Worker BY DEF WqOwn
  <2> QED BY <1>3, <1>4, <1>6, <2>1 DEF WqPlaces, WqThreads
<1>9. WqNest' BY <1>3, <1>4, <1>5, <1>6, <1>7 DEF WqNest, WqThreads
<1>10. WqLists' /\ On(k', WqSem) = On(k, WqSem) BY <1>3, <1>6, <1>7, WqListsKeep
<1>11. WqHalf' BY <1>3, <1>4, <1>6, WqHalfKeep
<1>12. WqBelow' BY <1>3, <1>7, WqBelowKeep
<1>13. WqThreads' BY <1>3, <1>6, <1>7, <1>8, <1>9, <1>10, <1>11, <1>12 DEF WqThreads
<1>14. k'.stat[Worker] = k.stat[Worker] BY <1>3, <1>6 DEF Same
<1>15. \A u \in Thread : pc[u] \in WqHand => pc'[u] \in WqHand BY <1>2, <1>4, <1>6
<1>16. WqFields' BY DEF WqOK, WqFields
<1>17. WqWaiters' /\ WqWork'
  <2>1. CASE t # Worker
    <3>1. pc'[Worker] = pc[Worker] BY <1>3, <1>6, <2>1
    <3> QED BY <1>3, <1>10, <1>14, <1>15, <3>1, WqWorkKeep DEF WqOK
  <2>2. CASE t = Worker
    <3>1. WqWaiters' BY <1>2, <1>4, <1>6, <1>10, <2>2 DEF WqOK, WqWaiters
    <3>2. pc'[Worker] # "wq_suspend" BY <1>4, <1>6, <2>2
    <3>3. wq'.work_current # NoWork => pc'[Worker] \in {"wq_func", "wq_napping"}
      BY <1>2, <1>6, <2>2 DEF WqOK, WqWork
    <3>4. WorkerAsleep' /\ wq'.work_list # <<>> => \E u \in Thread : pc'[u] \in WqHand
      <4>1. WorkerAsleep' => WorkerAsleep BY <1>2, <1>6, <1>14, <2>2 DEF WorkerAsleep
      <4> QED BY <1>15, <4>1 DEF WqOK, WqWork
    <3> QED BY <3>1, <3>2, <3>3, <3>4 DEF WqWork
  <2> QED BY <2>1, <2>2
<1> QED BY <1>13, <1>16, <1>17 DEF WqOK

-----------------------------------------------------------------------------
(* The steps of the work thread.                                           *)

LEMMA WqTestKeeps ==
  ASSUME WqOK, WqTest
  PROVE  WqOK'
<1> DEFINE m == IF wq.work_list = <<>> THEN "wq_suspend" ELSE "wq_take"
<1>0. WqThreads /\ WqFields /\ WqWork /\ WqWaiters BY DEF WqOK
<1>1. /\ Running(Worker, "run") /\ Prog[Worker] # {} /\ Goto(Worker, m)
      /\ k' = k /\ isr' = isr /\ wq' = wq
  BY DEF WqTest, Calls
<1>2. m \in WqOwn \ {"wq_ack"} BY DEF WqOwn
<1>3. "run" \notin WqEnters BY DEF WqEnters
<1>4. k.stat[Worker] = "READY" /\ OnNone(k, Worker) /\ pc[Worker] = "run" BY <1>0, <1>1, <1>3, WqWorker
<1> HIDE DEF m
<1>5. /\ WqThreads' /\ On(k', WqSem) = On(k, WqSem) /\ pc'[Worker] = m
  BY <1>0, <1>1, <1>2, <1>3, <1>4, WqStays, WqWorkerMoves
<1>6. pc'[Worker] = "wq_suspend" => wq.work_list = <<>> BY <1>5 DEF m
<1>7. WqWork' BY <1>0, <1>1, <1>4, <1>5, <1>6 DEF WqWork, WorkerAsleep
<1>8. WqWaiters' BY <1>0, <1>1, <1>4, <1>5 DEF WqWaiters, WqWork
<1> QED BY <1>0, <1>1, <1>5, <1>7, <1>8 DEF WqOK, WqFields

LEMMA WqSuspendKeeps ==
  ASSUME WqOK, WqSuspend
  PROVE  WqOK'
<1> DEFINE a == rt_schedule_remove_thread([k EXCEPT !.stat[Worker] = "SUSPEND"], Worker)
           r == rt_timer_stop(a, Worker)
<1>0. WqThreads /\ WqFields /\ WqWork /\ WqWaiters BY DEF WqOK
<1>1. /\ Running(Worker, "wq_suspend") /\ Goto(Worker, "wq_asleep")
      /\ k' = rt_thread_suspend(k, Worker) /\ isr' = isr /\ wq' = wq
  BY DEF WqSuspend
<1>2. "wq_asleep" \in WqOwn \ {"wq_ack"} /\ "wq_asleep" \in WqEnters
      /\ "wq_suspend" \notin WqEnters \cup {"wq_ack"}
  BY DEF WqOwn, WqEnters
<1>3. /\ Worker \in Thread \ {Idle} /\ k.stat[Worker] = "READY" /\ OnNone(k, Worker)
      /\ pc[Worker] = "wq_suspend"
  BY <1>0, <1>1, <1>2, WqWorker
<1>4. Resting(k) /\ KernelOK(k) /\ k \in KernelState BY <1>0, WqFacts DEF KernelOK
<1>5. k' = r BY <1>1, <1>3 DEF rt_thread_suspend
<1>6. /\ KernelOK(r) /\ Kept(k, r) /\ r.stat[Worker] = "SUSPEND"
      /\ Same(k, r, {Worker}) /\ Unmoved(k, r)
  BY <1>3, <1>4, SuspendThread, SuspendSame
<1>7. a \in KernelState
  <2>1. "SUSPEND" \in Stat BY DEF Stat
  <2> QED BY <1>3, <1>4, <2>1, RemoveThread DEF KernelOK
<1>8. a.prio = k.prio
  <2>1. "SUSPEND" \in Stat BY DEF Stat
  <2> QED BY <1>3, <1>4, <2>1, RemoveCodes DEF Codes
<1> HIDE DEF a
<1>9. r.prio = k.prio BY <1>7, <1>8, UnlinkCodes DEF Codes
<1> HIDE DEF r
<1>10. Resting(r) BY <1>3, <1>4, <1>6, OneSleeps
<1>11. OnNone(r, Worker) BY <1>3, <1>6 DEF OnNone, Unmoved, On
<1>12. WqThreads' /\ On(k', WqSem) = On(k, WqSem) /\ pc'[Worker] = "wq_asleep"
  BY <1>0, <1>1, <1>2, <1>5, <1>6, <1>9, <1>10, <1>11, WqWorkerMoves
<1>13. WqWork' BY <1>0, <1>1, <1>3, <1>12 DEF WqWork
<1>14. WqWaiters' BY <1>0, <1>1, <1>3, <1>12 DEF WqWaiters, WqWork
<1> QED BY <1>0, <1>1, <1>12, <1>13, <1>14 DEF WqOK, WqFields

LEMMA WqTakeKeeps ==
  ASSUME WqOK, WqTake
  PROVE  WqOK'
<1>0. WqThreads /\ WqFields /\ WqWork /\ WqWaiters BY DEF WqOK
<1>1. /\ Running(Worker, "wq_take") /\ Goto(Worker, "wq_func") /\ k' = k /\ isr' = isr
      /\ wq' = [wq EXCEPT !.work_current = Head(wq.work_list), !.work_list = Tail(@)]
  BY DEF WqTake
<1>2. "wq_func" \in WqOwn \ {"wq_ack"} /\ "wq_take" \notin WqEnters \cup {"wq_ack"}
  BY DEF WqOwn, WqEnters
<1>3. k.stat[Worker] = "READY" /\ OnNone(k, Worker) /\ pc[Worker] = "wq_take"
  BY <1>0, <1>1, <1>2, WqWorker
<1>4. WqThreads' /\ On(k', WqSem) = On(k, WqSem) /\ pc'[Worker] = "wq_func"
  BY <1>0, <1>1, <1>2, <1>3, WqStays, WqWorkerMoves
<1>5. wq'.sem = wq.sem /\ DOMAIN wq' = DOMAIN wq BY <1>0, <1>1 DEF WqFields
<1>6. WqWork' BY <1>4 DEF WqWork, WorkerAsleep
<1>7. WqWaiters' BY <1>0, <1>3, <1>4, <1>5 DEF WqWaiters, WqWork
<1> QED BY <1>0, <1>4, <1>5, <1>6, <1>7 DEF WqOK, WqFields

LEMMA WqNapKeeps ==
  ASSUME WqOK, WqNap
  PROVE  WqOK'
<1>0. WqThreads /\ WqFields /\ WqWork /\ WqWaiters BY DEF WqOK
<1>1. CASE IpcSchedule(Worker, "wq_napping", "wq_func") /\ UNCHANGED wq
  <2>1. Worker \in Thread BY WqAssumption
  <2> QED BY <1>1, <2>1, WqSwitches DEF IpcSchedule
<1>2. CASE /\ Running(Worker, "wq_func") /\ Goto(Worker, "wq_napping") /\ isr' = isr /\ wq' = wq
           /\ k' = rt_thread_sleep(k, Worker, 1)
  <2> DEFINE r == rt_thread_sleep(k, Worker, 1)
  <2>1. "wq_napping" \in WqOwn \ {"wq_ack"} /\ "wq_napping" \in WqEnters
        /\ "wq_func" \notin WqEnters \cup {"wq_ack"}
    BY DEF WqOwn, WqEnters
  <2>2. /\ Worker \in Thread \ {Idle} /\ k.stat[Worker] = "READY" /\ OnNone(k, Worker)
        /\ pc[Worker] = "wq_func"
    BY <1>0, <1>2, <2>1, WqWorker
  <2>3. Resting(k) /\ KernelOK(k) BY <1>0, WqFacts
  <2>4. /\ KernelOK(r) /\ Kept(k, r) /\ r.stat[Worker] = "SUSPEND"
        /\ Same(k, r, {Worker}) /\ Unmoved(k, r) /\ r.prio = k.prio
    BY <2>2, <2>3, SleepThread, SleepSame, SleepMoves DEF Codes
  <2> HIDE DEF r
  <2>5. Resting(r) BY <2>2, <2>3, <2>4, OneSleeps
  <2>6. OnNone(r, Worker) BY <2>2, <2>4 DEF OnNone, Unmoved, On
  <2>7. k' = r BY <1>2 DEF r
  <2>8. WqThreads' /\ On(k', WqSem) = On(k, WqSem) /\ pc'[Worker] = "wq_napping"
    BY <1>0, <1>2, <2>1, <2>4, <2>5, <2>6, <2>7, WqWorkerMoves
  <2>9. WqWork' BY <2>8 DEF WqWork, WorkerAsleep
  <2>10. WqWaiters' BY <1>0, <1>2, <2>2, <2>8 DEF WqWaiters
  <2> QED BY <1>0, <1>2, <2>8, <2>9, <2>10 DEF WqOK, WqFields
<1> QED BY <1>1, <1>2 DEF WqNap

LEMMA WqDoneKeeps ==
  ASSUME WqOK, WqDone
  PROVE  WqOK'
<1> DEFINE a == [k EXCEPT !.err[Worker] = "EOK"]
           r == rt_enter_critical(a)
<1>0. WqThreads /\ WqFields /\ WqWork /\ WqWaiters BY DEF WqOK
<1>1. /\ Running(Worker, "wq_func") /\ Goto(Worker, "wq_ack") /\ isr' = isr /\ k' = r
      /\ wq' = [wq EXCEPT !.work_current = NoWork]
  BY DEF WqDone
<1>2. "wq_func" \notin WqEnters BY DEF WqEnters
<1>3. /\ Worker \in Thread \ {Idle} /\ k.cur = Worker /\ pc[Worker] = "wq_func" /\ isr = "none"
      /\ k.stat[Worker] = "READY" /\ OnNone(k, Worker) /\ k.nest = 0
      /\ \A u \in Thread : pc[u] # "wq_insert"
  BY <1>0, <1>1, <1>2, WqWorker
<1>4. Runs(WqEnters) /\ Resting(k) /\ KernelOK(k) /\ k.prio = InitPrio
  BY <1>0, WqFacts DEF WqThreads
<1>5. /\ Resting(a) /\ Same(k, a, {Worker}) /\ Kept(k, a)
      /\ a.stat[Worker] = "READY" /\ OnNone(a, Worker)
  BY <1>3, <1>4, CodeRests
<1>6. a.prio = k.prio /\ "nest" \in DOMAIN a BY <1>4 DEF KernelOK, KernelState
<1> HIDE DEF a
<1>7. r.prio = k.prio BY <1>6 DEF rt_enter_critical
<1>8. Resting(r) /\ Same(a, r, {}) /\ r.cur = a.cur /\ r.nest = a.nest + 1 BY <1>5, EnterRests
<1> HIDE DEF r
<1>9. Same(k, r, {Worker}) /\ r.cur = Worker /\ r.nest = 1 /\ r.stat[Worker] = "READY"
  BY <1>3, <1>5, <1>8 DEF Same, Kept
<1>10. OnNone(r, Worker) BY <1>3, <1>8, <1>9, RestingOnNone
<1>11. Runs(WqEnters)' /\ pc'[Worker] = "wq_ack" /\ \A u \in Thread : u # Worker => pc'[u] = pc[u]
  BY <1>1, <1>3, <1>4, <1>8, <1>9, RunsOn
<1>12. WqPlaces' BY <1>0, <1>11 DEF WqPlaces, WqThreads, WqOwn, WqHand
<1>13. WqNest' BY <1>1, <1>9, <1>11 DEF WqNest
<1>14. WqLists' /\ On(k', WqSem) = On(k, WqSem) \ {Worker}
  BY <1>0, <1>1, <1>3, <1>8, <1>9, <1>10, WqListsKeep
<1>15. WqHalf' BY <1>0, <1>1, <1>3, <1>9, <1>11, WqHalfKeep
<1>16. WqBelow' BY <1>0, <1>1, <1>3, <1>7, <1>8, <1>9, WqBelowKeep
<1>17. WqThreads' BY <1>1, <1>4, <1>7, <1>11, <1>12, <1>13, <1>14, <1>15, <1>16 DEF WqThreads
<1>18. wq'.work_current = NoWork /\ wq'.sem = wq.sem /\ DOMAIN wq' = DOMAIN wq
  BY <1>0, <1>1 DEF WqFields
<1>19. WqWork' BY <1>11, <1>18 DEF WqWork, WorkerAsleep
<1>20. WqWaiters' BY <1>0, <1>3, <1>11, <1>18 DEF WqWaiters
<1> QED BY <1>0, <1>17, <1>18, <1>19, <1>20 DEF WqOK, WqFields

LEMMA WqAckKeeps ==
  ASSUME WqOK, WqAck
  PROVE  WqOK'
<1>0. WqThreads /\ WqFields /\ WqWork /\ WqWaiters BY DEF WqOK
<1>1. Running(Worker, "wq_ack") /\ isr' = isr BY DEF WqAck
<1>2. "wq_ack" \notin WqEnters BY DEF WqEnters
<1>3. /\ Worker \in Thread \ {Idle} /\ k.cur = Worker /\ pc[Worker] = "wq_ack" /\ isr = "none"
      /\ k.stat[Worker] = "READY" /\ OnNone(k, Worker)
      /\ \A u \in Thread : pc[u] # "wq_insert"
  BY <1>0, <1>1, <1>2, WqWorker
<1>4. /\ Runs(WqEnters) /\ Resting(k) /\ KernelOK(k) /\ k.prio = InitPrio /\ k.nest = 1
      /\ WqSem \in WaitList /\ On(k, WqSem) \subseteq Thread /\ Worker \notin On(k, WqSem)
      /\ DOMAIN pc = Thread
  BY <1>0, <1>3, WqFacts DEF WqThreads, WqNest, WqLists
<1>5. wq.work_current = NoWork BY <1>0, <1>3 DEF WqWork
<1>6. CASE wq.sem = 1
  <2> DEFINE q == rt_exit_critical(k)
             r == rt_schedule(q)
  <2>1. wq' = [wq EXCEPT !.sem = 0] /\ k' = r /\ Goto(Worker, "run") BY <1>6 DEF WqAck
  <2>2. Resting(r) /\ Same(k, r, {}) /\ Serves(r) /\ r.nest = 0 BY <1>4, ExitRests
  <2>3. q = [k EXCEPT !.nest = 0] BY <1>4 DEF rt_exit_critical
  <2>4. Resting(q) /\ q.nest = 0 BY <1>4, <2>3, NestRests
  <2>5. q.prio = k.prio BY <1>4, <2>3 DEF KernelOK, KernelState
  <2> HIDE DEF q
  <2>6. Top(r) /\ r.prio = k.prio BY <2>4, <2>5, ScheduleTop, ScheduleRanked
  <2> HIDE DEF r
  <2>7. Runs(WqEnters)' /\ pc'[Worker] = "run" /\ \A u \in Thread : u # Worker => pc'[u] = pc[u]
    BY <1>1, <1>3, <1>4, <2>1, <2>2, RunsOn
  <2>8. WqPlaces' BY <1>0, <2>7 DEF WqPlaces, WqThreads, WqOwn, WqHand
  <2>9. WqNest' BY <2>1, <2>2, <2>7 DEF WqNest
  <2>10. WqLists' /\ On(k', WqSem) = On(k, WqSem) BY <1>0, <2>1, <2>2, WqListsKeep
  <2>11. WqHalf' BY <1>0, <1>3, <2>1, <2>2, <2>7, WqHalfKeep
  <2>12. WqBelow' BY <1>0, <2>1, <2>2, <2>6, WqBelowKeep DEF Serves
  <2>13. WqThreads' BY <1>4, <2>1, <2>6, <2>7, <2>8, <2>9, <2>10, <2>11, <2>12 DEF WqThreads
  <2>14. wq'.sem = 0 /\ wq'.work_current = NoWork /\ DOMAIN wq' = DOMAIN wq
    BY <1>0, <1>5, <2>1 DEF WqFields
  <2>15. WqWork' BY <2>7, <2>14 DEF WqWork, WorkerAsleep
  <2>16. WqWaiters' BY <1>0, <1>6, <2>10, <2>14 DEF WqWaiters
  <2> QED BY <1>0, <2>13, <2>14, <2>15, <2>16 DEF WqOK, WqFields
<1>7. CASE wq.sem # 1
  <2> DEFINE M == Firsts(k, WqSem)
             r == ResumeFirst(k, WqSem)
  <2>1. /\ wq' = IF k.list[WqSem] = <<>> THEN [wq EXCEPT !.sem = 1] ELSE wq
        /\ k' = r /\ pc' = pc
    BY <1>7 DEF WqAck
  <2>2. /\ M \subseteq On(k, WqSem) /\ Resting(r) /\ Same(k, r, M) /\ Kept(k, r)
        /\ \A t \in M : OnNone(r, t)
    BY <1>4, FirstRests
  <2>3. r.prio = k.prio
    <3>1. k.list[WqSem] # <<>> => Head(k.list[WqSem]) \in Thread
                                  /\ k.stat[Head(k.list[WqSem])] = "SUSPEND"
      BY <1>4, RestingFields
    <3> QED BY <1>4, <3>1, ResumeCodes DEF ResumeFirst, rt_ipc_list_resume, Codes
  <2> HIDE DEF r, M
  <2>4. M \in SUBSET Thread /\ Worker \notin M BY <1>4, <2>2
  <2>5. r.cur = Worker /\ r.nest = 1 /\ r.stat[Worker] = "READY"
    BY <1>3, <1>4, <2>2, <2>4 DEF Kept, Same
  <2>6. Runs(WqEnters)' BY <1>1, <1>3, <1>4, <2>1, <2>2, <2>5, RunsStay
  <2>7. WqPlaces' BY <1>0, <2>1 DEF WqPlaces, WqThreads
  <2>8. WqNest' BY <1>3, <2>1, <2>5 DEF WqNest
  <2>9. WqLists' /\ On(k', WqSem) = On(k, WqSem) \ M BY <1>0, <2>1, <2>2, <2>4, WqListsKeep
  <2>10. WqHalf' BY <1>0, <1>3, <2>1, <2>2, WqHalfKeep
  <2>11. WqBelow' BY <1>0, <1>3, <2>1, <2>2, <2>3, <2>5, WqBelowKeep
  <2>12. WqThreads' BY <1>4, <2>1, <2>3, <2>6, <2>7, <2>8, <2>9, <2>10, <2>11 DEF WqThreads
  <2>13. WqFields' /\ wq'.work_current = NoWork BY <1>0, <1>5, <2>1 DEF WqFields
  <2>14. wq'.sem \in {0, 1} /\ (wq'.sem = 1 => k.list[WqSem] = <<>>)
    BY <1>0, <1>7, <2>1 DEF WqFields, WqWaiters
  <2>15. wq'.sem = 1 => On(k', WqSem) = {} BY <1>4, <2>9, <2>14, RestingFields
  <2>16. WqWork' BY <1>3, <2>1, <2>13 DEF WqWork, WorkerAsleep
  <2>17. WqWaiters' BY <1>3, <2>1, <2>14, <2>15 DEF WqWaiters
  <2> QED BY <2>12, <2>13, <2>16, <2>17 DEF WqOK
<1> QED BY <1>6, <1>7

-----------------------------------------------------------------------------
(* The steps of the thread that submits works.                             *)

\* Nobody's place changes, nor the kernel.
LEMMA WqRestsKeep ==
  ASSUME WqThreads, UNCHANGED <<k, isr, pc>>
  PROVE  WqThreads'
<1>1. k' = k /\ isr' = isr /\ pc' = pc OBVIOUS
<1>2. Runs(WqEnters)' BY <1>1 DEF WqThreads, Runs
<1>3. WqPlaces' /\ WqNest' /\ WqLists' /\ WqHalf' /\ WqBelow'
  BY <1>1 DEF WqThreads, WqPlaces, WqNest, WqLists, WqHalf, WqBelow
<1> QED BY <1>1, <1>2, <1>3 DEF WqThreads

LEMMA WqDoworkKeeps ==
  ASSUME OneSubmitterBelow, WqOK, NEW t \in Thread, NEW w, WqDowork(t, w)
  PROVE  WqOK'
<1> DEFINE m == IF wq.work_current = NoWork THEN "wq_resume" ELSE "run"
<1>0. WqThreads /\ WqFields /\ WqWork /\ WqWaiters BY DEF WqOK
<1>1. /\ Calls(t, "dowork") /\ Goto(t, m) /\ k' = k /\ isr' = isr
      /\ wq' = [wq EXCEPT !.work_list = Append(NotQueued(w), w)]
  BY DEF WqDowork, Submitted
<1>2. t \in WqUser /\ Running(t, "run") BY <1>1, WqCallsUser
<1>3. "run" \notin WqOwn /\ m \in WqHand \cup {"run", "sched"} /\ m # "wq_insert"
  BY DEF WqOwn, WqHand
<1>4. k.stat[Worker] = "SUSPEND" /\ t \in Thread BY <1>0, <1>2, <1>3, WqSubmitter
<1>5. OnNone(k, Worker) BY <1>0, WqWorkerFree
<1> HIDE DEF m
<1>6. /\ WqThreads' /\ On(k', WqSem) = On(k, WqSem)
      /\ pc'[t] = m /\ t # Worker /\ \A u \in Thread : u # t => pc'[u] = pc[u]
  BY <1>0, <1>1, <1>2, <1>3, <1>4, <1>5, WqStays, WqUserMoves
<1>7. Worker \in Thread BY WqAssumption
<1>8. wq'.sem = wq.sem /\ wq'.work_current = wq.work_current /\ DOMAIN wq' = DOMAIN wq
  BY <1>0, <1>1 DEF WqFields
<1>9. WorkerAsleep' => \E u \in Thread : pc'[u] \in WqHand
  <2>1. WorkerAsleep' => wq.work_current = NoWork BY <1>0, <1>6, <1>7 DEF WqWork, WorkerAsleep
  <2>2. wq.work_current = NoWork => pc'[t] \in WqHand BY <1>6 DEF m, WqHand
  <2> QED BY <1>4, <2>1, <2>2
<1>10. WqWork' BY <1>0, <1>4, <1>6, <1>7, <1>8, <1>9 DEF WqWork
<1>11. WqWaiters' BY <1>0, <1>6, <1>7, <1>8 DEF WqWaiters
<1> QED BY <1>0, <1>6, <1>8, <1>10, <1>11 DEF WqOK, WqFields

LEMMA WqSubmitMoreKeeps ==
  ASSUME WqOK, NEW w, WqSubmitMore(w)
  PROVE  WqOK'
<1>0. WqThreads /\ WqFields /\ WqWork /\ WqWaiters BY DEF WqOK
<1>1. /\ Running(Worker, "wq_func") /\ k' = k /\ isr' = isr /\ pc' = pc
      /\ wq' = [wq EXCEPT !.work_list = Append(NotQueued(w), w)]
  BY DEF WqSubmitMore, Submitted
<1>2. WqThreads' BY <1>0, <1>1, WqRestsKeep
<1>3. wq'.sem = wq.sem /\ wq'.work_current = wq.work_current /\ DOMAIN wq' = DOMAIN wq
  BY <1>0, <1>1 DEF WqFields
<1>4. pc'[Worker] = "wq_func" BY <1>1 DEF Running
<1>5. WqWork' BY <1>4 DEF WqWork, WorkerAsleep
<1>6. WqWaiters' BY <1>0, <1>1, <1>3 DEF WqWaiters
<1> QED BY <1>0, <1>2, <1>3, <1>5, <1>6 DEF WqOK, WqFields

LEMMA WqResumeKeeps ==
  ASSUME OneSubmitterBelow, WqOK, NEW t \in Thread, WqResume(t)
  PROVE  WqOK'
<1>0. /\ WqThreads /\ WqFields /\ WqWork /\ WqWaiters /\ isr' = isr /\ wq' = wq
  BY DEF WqOK, WqResume
<1>1. /\ Resting(k) /\ KernelOK(k) /\ k \in KernelState /\ Worker \in Thread
      /\ OnNone(k, Worker)
  BY <1>0, WqFacts, WqWorkerFree DEF KernelOK
<1>2. ASSUME NEW l \in WqHand, Running(t, l)
      PROVE  /\ t \in WqUser /\ l \notin WqOwn /\ l # "sched" /\ pc[t] = l
             /\ k.stat[Worker] = "SUSPEND" /\ k.stat[Worker] # "READY"
  <2>1. pc[t] = l BY <1>2 DEF Running
  <2>2. t \in WqUser BY <1>0, <1>2, <2>1 DEF WqThreads, WqPlaces
  <2>3. l \notin WqOwn /\ l # "sched" BY DEF WqHand, WqOwn
  <2> QED BY <1>0, <1>2, <2>1, <2>2, <2>3, WqSubmitter
\* Where the call does not end, the thread is still on its way to the wake-up.
<1>3. ASSUME NEW m, m \in WqHand, pc'[t] = m, t # Worker, \A u \in Thread : u # t => pc'[u] = pc[u],
             WqThreads', On(k', WqSem) = On(k, WqSem), k'.stat[Worker] = k.stat[Worker]
      PROVE  WqOK'
  <2>1. pc'[Worker] = pc[Worker] BY <1>1, <1>3
  <2>2. \A u \in Thread : pc[u] \in WqHand => pc'[u] \in WqHand BY <1>3
  <2> QED BY <1>0, <1>3, <2>1, <2>2, WqWorkKeep DEF WqOK
<1>4. CASE Running(t, "wq_resume") /\ k' = k
           /\ Goto(t, IF k.stat[Worker] = "SUSPEND" THEN "wq_unlink" ELSE "sched")
  <2>1. "wq_resume" \in WqHand /\ "wq_unlink" \in WqHand /\ "wq_unlink" # "wq_insert" BY DEF WqHand
  <2>2. /\ t \in WqUser /\ "wq_resume" \notin WqOwn /\ k.stat[Worker] = "SUSPEND"
    BY <1>2, <1>4, <2>1
  <2>3. Goto(t, "wq_unlink") BY <1>4, <2>2
  <2>4. /\ WqThreads' /\ On(k', WqSem) = On(k, WqSem)
        /\ pc'[t] = "wq_unlink" /\ t # Worker /\ \A u \in Thread : u # t => pc'[u] = pc[u]
    BY <1>0, <1>1, <1>4, <2>1, <2>2, <2>3, WqStays, WqUserMoves
  <2> QED BY <1>3, <1>4, <2>1, <2>4
<1>5. CASE Running(t, "wq_unlink") /\ k' = ResumeUnlink(k, Worker) /\ Goto(t, "wq_insert")
  <2> DEFINE a == rt_list_remove(k, Worker)
             r == rt_timer_stop(a, Worker)
  <2>1. "wq_unlink" \in WqHand /\ "wq_insert" \in WqHand BY DEF WqHand
  <2>2. /\ t \in WqUser /\ "wq_unlink" \notin WqOwn /\ k.stat[Worker] = "SUSPEND"
        /\ k.stat[Worker] # "READY"
    BY <1>2, <1>5, <2>1
  <2>3. k' = r BY <1>5 DEF ResumeUnlink
  <2>4. /\ KernelOK(r) /\ Frame(k, r, Worker) /\ Kept(k, r)
        /\ r.stat[Worker] = "SUSPEND" /\ Off(r, Worker) /\ Worker \notin Timed(r)
    BY <1>1, <2>2, UnlinkSuspended DEF ResumeUnlink
  <2>5. a \in KernelState BY <1>1, <2>2, UnlinkWaiting DEF KernelOK
  <2>6. Codes(k, a) /\ Left(k, a, Worker) BY <1>1, UnlinkCodes, UnlinkMoves
  <2> HIDE DEF a
  <2>7. Codes(a, r) /\ Unmoved(a, r) BY <2>5, UnlinkCodes, UnlinkMoves
  <2> HIDE DEF r
  <2>8. r.prio = k.prio /\ r.err = k.err /\ Left(k, r, Worker)
    BY <2>6, <2>7 DEF Codes, Left, Unmoved
  <2>9. Same(k, r, {Worker}) BY <1>1, <2>4, <2>8, FrameSame
  <2>10. Resting(r) BY <1>1, <2>4, <2>9, OneSleeps
  <2>11. OnNone(r, Worker) BY <2>4 DEF OnNone, Off, ListHead
  <2>12. /\ WqThreads' /\ On(k', WqSem) = On(k, WqSem)
         /\ pc'[t] = "wq_insert" /\ t # Worker /\ \A u \in Thread : u # t => pc'[u] = pc[u]
    BY <1>0, <1>5, <2>1, <2>2, <2>3, <2>4, <2>8, <2>9, <2>10, <2>11, WqUserMoves
  <2> QED BY <1>3, <2>1, <2>2, <2>3, <2>4, <2>12
<1>6. CASE Running(t, "wq_insert") /\ k' = rt_schedule_insert_thread(k, Worker) /\ Goto(t, "sched")
  <2> DEFINE r == rt_schedule_insert_thread(k, Worker)
  <2>1. "wq_insert" \in WqHand BY DEF WqHand
  <2>2. /\ t \in WqUser /\ "wq_insert" \notin WqOwn /\ k.stat[Worker] = "SUSPEND"
        /\ pc[t] = "wq_insert"
    BY <1>2, <1>6, <2>1
  <2>3. Off(k, Worker) /\ Worker \notin Timed(k) BY <1>0, <2>2 DEF WqThreads, WqHalf
  <2>4. /\ KernelOK(r) /\ Frame(k, r, Worker) /\ Kept(k, r)
        /\ r.stat[Worker] = "READY" /\ ~Off(r, Worker)
    BY <1>1, <2>3, InsertThread
  <2>5. Codes(k, r) /\ Unmoved(k, r) BY <1>1, QueueCodes, QueueMoves
  <2> HIDE DEF r
  <2>6. Same(k, r, {Worker}) BY <2>4, <2>5 DEF Same, Frame, Codes, Unmoved, On
  <2>7. Resting(r) BY <1>1, <2>4, <2>6, OneRests
  <2>8. OnNone(r, Worker) BY <1>1, <2>5 DEF OnNone, Unmoved, On
  <2>9. r.prio = k.prio BY <2>5 DEF Codes
  <2>10. k' = r BY <1>6 DEF r
  <2>11. /\ WqThreads' /\ On(k', WqSem) = On(k, WqSem)
         /\ pc'[t] = "sched" /\ t # Worker /\ \A u \in Thread : u # t => pc'[u] = pc[u]
    BY <1>0, <1>6, <2>2, <2>4, <2>6, <2>7, <2>8, <2>9, <2>10, WqUserMoves
  <2>12. pc'[Worker] = pc[Worker] BY <1>1, <2>11
  <2>13. k'.stat[Worker] = "READY" BY <2>4, <2>10
  <2>14. WqWork' BY <1>0, <2>2, <2>12, <2>13 DEF WqWork, WorkerAsleep
  <2>15. WqWaiters' BY <1>0, <2>11, <2>12 DEF WqWaiters
  <2> QED BY <1>0, <2>11, <2>14, <2>15 DEF WqOK, WqFields
<1> QED BY <1>4, <1>5, <1>6 DEF WqResume

\* A work is taken from the list, or every one.
LEMMA WqDropped ==
  ASSUME OneSubmitterBelow, WqOK, NEW t \in WqUser, Running(t, "run"), WqThreads',
         pc' = pc, k'.stat[Worker] = k.stat[Worker], On(k', WqSem) = On(k, WqSem),
         NEW q, wq' = [wq EXCEPT !.work_list = q], wq.work_list = <<>> => q = <<>>
  PROVE  WqOK'
<1>0. WqThreads /\ WqFields /\ WqWork /\ WqWaiters BY DEF WqOK
<1>1. wq'.sem = wq.sem /\ wq'.work_current = wq.work_current /\ wq'.work_list = q
      /\ DOMAIN wq' = DOMAIN wq
  BY <1>0 DEF WqFields
<1>2. "run" \notin WqOwn /\ "run" \notin WqHand BY DEF WqOwn, WqHand
<1>3. k.stat[Worker] = "SUSPEND" /\ pc[t] = "run" /\ \A u \in Thread : u # t => pc[u] \notin WqHand
  BY <1>0, <1>2, WqSubmitter
<1>4. \A u \in Thread : pc[u] \notin WqHand BY <1>2, <1>3
<1>5. WqWork'
  <2>1. pc'[Worker] # "wq_suspend" BY <1>0, <1>3 DEF WqWork
  <2>2. WorkerAsleep' => wq'.work_list = <<>> BY <1>0, <1>1, <1>4 DEF WqWork, WorkerAsleep
  <2> QED BY <1>0, <1>1, <2>1, <2>2 DEF WqWork
<1>6. WqWaiters' BY <1>0, <1>1 DEF WqWaiters
<1> QED BY <1>0, <1>1, <1>5, <1>6 DEF WqOK, WqFields

LEMMA NotQueuedEmpty ==
  ASSUME NEW w, wq.work_list = <<>>
  PROVE  NotQueued(w) = <<>>
<1>1. ToSet(wq.work_list) = {} BY DEF ToSet
<1> QED BY <1>1 DEF NotQueued, Without

LEMMA WqCancelKeeps ==
  ASSUME OneSubmitterBelow, WqOK, NEW t \in WqUser, Running(t, "run"), NEW w,
         wq' = [wq EXCEPT !.work_list = NotQueued(w)], UNCHANGED <<k, isr, pc>>
  PROVE  WqOK'
<1> DEFINE q == NotQueued(w)
<1>1. wq.work_list = <<>> => q = <<>> BY NotQueuedEmpty
<1>2. WqThreads' /\ k' = k /\ pc' = pc BY WqRestsKeep DEF WqOK
<1>3. wq' = [wq EXCEPT !.work_list = q] OBVIOUS
<1> HIDE DEF q
<1> QED BY <1>1, <1>2, <1>3, WqDropped

LEMMA WqCancelSyncKeeps ==
  ASSUME OneSubmitterBelow, WqOK, NEW t \in Thread, NEW w \in Work, WqCancelSync(t, w)
  PROVE  WqOK'
<1>0. WqThreads /\ WqFields /\ WqWork /\ WqWaiters BY DEF WqOK
<1>1. Calls(t, "cancel_sync") /\ isr' = isr /\ pc' = pc BY DEF WqCancelSync
<1>2. t \in WqUser /\ Running(t, "run") BY <1>1, WqCallsUser
<1>3. "run" \notin WqOwn BY DEF WqOwn
<1>4. /\ t \in Thread \ {Idle} /\ t # Worker /\ k.cur = t /\ pc[t] = "run" /\ isr = "none"
      /\ k.stat[t] = "READY" /\ k.nest = 0
      /\ k.stat[Worker] = "SUSPEND" /\ pc[Worker] # "wq_ack"
  BY <1>0, <1>2, <1>3, WqSubmitter
<1>5. CASE ~Busy(w)
  <2>1. wq' = [wq EXCEPT !.work_list = NotQueued(w)] /\ k' = k BY <1>5 DEF WqCancelSync
  <2> QED BY <1>1, <1>2, <2>1, WqCancelKeeps
<1>6. CASE Busy(w)
  <2> DEFINE a == [k EXCEPT !.err[t] = "EOK"]
             s == rt_ipc_list_suspend(a, WqSem, t, "FIFO")
             r == rt_schedule(s)
  <2>1. wq.sem = 0 /\ ~(wq.sem > 0) BY <1>0, <1>4 DEF WqWaiters
  <2>2. k' = rt_schedule(BlockOn(k, WqSem, t, "FIFO", Forever)) /\ wq' = wq
    BY <1>6, <2>1 DEF WqCancelSync
  <2>3. s = BlockOn(k, WqSem, t, "FIFO", Forever) BY DEF BlockOn
  <2>4. /\ Runs(WqEnters) /\ Resting(k) /\ KernelOK(k) /\ k.prio = InitPrio
        /\ Worker \in Thread /\ WqSem \in WaitList
    BY <1>0, WqFacts DEF WqThreads
  <2>5. Settled(s) /\ Same(k, s, {t}) /\ OnlyOn(s, t, WqSem)
    <3>1. Settled(k) /\ Forever \in Timeout BY <1>4, <2>4 DEF Settled, Timeout
    <3> QED BY <1>4, <2>3, <2>4, <3>1, BlockOK
  <2>6. s.prio = k.prio
    <3>1. "EOK" \in Error BY DEF Error
    <3>2. KernelOK(a) /\ a.prio = k.prio /\ a.stat = k.stat BY <1>4, <2>4, <3>1, SetError
    <3> HIDE DEF a
    <3>3. a.stat[t] = "READY" BY <1>4, <3>2
    <3> QED BY <1>4, <2>4, <3>2, <3>3, ListSuspend DEF Codes
  <2>7. k' = r BY <2>2, <2>3
  <2> HIDE DEF s
  <2>8. /\ Resting(r) /\ Serves(r) /\ r.nest = 0 /\ r.prio = k.prio /\ Same(s, r, {})
        /\ r.cur \in Thread /\ Top(r)
    BY <1>0, <1>4, <2>5, <2>6, <2>7, WqRescheduled DEF Settled
  <2> HIDE DEF r
  <2>9. Same(k, r, {t}) BY <2>5, <2>8 DEF Same
  <2>10. OnlyOn(r, t, WqSem) BY <1>4, <2>5, <2>8 DEF Same, OnlyOn
  <2>11. Runs(WqEnters)' BY <1>1, <1>4, <2>4, <2>7, <2>8, RunsStay
  <2>12. WqPlaces' BY <1>0, <1>1 DEF WqPlaces, WqThreads
  <2>13. WqNest' BY <1>1, <1>4, <2>7, <2>8 DEF WqNest
  <2>14. WqLists'
    <3>1. ASSUME NEW v \in WaitList \ {WqSem} PROVE On(k', v) = {}
      <4>1. On(r, v) \subseteq Thread /\ On(k, v) = {} BY <1>0, <2>8, RestingFields DEF WqThreads, WqLists
      <4>2. t \notin On(r, v) BY <2>10 DEF OnlyOn
      <4> QED BY <2>7, <2>9, <4>1, <4>2 DEF Same
    <3>2. Worker \notin On(k', WqSem) BY <1>0, <1>4, <2>4, <2>7, <2>9 DEF Same, WqThreads, WqLists
    <3> QED BY <3>1, <3>2 DEF WqLists
  <2>15. WqHalf' BY <1>0, <1>1, <1>4, <2>7, <2>9, WqHalfKeep
  <2>16. WqBelow' BY <1>0, <2>7, <2>8, WqBelowKeep
  <2>17. WqThreads' BY <2>4, <2>7, <2>8, <2>11, <2>12, <2>13, <2>14, <2>15, <2>16 DEF WqThreads
  <2>18. k'.stat[Worker] = k.stat[Worker] BY <1>4, <2>4, <2>7, <2>9 DEF Same
  <2>19. WqWork' BY <1>0, <1>1, <2>2, <2>18 DEF WqWork, WorkerAsleep
  <2>20. WqWaiters'
    <3>1. wq.work_current # NoWork BY <1>6, WqAssumption DEF Busy
    <3> QED BY <2>1, <2>2, <3>1 DEF WqWaiters
  <2> QED BY <1>0, <2>2, <2>17, <2>19, <2>20 DEF WqOK, WqFields
<1> QED BY <1>5, <1>6

LEMMA WqCancelAllKeeps ==
  ASSUME OneSubmitterBelow, WqOK, NEW t \in Thread, WqCancelAll(t)
  PROVE  WqOK'
<1>0. WqThreads BY DEF WqOK
<1>1. /\ Calls(t, "cancel_all") /\ isr' = isr /\ pc' = pc /\ k' = rt_schedule(k)
      /\ wq' = [wq EXCEPT !.work_list = <<>>]
  BY DEF WqCancelAll
<1>2. t \in WqUser /\ Running(t, "run") BY <1>1, WqCallsUser
<1>3. "run" \notin WqOwn BY DEF WqOwn
<1>4. isr = "none" /\ k.nest = 0 /\ pc[Worker] # "wq_ack" BY <1>0, <1>2, <1>3, WqSubmitter
<1>5. Runs(WqEnters) /\ Resting(k) /\ k.prio = InitPrio /\ Worker \in Thread
  BY <1>0, WqFacts DEF WqThreads
<1>6. /\ Resting(k') /\ Serves(k') /\ k'.nest = 0 /\ k'.prio = k.prio /\ Same(k, k', {})
      /\ k'.cur \in Thread /\ Top(k')
  BY <1>0, <1>1, <1>4, <1>5, WqRescheduled
<1>7. Runs(WqEnters)' BY <1>1, <1>4, <1>5, <1>6, RunsStay
<1>8. WqPlaces' BY <1>0, <1>1 DEF WqPlaces, WqThreads
<1>9. WqNest' BY <1>1, <1>4, <1>6 DEF WqNest
<1>10. WqLists' /\ On(k', WqSem) = On(k, WqSem) BY <1>0, <1>6, WqListsKeep
<1>11. WqHalf' BY <1>0, <1>1, <1>6, WqHalfKeep
<1>12. WqBelow' BY <1>0, <1>6, WqBelowKeep
<1>13. WqThreads' BY <1>5, <1>6, <1>7, <1>8, <1>9, <1>10, <1>11, <1>12 DEF WqThreads
<1>14. k'.stat[Worker] = k.stat[Worker] BY <1>5, <1>6 DEF Same
<1> QED BY <1>1, <1>2, <1>10, <1>13, <1>14, WqDropped

-----------------------------------------------------------------------------
(* The steps of anybody.                                                   *)

LEMMA WqPauseKeeps ==
  ASSUME WqOK, NEW t \in Thread, Pause(t), UNCHANGED wq
  PROVE  WqOK'
<1> DEFINE r == rt_thread_sleep(k, t, 1)
<1>0. WqThreads /\ WqFields /\ WqWork /\ WqWaiters BY DEF WqOK
<1>1. Calls(t, "pause") /\ Goto(t, "sched") /\ isr' = isr /\ k' = r BY DEF Pause
<1>2. Runs(WqEnters) /\ Resting(k) /\ KernelOK(k) /\ k.prio = InitPrio /\ Worker \in Thread
  BY <1>0, WqFacts DEF WqThreads
<1>3. k.stat[t] = "READY" /\ OnNone(k, t) /\ t # Idle /\ Running(t, "run")
  BY <1>1, <1>2, CallerOf
<1>4. k.cur = t /\ pc[t] = "run" /\ isr = "none" BY <1>3 DEF Running
<1>5. k.nest = 0 /\ pc[Worker] # "wq_ack" BY <1>0, <1>4 DEF WqThreads, WqNest
<1>6. /\ KernelOK(r) /\ Kept(k, r) /\ r.stat[t] = "SUSPEND"
      /\ Same(k, r, {t}) /\ Unmoved(k, r) /\ r.prio = k.prio
  BY <1>2, <1>3, SleepThread, SleepSame, SleepMoves DEF Codes
<1> HIDE DEF r
<1>7. Resting(r) BY <1>2, <1>6, OneSleeps
<1>8. OnNone(r, t) BY <1>3, <1>6 DEF OnNone, Unmoved, On
<1>9. r.cur = t /\ r.nest = 0 BY <1>4, <1>5, <1>6 DEF Kept
<1>10. Runs(WqEnters)' /\ pc'[t] = "sched" /\ \A u \in Thread : u # t => pc'[u] = pc[u]
  <2>1. "sched" \in WqEnters BY DEF WqEnters
  <2> QED BY <1>1, <1>2, <1>3, <1>4, <1>7, <1>9, <2>1, RunsOn
<1>11. WqPlaces' BY <1>0, <1>10 DEF WqPlaces, WqThreads, WqOwn, WqHand
<1>12. WqNest' BY <1>1, <1>2, <1>5, <1>9, <1>10 DEF WqNest
<1>13. WqLists' /\ On(k', WqSem) = On(k, WqSem) \ {t} BY <1>0, <1>1, <1>6, <1>7, <1>8, WqListsKeep
<1>14. WqHalf'
  <2>1. t = Worker => \A u \in Thread : pc[u] # "wq_insert" BY <1>0, <1>3 DEF WqThreads, WqHalf
  <2>2. \A u \in Thread : pc'[u] = "wq_insert" => pc[u] = "wq_insert" BY <1>10
  <2> QED BY <1>0, <1>1, <1>6, <2>1, <2>2, WqHalfKeep
<1>15. WqBelow' BY <1>0, <1>1, <1>6, <1>7, <1>9, <1>10, WqBelowKeep
<1>16. WqThreads' BY <1>1, <1>2, <1>6, <1>10, <1>11, <1>12, <1>13, <1>14, <1>15 DEF WqThreads
<1>17. CASE t # Worker
  <2>1. pc'[Worker] = pc[Worker] /\ k'.stat[Worker] = k.stat[Worker]
    BY <1>1, <1>2, <1>6, <1>10, <1>17 DEF Same
  <2>2. \A u \in Thread : pc[u] \in WqHand => pc'[u] \in WqHand BY <1>4, <1>10 DEF WqHand
  <2> QED BY <1>0, <1>13, <1>16, <2>1, <2>2, WqWorkKeep DEF WqOK
<1>18. CASE t = Worker
  <2>1. WqWork' BY <1>0, <1>4, <1>10, <1>18 DEF WqWork, WorkerAsleep
  <2>2. WqWaiters' BY <1>0, <1>4, <1>10, <1>13, <1>18 DEF WqWaiters, WqWork
  <2> QED BY <1>0, <1>16, <2>1, <2>2 DEF WqOK, WqFields
<1> QED BY <1>17, <1>18

LEMMA WqTickKeeps ==
  ASSUME WqOK, IpcTick, UNCHANGED wq
  PROVE  WqOK'
<1>0. WqThreads /\ WqFields /\ WqWork /\ WqWaiters BY DEF WqOK
<1>1. Runs(WqEnters) /\ Resting(k) /\ k.cur \in Thread /\ k.prio = InitPrio /\ Worker \in Thread
  BY <1>0, WqFacts DEF WqThreads
<1>2. /\ Runs(WqEnters)' /\ Same(k, k', {}) /\ (Kept(k, k') \/ Chosen(k, k')) /\ pc' = pc
      /\ k' = TickIncrease(k)
  BY <1>1, RunsTick
<1>3. Ranked(k, k') /\ k'.prio = k.prio BY <1>1, <1>2, TickRanked
<1>4. Resting(k') /\ k'.cur \in Thread BY <1>2 DEF Runs
<1>5. k'.stat[Worker] = k.stat[Worker] BY <1>1, <1>2 DEF Same
<1>6. WqPlaces' BY <1>0, <1>2 DEF WqPlaces, WqThreads
<1>7. WqNest'
  <2>1. k'.nest = k.nest /\ (k.nest > 0 => k'.cur = k.cur) BY <1>2 DEF Kept, Chosen
  <2> QED BY <1>0, <1>2, <2>1 DEF WqNest, WqThreads
<1>8. WqLists' /\ On(k', WqSem) = On(k, WqSem) BY <1>0, <1>2, <1>4, WqListsKeep
<1>9. WqHalf' BY <1>0, <1>2, WqHalfKeep
<1>10. WqBelow' BY <1>0, <1>2, <1>3, <1>4, <1>5, WqBelowKeep DEF Ranked
<1>11. WqThreads' BY <1>1, <1>2, <1>3, <1>6, <1>7, <1>8, <1>9, <1>10 DEF WqThreads
<1> QED BY <1>0, <1>2, <1>5, <1>8, <1>11, WqWorkKeep DEF WqOK

LEMMA WqTimerKeeps ==
  ASSUME WqOK, IpcTimerCheck, UNCHANGED wq
  PROVE  WqOK'
<1> DEFINE h == Head(k.timers)
<1>0. WqThreads /\ WqFields /\ WqWork /\ WqWaiters BY DEF WqOK
<1>1. Runs(WqEnters) /\ Resting(k) /\ k.cur \in Thread /\ k.prio = InitPrio /\ Worker \in Thread
  BY <1>0, WqFacts DEF WqThreads
<1>2. /\ Runs(WqEnters)' /\ Same(k, k', {h}) /\ Chosen(k, k') /\ pc' = pc
      /\ h \in Thread /\ h \in Timed(k) /\ k' = TimerFire(k)
      /\ k'.stat[h] = "READY" /\ OnNone(k', h)
  BY <1>1, RunsTimer
<1>3. k.timers # <<>> BY <1>1 DEF Runs, IpcTimerCheck, rt_timer_check
<1> HIDE DEF h
<1>4. (k.nest = 0 => Top(k')) /\ k'.prio = k.prio BY <1>1, <1>2, <1>3, FireRanked
<1>5. Resting(k') /\ k'.cur \in Thread BY <1>2 DEF Runs
<1>6. k'.stat[Worker] = k.stat[Worker] \/ k'.stat[Worker] = "READY" BY <1>1, <1>2 DEF Same
<1>7. WqPlaces' BY <1>0, <1>2 DEF WqPlaces, WqThreads
<1>8. k'.nest = k.nest /\ (k.nest > 0 => k'.cur = k.cur) BY <1>2 DEF Chosen
<1>9. WqNest' BY <1>0, <1>2, <1>8 DEF WqNest, WqThreads
<1>10. WqLists' /\ On(k', WqSem) = On(k, WqSem) \ {h} BY <1>0, <1>2, <1>5, WqListsKeep
<1>11. WqHalf'
  <2>1. h = Worker => \A u \in Thread : pc[u] # "wq_insert" BY <1>0, <1>2 DEF WqThreads, WqHalf
  <2> QED BY <1>0, <1>2, <2>1, WqHalfKeep
<1>12. WqBelow'
  <2>1. Top(k') \/ k'.cur = Worker BY <1>0, <1>4, <1>8 DEF WqThreads, WqNest
  <2> QED BY <1>0, <1>4, <1>5, <2>1, WqBelowKeep
<1>13. WqThreads' BY <1>1, <1>2, <1>4, <1>7, <1>9, <1>10, <1>11, <1>12 DEF WqThreads
<1> QED BY <1>0, <1>2, <1>6, <1>10, <1>13, WqWorkKeep DEF WqOK

-----------------------------------------------------------------------------
WqInv == helper = "workqueue" => WqOK

LEMMA WqInvInit ==
  ASSUME Init
  PROVE  WqInv
<1>0. IpcInit /\ WqInit BY DEF Init
<1>1. "run" \notin WqEnters /\ "run" \notin WqHand /\ "run" \notin WqOwn /\ "wq_ack" \in WqOwn
      /\ "wq_insert" \in WqHand /\ {"wq_suspend", "wq_asleep", "wq_take"} \subseteq WqOwn
  BY DEF WqEnters, WqHand, WqOwn
<1>2. /\ Runs(WqEnters) /\ k.nest = 0 /\ pc = [t \in Thread |-> "run"] /\ k.cur \in Thread
      /\ \A w \in WaitList : On(k, w) = {}
      /\ \A t \in Thread : k.stat[t] = "READY"
  BY <1>0, <1>1, BootRuns DEF Settled, Runs
<1>3. Top(k) /\ k.prio = InitPrio BY <1>0, BootTop, IpcAssumption DEF IpcInit
<1>4. Worker \in Thread /\ WqSem \in WaitList BY WqAssumption
<1>5. \A t \in Thread : InitPrio[t] \in Int BY IpcAssumption, BoundAssumption DEF Prio
<1>6. WqPlaces /\ WqNest /\ WqLists /\ WqHalf BY <1>1, <1>2, <1>4 DEF WqPlaces, WqNest, WqLists, WqHalf
<1>7. WqBelow BY <1>2, <1>3, <1>4, <1>5 DEF WqBelow, Top
<1>8. WqFields /\ wq.work_list = <<>> /\ wq.work_current = NoWork /\ wq.sem = 0
  BY <1>0 DEF WqInit, WqFields
<1>9. WqWork /\ WqWaiters BY <1>1, <1>2, <1>4, <1>8 DEF WqWork, WqWaiters, WorkerAsleep
<1> QED BY <1>2, <1>3, <1>6, <1>7, <1>8, <1>9 DEF WqInv, WqOK, WqThreads

LEMMA WqInvNext ==
  ASSUME OneSubmitterBelow, WqInv, [Next]_vars
  PROVE  WqInv'
<1>1. CASE UNCHANGED vars
  <2>1. UNCHANGED <<k, isr, pc, wq, helper>> BY <1>1 DEF vars
  <2> SUFFICES ASSUME helper = "workqueue" PROVE WqOK' BY <2>1 DEF WqInv
  <2>2. WqOK BY DEF WqInv
  <2>3. WqThreads' BY <2>1, <2>2, WqRestsKeep DEF WqOK
  <2>4. WqFields' /\ WqWork' /\ WqWaiters'
    BY <2>1, <2>2 DEF WqOK, WqFields, WqWork, WqWaiters, WorkerAsleep
  <2> QED BY <2>3, <2>4 DEF WqOK
<1>2. CASE Next
  <2>1. helper' = helper BY <1>2 DEF Next
  <2> SUFFICES ASSUME helper = "workqueue" PROVE WqOK' BY <2>1 DEF WqInv
  <2>2. WqOK BY DEF WqInv
  <2>3. \/ WqNext
        \/ ((\E t \in Thread : Schedule(t)) \/ Tick \/ TimerCheck) /\ UNCHANGED wq
    BY <1>2 DEF Next
  <2>4. CASE WqNext
    <3>1. PICK t \in Thread : WqStep(t) BY <2>4 DEF WqNext
    <3>2. CASE WqTest \/ WqSuspend \/ WqTake \/ WqNap \/ WqDone \/ WqAck
      BY <2>2, <3>2, WqTestKeeps, WqSuspendKeeps, WqTakeKeeps, WqNapKeeps, WqDoneKeeps, WqAckKeeps
    <3>3. CASE WqWake
      <4>1. Worker \in Thread BY WqAssumption
      <4> QED BY <2>2, <3>3, <4>1, WqSwitches DEF WqWake, IpcSchedule
    <3>4. ASSUME NEW w \in Work, WqDowork(t, w) \/ WqSubmitMore(w) \/ WqCancel(t, w) \/ WqCancelSync(t, w)
          PROVE  WqOK'
      <4>1. CASE WqCancel(t, w)
        <5>1. /\ Calls(t, "cancel") /\ UNCHANGED <<k, isr, pc>>
              /\ wq' = [wq EXCEPT !.work_list = NotQueued(w)]
          BY <4>1 DEF WqCancel
        <5>2. t \in WqUser /\ Running(t, "run") BY <5>1, WqCallsUser
        <5> QED BY <2>2, <5>1, <5>2, WqCancelKeeps
      <4> QED BY <2>2, <3>4, <4>1, WqDoworkKeeps, WqSubmitMoreKeeps, WqCancelSyncKeeps
    <3>5. CASE WqResume(t) \/ WqCancelAll(t) \/ (Pause(t) /\ UNCHANGED wq)
      BY <2>2, <3>5, WqResumeKeeps, WqCancelAllKeeps, WqPauseKeeps
    <3> QED BY <3>1, <3>2, <3>3, <3>4, <3>5 DEF WqStep
  <2>5. ASSUME NEW t \in Thread, Schedule(t), UNCHANGED wq PROVE WqOK'
    BY <2>2, <2>5, WqSwitches DEF Schedule, IpcSchedule
  <2>6. CASE (Tick \/ TimerCheck) /\ UNCHANGED wq
    BY <2>2, <2>6, WqTickKeeps, WqTimerKeeps DEF Tick, TimerCheck
  <2> QED BY <2>3, <2>4, <2>5, <2>6
<1> QED BY <1>1, <1>2

\* The work thread's places, the waits for it and the works agree, as
\* workqueue.c leaves them, where one thread below the work thread submits.
THEOREM WqInvariance == OneSubmitterBelow => (Spec => []WqInv)
<1> SUFFICES ASSUME OneSubmitterBelow PROVE Spec => []WqInv OBVIOUS
<1>1. Init => WqInv BY WqInvInit
<1>2. WqInv /\ [Next]_vars => WqInv' BY WqInvNext
<1> QED BY <1>1, <1>2, PTL DEF Spec

\* WqNobodyStranded: the work thread does not sleep on a work, and who waits
\* for the end of a work waits while it is in progress.
THEOREM WorkQueueStrandsNobody ==
  OneSubmitterBelow => (Spec => [](helper = "workqueue" => WqNobodyStranded))
<1> SUFFICES ASSUME OneSubmitterBelow PROVE Spec => [](helper = "workqueue" => WqNobodyStranded)
  OBVIOUS
<1>1. WqInv => (helper = "workqueue" => WqNobodyStranded)
  <2> SUFFICES ASSUME WqOK PROVE WqNobodyStranded BY DEF WqInv
  <2>1. Resting(k) /\ WqSem \in WaitList BY WqFacts DEF WqOK
  <2>2. k.list[WqSem] # <<>> => On(k, WqSem) # {} BY <2>1, RestingFields
  <2> QED BY <2>2 DEF WqOK, WqWork, WqWaiters, WqHand, WqNobodyStranded
<1> QED BY <1>1, WqInvariance, PTL

-----------------------------------------------------------------------------
(* Whichever helper the driver uses: threads wait on its lists only, and   *)
(* the other helpers stay as they were made.                               *)

OwnLists(h) ==
  CASE h = "mempool" -> {MpList}
    [] h = "dataqueue" -> {PushList, PopList}
    [] h = "completion" -> {CpList}
    [] h = "workqueue" -> {WqSem}
    [] h = "heap" -> {HeapSem}
    [] h = "pipe" -> {PipeLock}

Unused ==
  /\ helper \in {"mempool", "dataqueue", "completion", "workqueue", "heap", "pipe"}
  /\ helper # "mempool" => mp.suspend_thread_count = 0
  /\ helper # "workqueue" => wq.work_list = <<>>
  /\ helper # "pipe" => /\ pipe.fifo = NoFifo /\ opened = {}
                        /\ \A q \in Queue : pipe.waiting[q] = <<>>

LEMMA UnusedInit ==
  ASSUME Init
  PROVE  Unused
<1>1. helper \in Helpers /\ MpInit /\ WqInit /\ PipeInit BY DEF Init
<1>2. mp.suspend_thread_count = 0 BY <1>1 DEF MpInit, NewPool
<1>3. wq.work_list = <<>> BY <1>1 DEF WqInit
<1>4. pipe.fifo = NoFifo /\ opened = {} /\ pipe.waiting = [q \in Queue |-> <<>>]
  BY <1>1 DEF PipeInit
<1>5. \A q \in Queue : pipe.waiting[q] = <<>> BY <1>4
<1> QED BY <1>1, <1>2, <1>3, <1>4, <1>5, HelperAssumption DEF Unused

LEMMA UnusedNext ==
  ASSUME Unused, [Next]_vars
  PROVE  Unused'
<1>1. helper' = helper BY DEF Next, vars
<1>2. helper # "mempool" => mp' = mp BY DEF Next, vars, mpvars, Unused
<1>3. helper # "workqueue" => wq' = wq BY DEF Next, vars, Unused
<1>4. helper # "pipe" => pipe' = pipe /\ opened' = opened BY DEF Next, vars, pipevars, Unused
<1> QED BY <1>1, <1>2, <1>3, <1>4 DEF Unused

\* A thread that waits is on a list of the helper that the driver uses.
LEMMA OthersEmpty ==
  ASSUME OneSubmitterBelow, Unused, MpInv, DqWaitInv, CpInv, WqInv, HeapInv, PpInv
  PROVE  \A w \in WaitList \ OwnLists(helper) : k.list[w] = <<>>
<1> SUFFICES ASSUME NEW w \in WaitList \ OwnLists(helper) PROVE k.list[w] = <<>>
  OBVIOUS
<1>1. ASSUME Resting(k), On(k, w) = {} PROVE k.list[w] = <<>> BY <1>1, RestingFields
<1>2. ASSUME Resting(k), NEW L \in SUBSET WaitList, w \notin L,
             \A t \in Thread : k.stat[t] = "SUSPEND" => \E v \in L : t \in On(k, v)
      PROVE  On(k, w) = {}
  <2> SUFFICES ASSUME NEW t \in On(k, w) PROVE FALSE OBVIOUS
  <2>1. t \in Thread /\ k.stat[t] = "SUSPEND" /\ OnlyOn(k, t, w) BY <1>2, RestingFields
  <2>2. PICK v \in L : t \in On(k, v) BY <1>2, <2>1
  <2> QED BY <1>2, <2>1, <2>2 DEF OnlyOn
<1>3. CASE helper = "mempool"
  <2>1. MpRuns /\ MpList \in WaitList /\ w # MpList
    BY <1>3, MpAssumption DEF MpInv, MpOK, OwnLists
  <2>2. Resting(k) BY <2>1 DEF MpRuns, Settled
  <2>3. \A t \in Thread : k.stat[t] = "SUSPEND" => t \in On(k, MpList) BY <2>1 DEF MpRuns, Waiting
  <2> QED BY <1>1, <1>2, <2>1, <2>2, <2>3
<1>4. CASE helper = "dataqueue"
  <2>1. /\ Resting(k) /\ DqWaits /\ PopList \in WaitList /\ PushList \in WaitList
        /\ w \notin {PushList, PopList}
    BY <1>4, DqFacts DEF DqWaitInv, DqOK, OwnLists
  <2>2. \A t \in Thread : k.stat[t] = "SUSPEND" => \E v \in {PushList, PopList} : t \in On(k, v)
    BY <2>1 DEF DqWaits
  <2>3. {PushList, PopList} \in SUBSET WaitList /\ w \notin {PushList, PopList} BY <2>1
  <2>4. On(k, w) = {} BY ONLY <1>2, <2>1, <2>2, <2>3
  <2> QED BY <1>1, <2>1, <2>4
<1>5. CASE helper = "completion"
  <2>1. Resting(k) /\ CpQueue /\ CpList \in WaitList /\ w # CpList
    BY <1>5, CpAssumption DEF CpInv, CpOK, Runs, OwnLists
  <2>2. \A t \in Thread : k.stat[t] = "SUSPEND" => t \in On(k, CpList) BY <2>1 DEF CpQueue
  <2> QED BY <1>1, <1>2, <2>1, <2>2
<1>6. CASE helper = "workqueue"
  <2>1. WqOK /\ w # WqSem BY <1>6 DEF WqInv, OwnLists
  <2>2. Resting(k) BY <2>1, WqFacts DEF WqOK
  <2> QED BY <1>1, <2>1, <2>2 DEF WqOK, WqThreads, WqLists
<1>7. CASE helper = "heap"
  <2>1. HeapRuns /\ w # HeapSem BY <1>7 DEF HeapInv, HeapOK, OwnLists
  <2> QED BY <1>1, <2>1 DEF HeapRuns, Settled, OnlyList
<1>8. CASE helper = "pipe"
  <2>1. PpOK /\ w # PipeLock BY <1>8 DEF PpInv, OwnLists
  <2>2. Resting(k) BY <2>1 DEF PpOK, Runs
  <2> QED BY <1>1, <2>1, <2>2 DEF PpOK, OnlyList
<1> QED BY <1>3, <1>4, <1>5, <1>6, <1>7, <1>8 DEF Unused

\* No other helper keeps a thread waiting.
LEMMA OthersStrandNobody ==
  ASSUME Unused, \A w \in WaitList \ OwnLists(helper) : k.list[w] = <<>>
  PROVE  /\ helper # "mempool" => MpNobodyStranded
         /\ helper # "dataqueue" => DqNobodyStranded
         /\ helper # "completion" => CpNobodyStranded
         /\ helper # "workqueue" => WqNobodyStranded
         /\ helper # "heap" => HeapNobodyStranded
         /\ helper # "pipe" => PipeNobodyStranded
<1>1. {MpList, PushList, PopList, CpList, WqSem, HeapSem, PipeLock} \subseteq WaitList
  BY MpAssumption, DqAssumption, CpAssumption, WqAssumption, HeapAssumption, PipeAssumption
<1>2. /\ helper # "mempool" => MpList \notin OwnLists(helper)
      /\ helper # "dataqueue" => PushList \notin OwnLists(helper) /\ PopList \notin OwnLists(helper)
      /\ helper # "completion" => CpList \notin OwnLists(helper)
      /\ helper # "workqueue" => WqSem \notin OwnLists(helper)
      /\ helper # "heap" => HeapSem \notin OwnLists(helper)
      /\ helper # "pipe" => PipeLock \notin OwnLists(helper)
  BY ListsAssumption DEF Unused, OwnLists
<1>3. helper # "mempool" => MpNobodyStranded
  BY <1>1, <1>2 DEF Unused, MpNobodyStranded
<1>4. helper # "dataqueue" => DqNobodyStranded BY <1>1, <1>2 DEF DqNobodyStranded
<1>5. helper # "completion" => CpNobodyStranded BY <1>1, <1>2 DEF CpNobodyStranded
<1>6. helper # "workqueue" => WqNobodyStranded BY <1>1, <1>2 DEF Unused, WqNobodyStranded
<1>7. helper # "heap" => HeapNobodyStranded BY <1>1, <1>2 DEF HeapNobodyStranded
<1>8. helper # "pipe" => PipeNobodyStranded BY <1>1, <1>2 DEF Unused, PipeNobodyStranded, Queue
<1> QED BY <1>3, <1>4, <1>5, <1>6, <1>7, <1>8

\* NobodyStranded: whichever helper the driver uses, no thread waits on it for
\* what is there, and none waits on a helper that the driver does not use.
THEOREM DriverStrandsNobody == OneSubmitterBelow => (Spec => []NobodyStranded)
<1> SUFFICES ASSUME OneSubmitterBelow PROVE Spec => []NobodyStranded
  OBVIOUS
<1>1. Init => Unused BY UnusedInit
<1>2. Unused /\ [Next]_vars => Unused' BY UnusedNext
<1>3. Spec => []Unused BY <1>1, <1>2, PTL DEF Spec
<1>4. Spec => []WqInv BY WqInvariance
<1>5. Spec => [](helper = "workqueue" => WqNobodyStranded) BY WorkQueueStrandsNobody
<1>6. ASSUME Unused, MpInv, DqWaitInv, CpInv, WqInv, HeapInv, PpInv,
             helper = "mempool" => MpNobodyStranded, helper = "dataqueue" => DqNobodyStranded,
             helper = "completion" => CpNobodyStranded, helper = "workqueue" => WqNobodyStranded,
             helper = "heap" => HeapNobodyStranded, helper = "pipe" => PipeNobodyStranded
      PROVE  NobodyStranded
  <2>1. \A w \in WaitList \ OwnLists(helper) : k.list[w] = <<>> BY <1>6, OthersEmpty
  <2> QED BY <1>6, <2>1, OthersStrandNobody DEF NobodyStranded
<1> QED BY <1>3, <1>4, <1>5, <1>6, MpInvariance, DqWaitInvariance, CpInvariance, HeapInvariance,
           PipeWaitInvariance, PoolStrandsNobody, DataQueueStrandsNobody, CompletionStrandsNobody,
           HeapStrandsNobody, PipeStrandsNobody, PTL
=============================================================================
