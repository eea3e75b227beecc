------------------------------ MODULE RingBuffer ------------------------------
(***************************************************************************)
(* The ring buffer of components/drivers/src/ringbuffer.c: two indices and *)
(* for each a mirror bit that flips whenever the index passes the end, so  *)
(* that equal indices mean empty or full.                                  *)
(***************************************************************************)
EXTENDS Integers, Sequences

CONSTANTS BufSize,  \* rb->buffer_size
          Byte

ASSUME RingAssumption == BufSize \in Nat \ {0} /\ Byte # {}

Ring == [read_mirror : 0..1, read_index : 0..(BufSize - 1),
         write_mirror : 0..1, write_index : 0..(BufSize - 1),
         buffer : [0..(BufSize - 1) -> Byte]]

\* rt_ringbuffer_init; what the pool holds before the first put does not matter.
NewRing ==
  [read_mirror |-> 0, read_index |-> 0, write_mirror |-> 0, write_index |-> 0,
   buffer |-> [i \in 0..(BufSize - 1) |-> CHOOSE c \in Byte : TRUE]]

RingStatus(rb) ==
  IF rb.read_index # rb.write_index THEN "HALFFULL"
  ELSE IF rb.read_mirror = rb.write_mirror THEN "EMPTY" ELSE "FULL"

DataLen(rb) ==
  IF RingStatus(rb) = "EMPTY" THEN 0
  ELSE IF RingStatus(rb) = "FULL" THEN BufSize
  ELSE IF rb.write_index > rb.read_index THEN rb.write_index - rb.read_index
  ELSE BufSize - (rb.read_index - rb.write_index)

SpaceLen(rb) == BufSize - DataLen(rb)

Lower(x, y) == IF x < y THEN x ELSE y

\* n more than index stays on this side of the mirror or passes to the other.
\* Mutation: an index that comes to the very end does not pass to the other side.
StaysAtEnd(index, n) == BufSize - index >= n
Stays(index, n) == BufSize - index > n
Ahead(index, n) == IF Stays(index, n) THEN index + n ELSE n - (BufSize - index)
Mirror(mirror, index, n) == IF Stays(index, n) THEN mirror ELSE 1 - mirror

\* How far place i is from place j, and the place n after i, across the end.
Distance(i, j) == IF i >= j THEN i - j ELSE i + BufSize - j
Place(i, n) == IF i + n < BufSize THEN i + n ELSE i + n - BufSize

\* The two memcpy: data from write_index on.
Copied(rb, data) ==
  [i \in 0..(BufSize - 1) |->
     LET j == Distance(i, rb.write_index)
     IN  IF j < Len(data) THEN data[j + 1] ELSE rb.buffer[i]]

Written(rb, data) ==
  [rb EXCEPT !.buffer = Copied(rb, data),
             !.write_mirror = Mirror(@, rb.write_index, Len(data)),
             !.write_index = Ahead(@, Len(data))]

\* rt_ringbuffer_put: what there is no room for is dropped.
RingPut(rb, data) == Written(rb, SubSeq(data, 1, Lower(Len(data), SpaceLen(rb))))

\* rt_ringbuffer_put_force: the oldest bytes make room.
RingPutForce(rb, data) ==
  LET kept == SubSeq(data, Len(data) - Lower(Len(data), BufSize) + 1, Len(data))
      w == Written(rb, kept)
  IN  IF Len(kept) <= SpaceLen(rb) THEN w
      ELSE [w EXCEPT !.read_index = w.write_index,
                     !.read_mirror = Mirror(@, rb.write_index, Len(kept))]

Content(rb) == [i \in 1..DataLen(rb) |-> rb.buffer[Place(rb.read_index, i - 1)]]

\* rt_ringbuffer_get: what it hands out, and what is left.
RingData(rb, length) == SubSeq(Content(rb), 1, Lower(length, DataLen(rb)))
RingGet(rb, length) ==
  LET n == Lower(length, DataLen(rb))
  IN  [rb EXCEPT !.read_mirror = Mirror(@, rb.read_index, n),
                 !.read_index = Ahead(@, n)]

\* The calls for one byte.
Next1(index) == IF index = BufSize - 1 THEN 0 ELSE index + 1
Flip1(mirror, index) == IF index = BufSize - 1 THEN 1 - mirror ELSE mirror

StoredChar(rb, c) ==
  [rb EXCEPT !.buffer[rb.write_index] = c,
             !.write_mirror = Flip1(@, rb.write_index),
             !.write_index = Next1(@)]

RingPutChar(rb, c) == IF SpaceLen(rb) = 0 THEN rb ELSE StoredChar(rb, c)

RingPutCharForce(rb, c) ==
  LET w == StoredChar(rb, c)
  IN  IF RingStatus(rb) # "FULL" THEN w
      ELSE [w EXCEPT !.read_mirror = Flip1(@, rb.write_index), !.read_index = w.write_index]

RingGetChar(rb) ==
  IF DataLen(rb) = 0 THEN rb
  ELSE [rb EXCEPT !.read_mirror = Flip1(@, rb.read_index), !.read_index = Next1(@)]

-----------------------------------------------------------------------------
(* What the calls do to a queue of bytes.                                  *)

Newest(q) == SubSeq(q, Len(q) - Lower(Len(q), BufSize) + 1, Len(q))

\* A forced put discards only what is old.
DiscardsOld(rb, data) == Content(RingPutForce(rb, data)) = Newest(Content(rb) \o data)

\* But when it overflows and passes the end while reader and writer are on the
\* same side, the full buffer is taken for an empty one.
LosesAll(rb, data) ==
  /\ Lower(Len(data), BufSize) > SpaceLen(rb)
  /\ rb.read_mirror = rb.write_mirror
  /\ ~Stays(rb.write_index, Lower(Len(data), BufSize))

\* Whatever the two indices and mirrors are, a call does to the bytes in the
\* ring what it does to a queue of at most BufSize bytes: a put appends what
\* there is room for, a get takes from the front, a forced put keeps the newest
\* (LosesAll aside); and one byte goes the way of a block of one.
IsQueueOfBytes(rb, data) ==
  LET q == Content(rb)
  IN  /\ Content(RingPut(rb, data)) = q \o SubSeq(data, 1, Lower(Len(data), BufSize - Len(q)))
      /\ LosesAll(rb, data) \/ DiscardsOld(rb, data)
      /\ RingData(rb, Len(data)) \o Content(RingGet(rb, Len(data))) = q
      /\ Len(data) = 1 =>
           /\ RingPutChar(rb, data[1]) = RingPut(rb, data)
           /\ Content(RingPutCharForce(rb, data[1])) = Newest(q \o data)
           /\ RingGetChar(rb) = RingGet(rb, 1)
=============================================================================
