----------------------------- MODULE RingProofs -----------------------------
(***************************************************************************)
(* Proofs about Ring, for every Size, MAX_READERS and MaxBytes: its types, *)
(* that ringbuffer_free keeps the writer off the highest reader, and that  *)
(* the ring buffer implements a Feed: every call of its functions is a     *)
(* step of the feed or one that its reader does not notice.                *)
(***************************************************************************)
EXTENDS RingFeed, SequenceTheorems, TLAPS

(* Positions wrap at most once: the arithmetic of every "% rbuf->size". *)
LEMMA WrapBelow == ASSUME NEW x \in Nat, x < Size PROVE x % Size = x
  BY SizeAssumption

LEMMA WrapAbove == ASSUME NEW x \in Nat, Size <= x, x < 2 * Size PROVE x % Size = x - Size
  BY SizeAssumption

LEMMA Wrap ==
  ASSUME NEW x \in Nat, x < 2 * Size
  PROVE  x % Size = IF x < Size THEN x ELSE x - Size
<1>1. CASE x < Size
  BY <1>1, WrapBelow
<1>2. CASE ~ (x < Size)
  <2>1. Size <= x
    BY <1>2, SizeAssumption
  <2>2. x % Size = x - Size
    BY <2>1, WrapAbove
  <2>. QED BY <1>2, <2>2
<1>. QED BY <1>1, <1>2

LEMMA WrapRange == ASSUME NEW x \in Nat PROVE x % Size \in Position
  BY SizeAssumption DEF Position
-----------------------------------------------------------------------------
(* What the functions return on a sound buffer. *)
LEMMA AvailRange ==
  ASSUME NEW b \in SoundBuffer, NEW rd \in Descriptor
  PROVE  ringbuffer_avail(b, rd) \in Position
  BY SizeAssumption DEF SoundBuffer, ringbuffer_avail, Position

LEMMA FreeRange ==
  ASSUME NEW b \in SoundBuffer
  PROVE  ringbuffer_free(b) \in Position
  BY SizeAssumption DEF SoundBuffer, ringbuffer_free, Position

LEMMA SplitRange ==
  ASSUME NEW pos \in Position, NEW len \in Position
  PROVE  /\ Split(pos, len) \in 0 .. len
         /\ Split(pos, len) > 0 => pos + Split(pos, len) = Size
         /\ Split(pos, len) = 0 => pos + len <= Size
  BY SizeAssumption DEF Split, Position

LEMMA HighestUnique ==
  ASSUME NEW readers \in SUBSET Descriptor, NEW q \in Highest(readers), NEW r \in Highest(readers)
  PROVE  q = r
  BY DEF Highest, Descriptor

(* ringbuffer_update_min changes min_pread only, to the pread of the highest. *)
LEMMA UpdateMin ==
  ASSUME NEW b \in SoundBuffer, NEW a \in ringbuffer_update_min(b)
  PROVE  /\ a \in SoundBuffer
         /\ a.pread = b.pread /\ a.pwrite = b.pwrite /\ a.readers = b.readers /\ a.data = b.data
         /\ \A r \in Highest(b.readers) : a.min_pread = b.pread[r]
<1>1. CASE b.readers = {}
  BY <1>1 DEF ringbuffer_update_min, Highest
<1>2. CASE b.readers # {}
  <2>1. b.readers \cap Descriptor # {}
    BY <1>2 DEF SoundBuffer
  <2>2. PICK r \in Highest(b.readers) : a = [b EXCEPT !.min_pread = b.pread[r]]
    BY <1>2, <2>1 DEF ringbuffer_update_min, MinPread
  <2>3. b.readers \in SUBSET Descriptor /\ r \in Descriptor /\ b.pread[r] \in Position
    BY DEF SoundBuffer, Highest
  <2>4. \A q \in Highest(b.readers) : q = r
    BY <2>3, HighestUnique
  <2>. QED BY <2>2, <2>3, <2>4 DEF SoundBuffer
<1>. QED BY <1>1, <1>2

LEMMA Drain ==
  ASSUME NEW b \in SoundBuffer, NEW rd \in Descriptor, NEW n \in Nat
  PROVE  /\ DrainStep(b, rd, n) \in SoundBuffer
         /\ DrainStep(b, rd, n).pread = [b.pread EXCEPT ![rd] = (@ + n) % Size]
         /\ DrainStep(b, rd, n).min_pread = b.min_pread
         /\ DrainStep(b, rd, n).readers = b.readers
         /\ DrainStep(b, rd, n).pwrite = b.pwrite
         /\ DrainStep(b, rd, n).data = b.data
<1> DEFINE f == [b.pread EXCEPT ![rd] = (@ + n) % Size]
<1>0. b.pread[rd] + n \in Nat
  BY SizeAssumption DEF SoundBuffer, Position
<1>1. (b.pread[rd] + n) % Size \in Position
  BY <1>0, WrapRange
<1>2. f \in [Descriptor -> Position]
  BY <1>1 DEF SoundBuffer
<1>3. DrainStep(b, rd, n) = [b EXCEPT !.pread = f]
  BY DEF DrainStep
<1> HIDE DEF f
<1>4. [b EXCEPT !.pread = f] \in SoundBuffer
  BY <1>2 DEF SoundBuffer
<1>. QED BY <1>3, <1>4 DEF SoundBuffer, f

LEMMA FillTyped ==
  ASSUME NEW d \in [Position -> Int], NEW pos \in Position, NEW k \in Nat, NEW n \in Int
  PROVE  Fill(d, pos, k, n) \in [Position -> Int]
  BY DEF Fill, Position

LEMMA FillSound ==
  ASSUME NEW b \in SoundBuffer, NEW k \in Nat, NEW n \in Nat
  PROVE  /\ FillStep(b, k, n) \in SoundBuffer
         /\ FillStep(b, k, n).pread = b.pread
         /\ FillStep(b, k, n).min_pread = b.min_pread
         /\ FillStep(b, k, n).readers = b.readers
         /\ FillStep(b, k, n).pwrite = (b.pwrite + n) % Size
         /\ FillStep(b, k, n).data = Fill(b.data, b.pwrite, k, n)
<1> DEFINE p == (b.pwrite + n) % Size
           d == Fill(b.data, b.pwrite, k, n)
<1>0. b.pwrite + n \in Nat
  BY SizeAssumption DEF SoundBuffer, Position
<1>1. p \in Position
  BY <1>0, WrapRange
<1>2. d \in [Position -> Int]
  BY FillTyped DEF SoundBuffer
<1>3. FillStep(b, k, n) = [b EXCEPT !.data = d, !.pwrite = p]
  BY DEF FillStep
<1> HIDE DEF p, d
<1>4. [b EXCEPT !.data = d, !.pwrite = p] \in SoundBuffer
  BY <1>1, <1>2 DEF SoundBuffer
<1>. QED BY <1>3, <1>4 DEF SoundBuffer, p, d

(* A call that wraps is two that do not: memcpy in two pieces moves pread, or
   pwrite, the way two calls of DrainStep, or FillStep, do. *)
LEMMA ReadIsTwoDrains ==
  ASSUME NEW b \in SoundBuffer, NEW rd \in Descriptor, NEW len \in Position,
         NEW split \in Nat, split = Split(b.pread[rd], len)
  PROVE  ringbuffer_read(b, rd, len)
           = ringbuffer_update_min(DrainStep(DrainStep(b, rd, split), rd, len - split))
<1> DEFINE first == IF split > 0 THEN [b EXCEPT !.pread[rd] = 0] ELSE b
<1>1. b.pread[rd] \in Position
  BY DEF SoundBuffer
<1>2. (b.pread[rd] + split) % Size = IF split > 0 THEN 0 ELSE b.pread[rd]
  <2>1. CASE split > 0
    <3>1. b.pread[rd] + split = Size
      BY <1>1, <2>1, SplitRange
    <3>. QED BY <2>1, <3>1, WrapAbove, SizeAssumption
  <2>2. CASE ~ (split > 0)
    <3>1. b.pread[rd] + split = b.pread[rd] /\ b.pread[rd] \in Nat /\ b.pread[rd] < Size
      BY <1>1, <2>2, SizeAssumption DEF Position
    <3>. QED BY <2>2, <3>1, WrapBelow
  <2>. QED BY <2>1, <2>2
<1>3. DrainStep(b, rd, split) = first
  <2>1. CASE split > 0
    BY <1>2, <2>1 DEF DrainStep
  <2>2. CASE ~ (split > 0)
    <3>1. [b.pread EXCEPT ![rd] = b.pread[rd]] = b.pread
      BY DEF SoundBuffer
    <3>2. DrainStep(b, rd, split) = [b EXCEPT !.pread = b.pread]
      BY <1>2, <2>2, <3>1 DEF DrainStep
    <3>. QED BY <2>2, <3>2 DEF SoundBuffer
  <2>. QED BY <2>1, <2>2
<1>. QED BY <1>3 DEF ringbuffer_read

LEMMA WriteIsTwoFills ==
  ASSUME NEW b \in SoundBuffer, NEW k \in Nat, NEW len \in Position,
         NEW split \in Nat, split = Split(b.pwrite, len)
  PROVE  ringbuffer_write(b, k, len)
           = FillStep(FillStep(b, k, split), k + split, len - split)
<1> DEFINE first == IF split > 0
                    THEN [b EXCEPT !.data = Fill(b.data, b.pwrite, k, split), !.pwrite = 0]
                    ELSE b
<1>1. b.pwrite \in Position
  BY DEF SoundBuffer
<1>2. (b.pwrite + split) % Size = IF split > 0 THEN 0 ELSE b.pwrite
  <2>1. CASE split > 0
    <3>1. b.pwrite + split = Size
      BY <1>1, <2>1, SplitRange
    <3>. QED BY <2>1, <3>1, WrapAbove, SizeAssumption
  <2>2. CASE ~ (split > 0)
    <3>1. b.pwrite + split = b.pwrite /\ b.pwrite \in Nat /\ b.pwrite < Size
      BY <1>1, <2>2, SizeAssumption DEF Position
    <3>. QED BY <2>2, <3>1, WrapBelow
  <2>. QED BY <2>1, <2>2
<1>3. FillStep(b, k, split) = first
  <2>1. CASE split > 0
    BY <1>2, <2>1 DEF FillStep
  <2>2. CASE ~ (split > 0)
    <3>1. b.pwrite \in Int /\ b.data \in [Position -> Int] /\ split = 0
      BY <1>1, <2>2 DEF SoundBuffer, Position
    <3>2. \A q \in Position : ~ (b.pwrite <= q /\ q < b.pwrite + 0)
      BY <3>1 DEF Position
    <3>3. Fill(b.data, b.pwrite, k, 0) = [q \in Position |-> b.data[q]]
      BY <3>2 DEF Fill
    <3>4. Fill(b.data, b.pwrite, k, split) = b.data
      BY <3>1, <3>3
    <3>5. FillStep(b, k, split) = [b EXCEPT !.data = b.data, !.pwrite = b.pwrite]
      BY <1>2, <2>2, <3>4 DEF FillStep
    <3>. QED BY <2>2, <3>5 DEF SoundBuffer
  <2>. QED BY <2>1, <2>2
<1>. QED BY <1>3 DEF ringbuffer_write
-----------------------------------------------------------------------------
(* HighestReaderSafe of a buffer b. *)
Safe(b) ==
    \A r \in Highest(b.readers) : ringbuffer_free(b) + ringbuffer_avail(b, r) <= Size - 1

LEMMA UpdateMinSafe ==
  ASSUME NEW b \in SoundBuffer, NEW a \in ringbuffer_update_min(b)
  PROVE  Safe(a)
<1> SUFFICES ASSUME NEW r \in Highest(a.readers)
             PROVE  ringbuffer_free(a) + ringbuffer_avail(a, r) <= Size - 1
  BY DEF Safe
<1>1. a \in SoundBuffer /\ a.min_pread = a.pread[r]
  BY UpdateMin
<1>2. r \in Descriptor /\ r \in a.readers
  BY DEF Highest
<1>3. a.pread[r] \in Position /\ a.pwrite \in Position
  BY <1>1, <1>2 DEF SoundBuffer
<1>. QED BY <1>1, <1>2, <1>3, SizeAssumption DEF ringbuffer_free, ringbuffer_avail, Position

(* Storing n bytes moves pwrite n places on, and takes n from what is free. *)
LEMMA FillMoves ==
  ASSUME NEW b \in SoundBuffer, NEW k \in Nat, NEW n \in 0 .. ringbuffer_free(b)
  PROVE  /\ ringbuffer_free(b) - n <= ringbuffer_free(FillStep(b, k, n))
         /\ b.readers # {} => ringbuffer_free(FillStep(b, k, n)) = ringbuffer_free(b) - n
         /\ \A r \in Descriptor :
              ringbuffer_avail(b, r) + n < Size
                => ringbuffer_avail(FillStep(b, k, n), r) = ringbuffer_avail(b, r) + n
<1> DEFINE a == FillStep(b, k, n)
<1>1. n \in Nat /\ n < Size
  BY FreeRange, SizeAssumption DEF Position
<1>2. /\ b.pwrite \in Position
      /\ b.min_pread \in Position
      /\ \A r \in Descriptor : b.pread[r] \in Position
  BY DEF SoundBuffer
<1>3. /\ a.pread = b.pread /\ a.min_pread = b.min_pread /\ a.readers = b.readers
      /\ a.pwrite = (b.pwrite + n) % Size
  BY <1>1, FillSound
<1>4. a.pwrite = IF b.pwrite + n < Size THEN b.pwrite + n ELSE b.pwrite + n - Size
  <2> DEFINE x == b.pwrite + n
  <2>1. x \in Nat /\ x < 2 * Size
    BY <1>1, <1>2, SizeAssumption DEF Position
  <2>2. a.pwrite = x % Size
    BY <1>3
  <2> HIDE DEF x
  <2>3. a.pwrite = IF x < Size THEN x ELSE x - Size
    BY <2>1, <2>2, Wrap
  <2>. QED BY <1>1, <1>2, <2>3, SizeAssumption DEF x, Position
<1> HIDE DEF a
<1>5. ringbuffer_free(b) - n <= ringbuffer_free(a)
  BY <1>1, <1>2, <1>3, <1>4, SizeAssumption DEF ringbuffer_free, Position
<1>6. b.readers # {} => ringbuffer_free(a) = ringbuffer_free(b) - n
  BY <1>1, <1>2, <1>3, <1>4, SizeAssumption DEF ringbuffer_free, Position
<1>7. ASSUME NEW r \in Descriptor, ringbuffer_avail(b, r) + n < Size
      PROVE  ringbuffer_avail(a, r) = ringbuffer_avail(b, r) + n
  BY <1>1, <1>2, <1>3, <1>4, <1>7, SizeAssumption DEF ringbuffer_avail, Position
<1>. QED BY <1>5, <1>6, <1>7 DEF a

LEMMA FillSafe ==
  ASSUME NEW b \in SoundBuffer, Safe(b), NEW k \in Nat, NEW n \in 0 .. ringbuffer_free(b)
  PROVE  Safe(FillStep(b, k, n))
<1> DEFINE a == FillStep(b, k, n)
<1>1. n \in Nat
  OBVIOUS
<1>2. a.readers = b.readers
  BY <1>1, FillSound
<1>3. ASSUME NEW r \in Highest(b.readers)
      PROVE  ringbuffer_free(a) + ringbuffer_avail(a, r) <= Size - 1
  <2>1. r \in Descriptor /\ b.readers # {}
    BY <1>3 DEF Highest
  <2>2. ringbuffer_free(b) + ringbuffer_avail(b, r) <= Size - 1
    BY <1>3 DEF Safe
  <2>3. ringbuffer_avail(b, r) \in Int /\ ringbuffer_free(b) \in Int
    BY <2>1, AvailRange, FreeRange DEF Position
  <2>4. ringbuffer_avail(b, r) + n < Size
    BY <2>2, <2>3, SizeAssumption
  <2>. QED BY <2>1, <2>2, <2>3, <2>4, FillMoves, SizeAssumption
<1>. QED BY <1>2, <1>3 DEF Safe

(* Sending n bytes to rd takes them from what it waits for, and from nothing else. *)
LEMMA DrainMoves ==
  ASSUME NEW b \in SoundBuffer, NEW rd \in Descriptor, NEW n \in 0 .. ringbuffer_avail(b, rd)
  PROVE  /\ ringbuffer_free(DrainStep(b, rd, n)) = ringbuffer_free(b)
         /\ ringbuffer_avail(DrainStep(b, rd, n), rd) = ringbuffer_avail(b, rd) - n
         /\ \A r \in Descriptor \ {rd} :
              ringbuffer_avail(DrainStep(b, rd, n), r) = ringbuffer_avail(b, r)
<1> DEFINE a == DrainStep(b, rd, n)
<1>1. n \in Nat /\ n < Size
  BY AvailRange, SizeAssumption DEF Position
<1>2. b.pwrite \in Position /\ b.pread[rd] \in Position /\ b.pread \in [Descriptor -> Position]
  BY DEF SoundBuffer
<1>3. /\ a.pread = [b.pread EXCEPT ![rd] = (@ + n) % Size]
      /\ a.min_pread = b.min_pread /\ a.readers = b.readers /\ a.pwrite = b.pwrite
  BY <1>1, Drain
<1>4. a.pread[rd] = IF b.pread[rd] + n < Size THEN b.pread[rd] + n ELSE b.pread[rd] + n - Size
  <2> DEFINE x == b.pread[rd] + n
  <2>1. x \in Nat /\ x < 2 * Size
    BY <1>1, <1>2, SizeAssumption DEF Position
  <2>2. a.pread[rd] = x % Size
    BY <1>2, <1>3
  <2> HIDE DEF x
  <2>3. a.pread[rd] = IF x < Size THEN x ELSE x - Size
    BY <2>1, <2>2, Wrap
  <2>. QED BY <1>1, <1>2, <2>3, SizeAssumption DEF x, Position
<1> HIDE DEF a
<1>5. ringbuffer_free(a) = ringbuffer_free(b)
  BY <1>3 DEF ringbuffer_free
<1>6. ringbuffer_avail(a, rd) = ringbuffer_avail(b, rd) - n
  BY <1>1, <1>2, <1>3, <1>4, SizeAssumption DEF ringbuffer_avail, Position
<1>7. ASSUME NEW r \in Descriptor \ {rd}
      PROVE  ringbuffer_avail(a, r) = ringbuffer_avail(b, r)
  BY <1>2, <1>3 DEF ringbuffer_avail
<1>. QED BY <1>5, <1>6, <1>7 DEF a

LEMMA DrainSafe ==
  ASSUME NEW b \in SoundBuffer, Safe(b), NEW rd \in Descriptor,
         NEW n \in 0 .. ringbuffer_avail(b, rd)
  PROVE  Safe(DrainStep(b, rd, n))
<1> DEFINE a == DrainStep(b, rd, n)
<1>1. n \in Nat
  OBVIOUS
<1>2. a.readers = b.readers
  BY <1>1, Drain
<1>3. ASSUME NEW r \in Highest(b.readers)
      PROVE  ringbuffer_free(a) + ringbuffer_avail(a, r) <= Size - 1
  <2>1. r \in Descriptor
    BY <1>3 DEF Highest
  <2>2. ringbuffer_free(b) + ringbuffer_avail(b, r) <= Size - 1
    BY <1>3 DEF Safe
  <2>3. ringbuffer_avail(b, r) \in Int /\ ringbuffer_free(b) \in Int
    BY <2>1, AvailRange, FreeRange DEF Position
  <2>4. ringbuffer_free(a) = ringbuffer_free(b)
    BY DrainMoves
  <2>5. r = rd => ringbuffer_avail(a, r) = ringbuffer_avail(b, r) - n
    BY DrainMoves
  <2>6. r # rd => ringbuffer_avail(a, r) = ringbuffer_avail(b, r)
    BY <2>1, DrainMoves
  <2>. QED BY <1>1, <2>2, <2>3, <2>4, <2>5, <2>6, SizeAssumption
<1>. QED BY <1>2, <1>3 DEF Safe
-----------------------------------------------------------------------------
(* Buffer b holds, from the pread of r on, the bytes next, next+1, ... up to w. *)
Intact(b, r, next, w) ==
    /\ next + ringbuffer_avail(b, r) = w
    /\ \A i \in 0 .. ringbuffer_avail(b, r) - 1 : b.data[(b.pread[r] + i) % Size] = next + i

LEMMA Cell ==
  ASSUME NEW p \in Position, NEW i \in Position
  PROVE  (p + i) % Size = IF p + i < Size THEN p + i ELSE p + i - Size
<1> DEFINE x == p + i
<1>1. x \in Nat /\ x < 2 * Size
  BY SizeAssumption DEF Position
<1> HIDE DEF x
<1>2. x % Size = IF x < Size THEN x ELSE x - Size
  BY <1>1, Wrap
<1>. QED BY <1>1, <1>2, SizeAssumption DEF x, Position

(* Storing what fits behind pwrite without wrapping leaves the pending bytes alone
   and appends to them. *)
LEMMA FillIntact ==
  ASSUME NEW b \in SoundBuffer, NEW r \in Descriptor, NEW next \in Nat, NEW w \in Nat,
         Intact(b, r, next, w),
         NEW n \in 0 .. ringbuffer_free(b),
         ringbuffer_avail(b, r) + n < Size, b.pwrite + n <= Size
  PROVE  Intact(FillStep(b, w, n), r, next, w + n)
<1> DEFINE a == FillStep(b, w, n)
           old == ringbuffer_avail(b, r)
           p == b.pread[r]
<1>1. n \in Nat /\ n < Size
  BY FreeRange, SizeAssumption DEF Position
<1>2. b.pwrite \in Position /\ p \in Position /\ old \in Position
  BY AvailRange DEF SoundBuffer
<1>3. ringbuffer_avail(a, r) = old + n
  BY FillMoves
<1>4. a.pread = b.pread /\ a.data = Fill(b.data, b.pwrite, w, n)
  BY <1>1, FillSound
<1>5. next + old = w
  BY DEF Intact
<1>6. \A i \in 0 .. old - 1 : b.data[(p + i) % Size] = next + i
  BY DEF Intact
<1>7. old = IF b.pwrite < p THEN b.pwrite - p + Size ELSE b.pwrite - p
  BY <1>2, SizeAssumption DEF ringbuffer_avail, Position
<1>8. n + old < Size /\ b.pwrite + n <= Size
  BY <1>1, <1>2 DEF Position
<1> HIDE DEF a, old, p
<1>9. ASSUME NEW i \in 0 .. old + n - 1
      PROVE  a.data[(p + i) % Size] = next + i
  <2> DEFINE q == (p + i) % Size
  <2>1. i \in Position
    BY <1>1, <1>2, <1>8, SizeAssumption DEF Position
  <2>2. q = IF p + i < Size THEN p + i ELSE p + i - Size
    BY <1>2, <2>1, Cell
  <2>3. p + i \in Nat
    BY <1>2, <2>1, SizeAssumption DEF Position
  <2>4. q \in Position
    BY <2>3, WrapRange
  <2>5. (p + i) % Size = q
    OBVIOUS
  <2> HIDE DEF q
  <2>6. a.data[q] = IF b.pwrite <= q /\ q < b.pwrite + n THEN w + (q - b.pwrite) ELSE b.data[q]
    BY <1>4, <2>4 DEF Fill
  <2>7. CASE i < old
    <3>1. ~ (b.pwrite <= q /\ q < b.pwrite + n)
      BY <1>1, <1>2, <1>7, <1>8, <2>1, <2>2, <2>7, SizeAssumption DEF Position
    <3>2. i \in 0 .. old - 1
      BY <1>2, <2>1, <2>7 DEF Position
    <3>3. b.data[q] = next + i
      BY <1>6, <2>5, <3>2
    <3>. QED BY <2>5, <2>6, <3>1, <3>3
  <2>8. CASE ~ (i < old)
    <3>1. q = b.pwrite + (i - old)
      BY <1>1, <1>2, <1>7, <1>8, <2>1, <2>2, <2>8, SizeAssumption DEF Position
    <3>2. b.pwrite <= q /\ q < b.pwrite + n
      BY <1>1, <1>2, <2>1, <2>8, <3>1 DEF Position
    <3>3. w + (q - b.pwrite) = next + i
      BY <1>2, <1>5, <2>1, <3>1 DEF Position
    <3>. QED BY <2>5, <2>6, <3>2, <3>3
  <2>. QED BY <2>7, <2>8
<1>10. next + (old + n) = w + n
  BY <1>1, <1>2, <1>5 DEF Position
<1>11. a.pread[r] = p
  BY <1>4 DEF p
<1>12. next + ringbuffer_avail(a, r) = w + n
  BY <1>3, <1>10
<1>13. \A i \in 0 .. ringbuffer_avail(a, r) - 1 : a.data[(a.pread[r] + i) % Size] = next + i
  <2> SUFFICES ASSUME NEW i \in 0 .. ringbuffer_avail(a, r) - 1
               PROVE  a.data[(a.pread[r] + i) % Size] = next + i
    OBVIOUS
  <2>1. i \in 0 .. old + n - 1
    BY <1>1, <1>2, <1>3 DEF Position
  <2>2. a.data[(p + i) % Size] = next + i
    BY <1>9, <2>1
  <2>. QED BY <1>11, <2>2
<1>14. Intact(a, r, next, w + n)
  BY <1>12, <1>13 DEF Intact
<1>. QED BY <1>14 DEF a

(* Sending n bytes to r moves on by n; sending them to another descriptor, not at all. *)
LEMMA DrainIntact ==
  ASSUME NEW b \in SoundBuffer, NEW r \in Descriptor, NEW next \in Nat, NEW w \in Nat,
         Intact(b, r, next, w),
         NEW n \in 0 .. ringbuffer_avail(b, r)
  PROVE  Intact(DrainStep(b, r, n), r, next + n, w)
<1> DEFINE a == DrainStep(b, r, n)
           old == ringbuffer_avail(b, r)
           p == b.pread[r]
           m == a.pread[r]
<1>1. p \in Position /\ old \in Position /\ b.pread \in [Descriptor -> Position]
  BY AvailRange DEF SoundBuffer
<1>2. n \in Position /\ n <= old
  BY <1>1, SizeAssumption DEF Position
<1>3. ringbuffer_avail(a, r) = old - n
  BY DrainMoves
<1>4. n \in Nat
  OBVIOUS
<1>5. m = (p + n) % Size /\ a.data = b.data
  <2>1. a.pread = [b.pread EXCEPT ![r] = (@ + n) % Size] /\ a.data = b.data
    BY <1>4, Drain
  <2>. QED BY <1>1, <2>1
<1>6. m = IF p + n < Size THEN p + n ELSE p + n - Size
  BY <1>1, <1>2, <1>5, Cell
<1>7. m \in Position
  BY <1>1, <1>2, <1>6, SizeAssumption DEF Position
<1>8. next + old = w
  BY DEF Intact
<1>9. \A i \in 0 .. old - 1 : b.data[(p + i) % Size] = next + i
  BY DEF Intact
<1> HIDE DEF a, old, p, m
<1>10. ASSUME NEW i \in 0 .. old - n - 1
       PROVE  a.data[(m + i) % Size] = next + n + i
  <2>1. i \in Position /\ n + i \in Position /\ n + i \in 0 .. old - 1
    BY <1>1, <1>2, SizeAssumption DEF Position
  <2>2. (m + i) % Size = IF m + i < Size THEN m + i ELSE m + i - Size
    BY <1>7, <2>1, Cell
  <2>3. (p + (n + i)) % Size = IF p + (n + i) < Size THEN p + (n + i) ELSE p + (n + i) - Size
    BY <1>1, <2>1, Cell
  <2> DEFINE q1 == (m + i) % Size
             q2 == (p + (n + i)) % Size
  <2>4. q1 = IF m + i < Size THEN m + i ELSE m + i - Size
    BY <2>2
  <2>5. q2 = IF p + (n + i) < Size THEN p + (n + i) ELSE p + (n + i) - Size
    BY <2>3
  <2>6. b.data[q2] = next + (n + i)
    BY <1>9, <2>1
  <2>7. a.data[q1] = b.data[q1]
    BY <1>5
  <2> SUFFICES a.data[q1] = next + n + i
    OBVIOUS
  <2> HIDE DEF q1, q2
  <2>8. q1 = q2
    BY <1>1, <1>2, <1>6, <1>7, <2>1, <2>4, <2>5, SizeAssumption DEF Position
  <2>9. next + (n + i) = next + n + i
    BY <1>4, <2>1 DEF Position
  <2>. QED BY <2>6, <2>7, <2>8, <2>9
<1>11. (next + n) + (old - n) = w
  BY <1>1, <1>4, <1>8 DEF Position
<1>12. a.pread[r] = m
  BY DEF m
<1>13. Intact(a, r, next + n, w)
  BY <1>3, <1>10, <1>11, <1>12 DEF Intact
<1>. QED BY <1>13 DEF a

LEMMA OthersIntact ==
  ASSUME NEW b \in SoundBuffer, NEW r \in Descriptor, NEW next \in Nat, NEW w \in Nat,
         Intact(b, r, next, w),
         NEW rd \in Descriptor \ {r}, NEW n \in Nat
  PROVE  Intact(DrainStep(b, rd, n), r, next, w)
<1>1. /\ DrainStep(b, rd, n).pread[r] = b.pread[r]
      /\ DrainStep(b, rd, n).pwrite = b.pwrite
      /\ DrainStep(b, rd, n).data = b.data
  <2>1. /\ DrainStep(b, rd, n).pread = [b.pread EXCEPT ![rd] = (@ + n) % Size]
        /\ DrainStep(b, rd, n).pwrite = b.pwrite
        /\ DrainStep(b, rd, n).data = b.data
    BY Drain
  <2>. QED BY <2>1 DEF SoundBuffer
<1>. QED BY <1>1 DEF Intact, ringbuffer_avail

LEMMA UpdateMinIntact ==
  ASSUME NEW b \in SoundBuffer, NEW r, NEW next, NEW w, Intact(b, r, next, w),
         NEW a \in ringbuffer_update_min(b)
  PROVE  Intact(a, r, next, w)
<1>1. a.pread = b.pread /\ a.pwrite = b.pwrite /\ a.data = b.data
  BY UpdateMin
<1>. QED BY <1>1 DEF Intact, ringbuffer_avail
-----------------------------------------------------------------------------
(* What ShieldedIntact says, of any buffer, histories and set of descriptors. *)
AllIntact(b, pos, w, ds) == \A r \in ds : Intact(b, r, pos[r], w)

LEMMA DrainAll ==
  ASSUME NEW b \in SoundBuffer, NEW pos \in [Descriptor -> Nat], NEW w \in Nat,
         NEW ds \in SUBSET Descriptor, AllIntact(b, pos, w, ds),
         NEW rd \in Descriptor, NEW n \in 0 .. ringbuffer_avail(b, rd)
  PROVE  AllIntact(DrainStep(b, rd, n), [pos EXCEPT ![rd] = @ + n], w, ds)
<1> DEFINE next == [pos EXCEPT ![rd] = @ + n]
<1> SUFFICES ASSUME NEW r \in ds
             PROVE  Intact(DrainStep(b, rd, n), r, next[r], w)
  BY DEF AllIntact
<1>1. Intact(b, r, pos[r], w) /\ r \in Descriptor /\ pos[r] \in Nat
  BY DEF AllIntact
<1>2. CASE r = rd
  <2>1. Intact(DrainStep(b, r, n), r, pos[r] + n, w)
    BY <1>1, <1>2, DrainIntact
  <2>2. next[r] = pos[r] + n
    BY <1>1, <1>2
  <2>. QED BY <1>2, <2>1, <2>2
<1>3. CASE r # rd
  <2>1. n \in Nat
    OBVIOUS
  <2>2. Intact(DrainStep(b, rd, n), r, pos[r], w)
    BY <1>1, <1>3, <2>1, OthersIntact
  <2>3. next[r] = pos[r]
    BY <1>1, <1>3
  <2>. QED BY <2>2, <2>3
<1>. QED BY <1>2, <1>3

LEMMA FillAll ==
  ASSUME NEW b \in SoundBuffer, Safe(b), NEW pos \in [Descriptor -> Nat], NEW w \in Nat,
         NEW ds \in SUBSET Highest(b.readers), AllIntact(b, pos, w, ds),
         NEW n \in 0 .. ringbuffer_free(b), b.pwrite + n <= Size
  PROVE  AllIntact(FillStep(b, w, n), pos, w + n, ds)
<1> SUFFICES ASSUME NEW r \in ds
             PROVE  Intact(FillStep(b, w, n), r, pos[r], w + n)
  BY DEF AllIntact
<1>1. r \in Highest(b.readers) /\ r \in Descriptor
  BY DEF Highest
<1>2. ringbuffer_free(b) + ringbuffer_avail(b, r) <= Size - 1
  BY <1>1 DEF Safe
<1>3. ringbuffer_avail(b, r) \in Int /\ ringbuffer_free(b) \in Int
  BY <1>1, AvailRange, FreeRange DEF Position
<1>4. ringbuffer_avail(b, r) + n < Size
  BY <1>2, <1>3, SizeAssumption
<1>5. Intact(b, r, pos[r], w) /\ pos[r] \in Nat
  BY <1>1 DEF AllIntact
<1>. QED BY <1>1, <1>4, <1>5, FillIntact

LEMMA UpdateMinAll ==
  ASSUME NEW b \in SoundBuffer, NEW pos, NEW w, NEW ds, AllIntact(b, pos, w, ds),
         NEW a \in ringbuffer_update_min(b)
  PROVE  AllIntact(a, pos, w, ds)
  BY UpdateMinIntact DEF AllIntact

(* The two pieces of a write of at most todo bytes, or the two calls of a
   ringbuffer_readfd that asked for todo. *)
LEMMA TwoFills ==
  ASSUME NEW b \in SoundBuffer, Safe(b), NEW pos \in [Descriptor -> Nat], NEW w \in Nat,
         NEW ds \in SUBSET Highest(b.readers), AllIntact(b, pos, w, ds),
         NEW todo \in 0 .. ringbuffer_free(b),
         NEW n1 \in 0 .. Split(b.pwrite, todo),
         NEW n2 \in 0 .. todo - n1,
         n1 < Split(b.pwrite, todo) => n2 <= Size - (b.pwrite + n1),
         NEW a, a = FillStep(FillStep(b, w, n1), w + n1, n2)
  PROVE  /\ a \in SoundBuffer /\ Safe(a) /\ a.readers = b.readers
         /\ AllIntact(a, pos, w + n1 + n2, ds)
<1> DEFINE split == Split(b.pwrite, todo)
           m == FillStep(b, w, n1)
<1>1. b.pwrite \in Position /\ todo \in Position
  <2>1. ringbuffer_free(b) \in Position /\ b.pwrite \in Position
    BY FreeRange DEF SoundBuffer
  <2>. QED BY <2>1, SizeAssumption DEF Position
<1>2. /\ split \in 0 .. todo
      /\ split > 0 => b.pwrite + split = Size
      /\ split = 0 => b.pwrite + todo <= Size
  BY <1>1, SplitRange
<1>3. n1 \in Nat /\ n1 <= split /\ n1 <= todo /\ n2 \in Nat /\ n2 <= todo - n1
  BY <1>1, <1>2 DEF Position
<1> HIDE DEF split
<1>4. n1 \in 0 .. ringbuffer_free(b) /\ b.pwrite + n1 <= Size
  BY <1>1, <1>2, <1>3, FreeRange, SizeAssumption DEF Position
<1>5. m \in SoundBuffer /\ m.readers = b.readers /\ m.pwrite = (b.pwrite + n1) % Size
  BY <1>3, FillSound
<1>6. Safe(m)
  BY <1>4, FillSafe
<1>7. AllIntact(m, pos, w + n1, ds)
  BY <1>4, FillAll
<1>8. ringbuffer_free(b) - n1 <= ringbuffer_free(m)
  BY <1>3, <1>4, FillMoves
<1>9. n2 \in 0 .. ringbuffer_free(m)
  BY <1>1, <1>3, <1>5, <1>8, FreeRange DEF Position
<1>10. m.pwrite + n2 <= Size
  <2>1. m.pwrite = IF b.pwrite + n1 < Size THEN b.pwrite + n1 ELSE b.pwrite + n1 - Size
    <3>1. n1 \in Position
      BY <1>1, <1>3, SizeAssumption DEF Position
    <3>. QED BY <1>1, <1>5, <3>1, Cell
  <2>2. n1 < split => n2 <= Size - (b.pwrite + n1)
    BY DEF split
  <2>. QED BY <1>1, <1>2, <1>3, <2>1, <2>2, SizeAssumption DEF Position
<1> DEFINE k == w + n1
<1>11. a = FillStep(m, k, n2)
  OBVIOUS
<1>12. k \in Nat /\ AllIntact(m, pos, k, ds)
  BY <1>3, <1>7
<1> HIDE DEF m, k
<1>13. a \in SoundBuffer /\ a.readers = m.readers
  <2>1. m \in SoundBuffer /\ k \in Nat /\ n2 \in Nat
    BY <1>3, <1>5, <1>12
  <2>2. FillStep(m, k, n2) \in SoundBuffer
    BY <2>1, FillSound
  <2>3. FillStep(m, k, n2).readers = m.readers
    BY <2>1, FillSound
  <2>. QED BY <1>11, <2>2, <2>3
<1>14. Safe(a)
  BY <1>5, <1>6, <1>9, <1>11, <1>12, FillSafe
<1>15. AllIntact(a, pos, k + n2, ds)
  BY <1>5, <1>6, <1>9, <1>10, <1>11, <1>12, FillAll
<1>. QED BY <1>5, <1>13, <1>14, <1>15 DEF k
(* Likewise the two pieces of a read, or the two calls of a ringbuffer_writefd. *)
LEMMA TwoDrains ==
  ASSUME NEW b \in SoundBuffer, Safe(b), NEW pos \in [Descriptor -> Nat], NEW w \in Nat,
         NEW ds \in SUBSET Descriptor, AllIntact(b, pos, w, ds),
         NEW rd \in Descriptor,
         NEW n1 \in 0 .. ringbuffer_avail(b, rd), NEW n2 \in 0 .. ringbuffer_avail(b, rd) - n1,
         NEW a, a = DrainStep(DrainStep(b, rd, n1), rd, n2)
  PROVE  /\ a \in SoundBuffer /\ Safe(a) /\ a.readers = b.readers
         /\ AllIntact(a, [pos EXCEPT ![rd] = @ + n1 + n2], w, ds)
<1> DEFINE m == DrainStep(b, rd, n1)
           mid == [pos EXCEPT ![rd] = @ + n1]
<1>1. n1 \in Nat /\ n2 \in Nat
  BY AvailRange DEF Position
<1>2. m \in SoundBuffer /\ m.readers = b.readers
  BY <1>1, Drain
<1>3. Safe(m)
  BY DrainSafe
<1>4. AllIntact(m, mid, w, ds)
  BY DrainAll
<1>5. mid \in [Descriptor -> Nat]
  <2>1. pos[rd] + n1 \in Nat
    BY <1>1
  <2>. QED BY <2>1
<1>6. ringbuffer_avail(m, rd) = ringbuffer_avail(b, rd) - n1
  BY DrainMoves
<1>7. n2 \in 0 .. ringbuffer_avail(m, rd)
  BY <1>6
<1>8. a = DrainStep(m, rd, n2)
  OBVIOUS
<1>9. [mid EXCEPT ![rd] = @ + n2] = [pos EXCEPT ![rd] = @ + n1 + n2]
  OBVIOUS
<1> HIDE DEF m, mid
<1>10. DrainStep(m, rd, n2) \in SoundBuffer
  BY <1>1, <1>2, Drain
<1>11. DrainStep(m, rd, n2).readers = m.readers
  BY <1>1, <1>2, Drain
<1>12. Safe(DrainStep(m, rd, n2))
  BY <1>2, <1>3, <1>7, DrainSafe
<1>13. AllIntact(DrainStep(m, rd, n2), [mid EXCEPT ![rd] = @ + n2], w, ds)
  BY <1>2, <1>4, <1>5, <1>7, DrainAll
<1>. QED BY <1>2, <1>8, <1>9, <1>10, <1>11, <1>12, <1>13
-----------------------------------------------------------------------------
(* The inductive invariant: the types bound every index, safety bounds what a
   write may store, and only together do they keep the pending bytes intact. *)
RingInv == TypeOK /\ HighestReaderSafe /\ ShieldedIntact

(* What a step has to establish, in the terms of the lemmas above. *)
LEMMA InvParts ==
  RingInv <=> /\ rb \in SoundBuffer
              /\ written \in 0 .. MaxBytes
              /\ rpos \in [Descriptor -> Nat]
              /\ shielded \subseteq Highest(rb.readers)
              /\ Safe(rb)
              /\ AllIntact(rb, rpos, written, shielded)
  BY DEF RingInv, TypeOK, HighestReaderSafe, ShieldedIntact, Safe, AllIntact, Intact

LEMMA InvPartsNext ==
  RingInv' <=> /\ rb' \in SoundBuffer
               /\ written' \in 0 .. MaxBytes
               /\ rpos' \in [Descriptor -> Nat]
               /\ shielded' \subseteq Highest(rb'.readers)
               /\ Safe(rb')
               /\ AllIntact(rb', rpos', written', shielded')
  BY DEF RingInv, TypeOK, HighestReaderSafe, ShieldedIntact, Safe, AllIntact, Intact

LEMMA InitInv == Init => RingInv
<1> SUFFICES ASSUME Init PROVE RingInv
  OBVIOUS
<1>1. 0 \in Position
  BY SizeAssumption DEF Position
<1>2. rb \in SoundBuffer /\ rb.readers = {}
  BY <1>1 DEF Init, ringbuffer_init, SoundBuffer, Blank
<1>3. rpos \in [Descriptor -> Nat] /\ shielded = {} /\ written \in 0 .. MaxBytes
  BY MaxBytesAssumption DEF Init
<1>. QED BY <1>2, <1>3, InvParts DEF Safe, AllIntact, Highest

(* A pread moved up to pwrite waits for nothing, whatever data holds. *)
LEMMA CaughtUp ==
  ASSUME NEW b \in SoundBuffer, NEW r \in Descriptor, b.pread[r] = b.pwrite, NEW w \in Nat
  PROVE  ringbuffer_avail(b, r) = 0 /\ Intact(b, r, w, w)
<1>1. b.pwrite \in Int
  BY DEF SoundBuffer, Position
<1>2. ringbuffer_avail(b, r) = 0
  BY <1>1 DEF ringbuffer_avail
<1>. QED BY <1>2 DEF Intact

LEMMA OpenInv == ASSUME RingInv, NEW rd \in Descriptor, Open(rd) PROVE RingInv'
<1>1. /\ rb \in SoundBuffer /\ written \in Nat /\ written \in 0 .. MaxBytes
      /\ rpos \in [Descriptor -> Nat]
      /\ shielded \subseteq Highest(rb.readers)
      /\ Safe(rb) /\ AllIntact(rb, rpos, written, shielded)
  BY InvParts, MaxBytesAssumption
<1>2. /\ rb.pwrite \in Position /\ rb.pread \in [Descriptor -> Position]
      /\ rb.readers \in SUBSET Descriptor
  BY <1>1 DEF SoundBuffer
<1>3. /\ rb' \in SoundBuffer
      /\ rb'.readers = rb.readers \cup {rd}
      /\ rb'.pread = [rb.pread EXCEPT ![rd] = rb.pwrite]
      /\ rb'.pwrite = rb.pwrite /\ rb'.min_pread = rb.min_pread /\ rb'.data = rb.data
  BY <1>1, <1>2 DEF Open, ringbuffer_open, SoundBuffer
<1>4. /\ written' = written
      /\ rpos' = [rpos EXCEPT ![rd] = written]
      /\ shielded' = (shielded \cup {rd}) \cap Highest(rb.readers \cup {rd})
  BY DEF Open
<1>5. ringbuffer_avail(rb', rd) = 0 /\ Intact(rb', rd, written, written)
  <2>1. rb'.pread[rd] = rb'.pwrite
    BY <1>2, <1>3
  <2>. QED BY <1>1, <1>3, <2>1, CaughtUp
<1>6. ASSUME NEW r \in Descriptor, r # rd
      PROVE  rb'.pread[r] = rb.pread[r] /\ ringbuffer_avail(rb', r) = ringbuffer_avail(rb, r)
  BY <1>2, <1>3, <1>6 DEF ringbuffer_avail
<1>7. Safe(rb')
  <2> SUFFICES ASSUME NEW r \in Highest(rb'.readers)
               PROVE  ringbuffer_free(rb') + ringbuffer_avail(rb', r) <= Size - 1
    BY DEF Safe
  <2>1. r \in Descriptor /\ r \in rb'.readers /\ (\A q \in rb'.readers \cap Descriptor : q <= r)
    BY DEF Highest
  <2>2. CASE r = rd
    <3>1. ringbuffer_free(rb') \in Position
      BY <1>3, FreeRange
    <3>. QED BY <1>5, <2>2, <3>1, SizeAssumption DEF Position
  <2>3. CASE r # rd
    <3>1. r \in Highest(rb.readers)
      BY <1>3, <2>1, <2>3 DEF Highest
    <3>2. ringbuffer_free(rb) + ringbuffer_avail(rb, r) <= Size - 1
      BY <1>1, <3>1 DEF Safe
    <3>3. rb.readers # {} /\ rb'.readers # {}
      BY <2>1, <3>1 DEF Highest
    <3>4. ringbuffer_free(rb') = ringbuffer_free(rb)
      BY <1>3, <3>3 DEF ringbuffer_free
    <3>. QED BY <1>6, <2>1, <2>3, <3>2, <3>4
  <2>. QED BY <2>2, <2>3
<1>8. AllIntact(rb', rpos', written', shielded')
  <2> SUFFICES ASSUME NEW r \in shielded'
               PROVE  Intact(rb', r, rpos'[r], written)
    BY <1>4 DEF AllIntact
  <2>1. r \in Descriptor /\ (r = rd \/ r \in shielded)
    BY <1>1, <1>4 DEF Highest
  <2>2. CASE r = rd
    BY <1>1, <1>4, <1>5, <2>2
  <2>3. CASE r # rd
    <3>1. Intact(rb, r, rpos[r], written)
      BY <1>1, <2>1, <2>3 DEF AllIntact
    <3>2. rpos'[r] = rpos[r]
      BY <1>1, <1>4, <2>1, <2>3
    <3>3. rb'.pread[r] = rb.pread[r] /\ ringbuffer_avail(rb', r) = ringbuffer_avail(rb, r)
      BY <1>6, <2>1, <2>3
    <3>. QED BY <1>3, <3>1, <3>2, <3>3 DEF Intact
  <2>. QED BY <2>2, <2>3
<1>9. shielded' \subseteq Highest(rb'.readers) /\ rpos' \in [Descriptor -> Nat]
  BY <1>1, <1>3, <1>4
<1>. QED BY <1>1, <1>3, <1>4, <1>7, <1>8, <1>9, InvPartsNext

LEMMA CloseInv == ASSUME RingInv, NEW rd \in Descriptor, Close(rd) PROVE RingInv'
<1>1. /\ rb \in SoundBuffer /\ written \in 0 .. MaxBytes
      /\ rpos \in [Descriptor -> Nat]
      /\ shielded \subseteq Highest(rb.readers)
      /\ AllIntact(rb, rpos, written, shielded)
  BY InvParts
<1> DEFINE m == [rb EXCEPT !.readers = rb.readers \ {rd}]
<1>2. m \in SoundBuffer /\ m.readers = rb.readers \ {rd}
  BY <1>1 DEF SoundBuffer
<1>3. /\ rb' \in ringbuffer_update_min(m)
      /\ shielded' = shielded \ {rd} /\ written' = written /\ rpos' = rpos
  BY DEF Close, ringbuffer_close, ToggleBit
<1>4. AllIntact(m, rpos, written, shielded')
  BY <1>1, <1>3 DEF AllIntact, Intact, ringbuffer_avail, SoundBuffer
<1> HIDE DEF m
<1>5. rb' \in SoundBuffer /\ rb'.readers = m.readers
  BY <1>2, <1>3, UpdateMin
<1>6. Safe(rb')
  BY <1>2, <1>3, UpdateMinSafe
<1>7. AllIntact(rb', rpos, written, shielded')
  BY <1>2, <1>3, <1>4, UpdateMinAll
<1>8. shielded' \subseteq Highest(rb'.readers)
  BY <1>1, <1>2, <1>3, <1>5 DEF Highest
<1>. QED BY <1>1, <1>3, <1>5, <1>6, <1>7, <1>8, InvPartsNext

LEMMA FlushInv == ASSUME RingInv, NEW rd \in Descriptor, Flush(rd) PROVE RingInv'
<1>1. /\ rb \in SoundBuffer /\ written \in Nat /\ written \in 0 .. MaxBytes
      /\ rpos \in [Descriptor -> Nat]
      /\ shielded \subseteq Highest(rb.readers)
      /\ AllIntact(rb, rpos, written, shielded)
  BY InvParts, MaxBytesAssumption
<1> DEFINE m == [rb EXCEPT !.pread[rd] = rb.pwrite]
<1>2. /\ m \in SoundBuffer /\ m.readers = rb.readers
      /\ m.pread = [rb.pread EXCEPT ![rd] = rb.pwrite]
      /\ m.pwrite = rb.pwrite /\ m.data = rb.data
  BY <1>1 DEF SoundBuffer
<1>3. /\ rb' \in ringbuffer_update_min(m)
      /\ shielded' = shielded /\ written' = written
      /\ rpos' = [rpos EXCEPT ![rd] = written]
  BY DEF Flush, ringbuffer_flush
<1> HIDE DEF m
<1>4. rb.pread \in [Descriptor -> Position]
  BY <1>1 DEF SoundBuffer
<1>5. AllIntact(m, rpos', written, shielded)
  <2> SUFFICES ASSUME NEW r \in shielded
               PROVE  Intact(m, r, rpos'[r], written)
    BY DEF AllIntact
  <2>1. r \in Descriptor /\ Intact(rb, r, rpos[r], written)
    BY <1>1 DEF AllIntact, Highest
  <2>2. CASE r = rd
    <3>1. m.pread[r] = m.pwrite /\ rpos'[r] = written
      BY <1>1, <1>2, <1>3, <1>4, <2>1, <2>2
    <3>. QED BY <1>1, <1>2, <2>1, <3>1, CaughtUp
  <2>3. CASE r # rd
    <3>1. m.pread[r] = rb.pread[r] /\ rpos'[r] = rpos[r]
      BY <1>1, <1>2, <1>3, <1>4, <2>1, <2>3
    <3>. QED BY <1>2, <2>1, <3>1 DEF Intact, ringbuffer_avail
  <2>. QED BY <2>2, <2>3
<1>6. rb' \in SoundBuffer /\ rb'.readers = rb.readers
  BY <1>2, <1>3, UpdateMin
<1>7. Safe(rb')
  BY <1>2, <1>3, UpdateMinSafe
<1>8. AllIntact(rb', rpos', written, shielded)
  BY <1>2, <1>3, <1>5, UpdateMinAll
<1>9. rpos' \in [Descriptor -> Nat]
  BY <1>1, <1>3
<1>. QED BY <1>1, <1>3, <1>6, <1>7, <1>8, <1>9, InvPartsNext

LEMMA ResetInv == ASSUME RingInv, Reset PROVE RingInv'
<1>1. /\ rb \in SoundBuffer /\ written \in Nat /\ written \in 0 .. MaxBytes
      /\ shielded \subseteq Highest(rb.readers)
  BY InvParts, MaxBytesAssumption
<1>2. 0 \in Position
  BY SizeAssumption DEF Position
<1>3. /\ rb' \in SoundBuffer /\ rb'.readers = rb.readers
      /\ \A r \in Descriptor : rb'.pread[r] = rb'.pwrite
  BY <1>1, <1>2 DEF Reset, ringbuffer_reset, SoundBuffer
<1>4. /\ written' = written /\ shielded' = shielded
      /\ rpos' = [d \in Descriptor |-> written]
  BY DEF Reset
<1>5. \A r \in Descriptor : ringbuffer_avail(rb', r) = 0 /\ Intact(rb', r, written, written)
  BY <1>1, <1>3, CaughtUp
<1>6. Safe(rb')
  <2>1. ringbuffer_free(rb') \in Position
    BY <1>3, FreeRange
  <2>. QED BY <1>5, <2>1, SizeAssumption DEF Safe, Highest, Position
<1>7. AllIntact(rb', rpos', written', shielded')
  BY <1>1, <1>4, <1>5 DEF AllIntact, Highest
<1>. QED BY <1>1, <1>3, <1>4, <1>6, <1>7, InvPartsNext
(* The steps that send: drains within what is available, then min_pread. *)
LEMMA SentInv ==
  ASSUME RingInv, NEW rd \in Descriptor,
         NEW n1 \in 0 .. ringbuffer_avail(rb, rd), NEW n2 \in 0 .. ringbuffer_avail(rb, rd) - n1,
         NEW a, a = DrainStep(DrainStep(rb, rd, n1), rd, n2),
         rb' = a \/ rb' \in ringbuffer_update_min(a),
         rpos' = [rpos EXCEPT ![rd] = @ + n1 + n2],
         written' = written, shielded' = shielded
  PROVE  RingInv'
<1>1. /\ rb \in SoundBuffer /\ Safe(rb) /\ written \in Nat /\ written \in 0 .. MaxBytes
      /\ rpos \in [Descriptor -> Nat]
      /\ shielded \subseteq Highest(rb.readers)
      /\ AllIntact(rb, rpos, written, shielded)
  BY InvParts, MaxBytesAssumption
<1>2. shielded \in SUBSET Descriptor
  BY <1>1 DEF Highest
<1>3. a \in SoundBuffer /\ Safe(a) /\ a.readers = rb.readers
  <2>1. a \in SoundBuffer
    BY <1>1, <1>2, TwoDrains
  <2>2. Safe(a)
    BY <1>1, <1>2, TwoDrains
  <2>3. n1 \in Nat /\ n2 \in Nat
    BY <1>1, AvailRange DEF Position
  <2>4. DrainStep(rb, rd, n1) \in SoundBuffer
    BY <1>1, <2>3, Drain
  <2>5. DrainStep(rb, rd, n1).readers = rb.readers
    BY <1>1, <2>3, Drain
  <2>6. a.readers = DrainStep(rb, rd, n1).readers
    BY <2>3, <2>4, Drain
  <2>. QED BY <2>1, <2>2, <2>5, <2>6
<1>4. AllIntact(a, rpos', written, shielded)
  BY <1>1, <1>2, TwoDrains
<1>5. rpos' \in [Descriptor -> Nat]
  <2>1. n1 \in Nat /\ n2 \in Nat
    BY <1>1, AvailRange DEF Position
  <2>2. rpos[rd] + n1 + n2 \in Nat
    BY <1>1, <2>1
  <2>. QED BY <1>1, <2>2
<1>6. CASE rb' = a
  BY <1>1, <1>3, <1>4, <1>5, <1>6, InvPartsNext
<1>7. CASE rb' \in ringbuffer_update_min(a)
  <2>1. rb' \in SoundBuffer /\ rb'.readers = rb.readers
    BY <1>3, <1>7, UpdateMin
  <2>2. Safe(rb')
    BY <1>3, <1>7, UpdateMinSafe
  <2>3. AllIntact(rb', rpos', written, shielded)
    BY <1>3, <1>4, <1>7, UpdateMinAll
  <2>. QED BY <1>1, <1>5, <2>1, <2>2, <2>3, InvPartsNext
<1>. QED BY <1>6, <1>7

(* Nothing sent is one drain of 0 bytes more. *)
LEMMA DrainNothing ==
  ASSUME NEW b \in SoundBuffer, NEW rd \in Descriptor
  PROVE  DrainStep(b, rd, 0) = b
<1>1. b.pread[rd] \in Nat /\ b.pread[rd] < Size
  BY SizeAssumption DEF SoundBuffer, Position
<1>2. (b.pread[rd] + 0) % Size = b.pread[rd]
  BY <1>1, WrapBelow
<1>3. [b.pread EXCEPT ![rd] = b.pread[rd]] = b.pread
  BY DEF SoundBuffer
<1>4. DrainStep(b, rd, 0) = [b EXCEPT !.pread = b.pread]
  BY <1>2, <1>3 DEF DrainStep
<1>. QED BY <1>4 DEF SoundBuffer

(* The split of a transfer to rd lies within what is available to it. *)
LEMMA SendSplit ==
  ASSUME RingInv, NEW rd \in Descriptor, NEW len \in 0 .. ringbuffer_avail(rb, rd)
  PROVE  /\ rb \in SoundBuffer /\ len \in Position
         /\ ringbuffer_avail(rb, rd) \in Position
         /\ Split(rb.pread[rd], len) \in 0 .. len
<1>1. rb \in SoundBuffer
  BY InvParts
<1>2. rb.pread[rd] \in Position /\ ringbuffer_avail(rb, rd) \in Position
  BY <1>1, AvailRange DEF SoundBuffer
<1>3. len \in Position
  BY <1>2, SizeAssumption DEF Position
<1>. QED BY <1>1, <1>2, <1>3, SplitRange

LEMMA ReadInv ==
  ASSUME RingInv, NEW rd \in Descriptor, NEW len \in Position, Read(rd, len)
  PROVE  RingInv'
<1> DEFINE split == Split(rb.pread[rd], len)
           rest == len - split
           a == DrainStep(DrainStep(rb, rd, split), rd, rest)
<1>1. len \in 1 .. ringbuffer_avail(rb, rd)
  BY DEF Read
<1>2. len \in 0 .. ringbuffer_avail(rb, rd)
  <2>1. ringbuffer_avail(rb, rd) \in Int
    BY InvParts, AvailRange DEF Position
  <2>. QED BY <1>1, <2>1
<1>3. rb \in SoundBuffer /\ ringbuffer_avail(rb, rd) \in Position /\ split \in 0 .. len
  BY <1>2, SendSplit
<1>4. rb' \in ringbuffer_update_min(a)
  BY <1>3, ReadIsTwoDrains DEF Read, Position
<1>5. rpos' = [rpos EXCEPT ![rd] = @ + len] /\ written' = written /\ shielded' = shielded
  BY DEF Read
<1>6. split \in 0 .. ringbuffer_avail(rb, rd) /\ rest \in 0 .. ringbuffer_avail(rb, rd) - split
  BY <1>2, <1>3 DEF Position
<1>7. rpos[rd] + split + rest = rpos[rd] + len
  <2>1. rpos[rd] \in Nat
    BY InvParts
  <2>. QED BY <1>2, <1>3, <2>1 DEF Position
<1>8. rpos' = [rpos EXCEPT ![rd] = @ + split + rest]
  BY <1>5, <1>7
<1> HIDE DEF split, rest
<1>. QED BY <1>4, <1>5, <1>6, <1>8, SentInv

LEMMA WritefdOnceInv ==
  ASSUME RingInv, NEW rd \in Descriptor, NEW n \in Position, WritefdOnce(rd, n)
  PROVE  RingInv'
<1> DEFINE avail == ringbuffer_avail(rb, rd)
           split == Split(rb.pread[rd], avail)
           a == DrainStep(rb, rd, n)
<1>1. rb \in SoundBuffer /\ avail \in Position
  BY InvParts, AvailRange
<1>2. split \in 0 .. avail
  <2>1. avail \in 0 .. avail
    BY <1>1 DEF Position
  <2>. QED BY <2>1, SendSplit
<1>3. /\ n \in 0 .. (IF split > 0 THEN split - 1 ELSE avail)
      /\ rb' \in ringbuffer_update_min(a)
      /\ rpos' = [rpos EXCEPT ![rd] = @ + n] /\ written' = written /\ shielded' = shielded
  BY DEF WritefdOnce
<1> HIDE DEF avail, split
<1>4. n \in 0 .. avail /\ 0 \in 0 .. avail - 0 /\ n \in 0 .. avail - 0 /\ n \in Nat
  BY <1>1, <1>2, <1>3 DEF Position
<1>5. a = DrainStep(DrainStep(rb, rd, 0), rd, n)
  BY <1>1, DrainNothing
<1>6. rpos[rd] + 0 + n = rpos[rd] + n
  <2>1. rpos[rd] \in Nat
    BY InvParts
  <2>. QED BY <1>4, <2>1
<1>7. rpos' = [rpos EXCEPT ![rd] = @ + 0 + n]
  BY <1>3, <1>6
<1> HIDE DEF a
<1>8. 0 \in 0 .. ringbuffer_avail(rb, rd) /\ n \in 0 .. ringbuffer_avail(rb, rd) - 0
  BY <1>1, <1>4 DEF avail, Position
<1>. QED BY <1>3, <1>5, <1>7, <1>8, SentInv

LEMMA WritefdTwiceInv ==
  ASSUME RingInv, NEW rd \in Descriptor, NEW n \in Position, WritefdTwice(rd, n)
  PROVE  RingInv'
<1> DEFINE avail == ringbuffer_avail(rb, rd)
           split == Split(rb.pread[rd], avail)
           a == DrainStep(DrainStep(rb, rd, split), rd, n)
<1>1. rb \in SoundBuffer /\ avail \in Position
  BY InvParts, AvailRange
<1>2. split \in 0 .. avail
  <2>1. avail \in 0 .. avail
    BY <1>1 DEF Position
  <2>. QED BY <2>1, SendSplit
<1>3. /\ n \in 0 .. avail - split
      /\ rb' \in ringbuffer_update_min(a)
      /\ rpos' = [rpos EXCEPT ![rd] = @ + split + n]
      /\ written' = written /\ shielded' = shielded
  BY DEF WritefdTwice
<1> HIDE DEF split
<1>. QED BY <1>2, <1>3, SentInv

LEMMA WritefdFailsInv ==
  ASSUME RingInv, NEW rd \in Descriptor, WritefdFails(rd)
  PROVE  RingInv'
<1> DEFINE avail == ringbuffer_avail(rb, rd)
           split == Split(rb.pread[rd], avail)
           a == DrainStep(rb, rd, split)
<1>1. rb \in SoundBuffer /\ avail \in Position
  BY InvParts, AvailRange
<1>2. split \in 0 .. avail
  <2>1. avail \in 0 .. avail
    BY <1>1 DEF Position
  <2>. QED BY <2>1, SendSplit
<1>3. /\ rb' = a
      /\ rpos' = [rpos EXCEPT ![rd] = @ + split]
      /\ written' = written /\ shielded' = shielded
  BY DEF WritefdFails
<1> HIDE DEF split
<1>4. a = DrainStep(DrainStep(rb, rd, 0), rd, split)
  BY <1>1, DrainNothing
<1>5. rpos[rd] + 0 + split = rpos[rd] + split
  <2>1. rpos[rd] \in Nat
    BY InvParts
  <2>. QED BY <1>1, <1>2, <2>1 DEF Position
<1>6. rpos' = [rpos EXCEPT ![rd] = @ + 0 + split]
  BY <1>3, <1>5
<1>7. 0 \in 0 .. avail /\ split \in 0 .. avail - 0
  BY <1>1, <1>2 DEF Position
<1> HIDE DEF a
<1>. QED BY <1>3, <1>4, <1>6, <1>7, SentInv
-----------------------------------------------------------------------------
(* The steps that store: two fills within what is free. *)
LEMMA StoredInv ==
  ASSUME RingInv,
         NEW todo \in 0 .. ringbuffer_free(rb),
         NEW n1 \in 0 .. Split(rb.pwrite, todo),
         NEW n2 \in 0 .. todo - n1,
         n1 < Split(rb.pwrite, todo) => n2 <= Size - (rb.pwrite + n1),
         n1 + n2 <= MaxBytes - written,
         rb' = FillStep(FillStep(rb, written, n1), written + n1, n2),
         written' = written + n1 + n2,
         rpos' = rpos, shielded' = shielded
  PROVE  RingInv'
<1>1. /\ rb \in SoundBuffer /\ Safe(rb) /\ written \in Nat /\ written \in 0 .. MaxBytes
      /\ rpos \in [Descriptor -> Nat]
      /\ shielded \in SUBSET Highest(rb.readers)
      /\ AllIntact(rb, rpos, written, shielded)
  BY InvParts, MaxBytesAssumption
<1>2. /\ rb' \in SoundBuffer /\ Safe(rb') /\ rb'.readers = rb.readers
      /\ AllIntact(rb', rpos, written + n1 + n2, shielded)
  BY <1>1, TwoFills
<1>3. n1 \in Nat /\ n2 \in Nat
  <2>1. rb.pwrite \in Position /\ ringbuffer_free(rb) \in Position
    BY <1>1, FreeRange DEF SoundBuffer
  <2>2. todo \in Position
    BY <2>1, SizeAssumption DEF Position
  <2>3. Split(rb.pwrite, todo) \in 0 .. todo
    BY <2>1, <2>2, SplitRange
  <2>. QED BY <2>2, <2>3 DEF Position
<1>4. written' \in 0 .. MaxBytes
  BY <1>1, <1>3, MaxBytesAssumption
<1>. QED BY <1>1, <1>2, <1>4, InvPartsNext

LEMMA WriteInv ==
  ASSUME RingInv, NEW len \in Position, Write(len)
  PROVE  RingInv'
<1> DEFINE split == Split(rb.pwrite, len)
           rest == len - split
<1>1. rb \in SoundBuffer /\ written \in Nat
  BY InvParts, MaxBytesAssumption
<1>2. rb.pwrite \in Position /\ ringbuffer_free(rb) \in Position
  BY <1>1, FreeRange DEF SoundBuffer
<1>3. len \in 0 .. ringbuffer_free(rb) /\ len <= MaxBytes - written
  <2>1. len \in 1 .. Room
    BY DEF Write
  <2>. QED BY <1>1, <1>2, <2>1, MaxBytesAssumption DEF Room, Smaller, Position
<1>4. split \in 0 .. len
  BY <1>2, SplitRange
<1>5. split \in Nat /\ rest \in 0 .. len - split /\ split + rest = len
  BY <1>4 DEF Position
<1>6. /\ rb' = FillStep(FillStep(rb, written, split), written + split, rest)
      /\ rpos' = rpos /\ shielded' = shielded
  BY <1>1, <1>5, WriteIsTwoFills DEF Write
<1>7. written' = written + split + rest
  BY <1>1, <1>5 DEF Write
<1>8. split \in 0 .. Split(rb.pwrite, len) /\ ~ (split < Split(rb.pwrite, len))
  BY <1>5
<1>9. split + rest <= MaxBytes - written
  BY <1>3, <1>5
<1> HIDE DEF split, rest
<1>. QED BY <1>3, <1>5, <1>6, <1>7, <1>8, <1>9, StoredInv

LEMMA ReadfdInv ==
  ASSUME RingInv, NEW n1 \in Position, NEW n2 \in Position, Readfd(n1, n2)
  PROVE  RingInv'
<1> DEFINE todo == ringbuffer_free(rb)
<1>1. todo \in Position /\ written \in Nat
  BY InvParts, FreeRange, MaxBytesAssumption
<1>2. todo \in 0 .. ringbuffer_free(rb)
  BY <1>1 DEF Position
<1>3. n1 + n2 <= MaxBytes - written
  BY <1>1, MaxBytesAssumption DEF Readfd, Position
<1>4. /\ n1 \in 0 .. Split(rb.pwrite, todo)
      /\ n2 \in 0 .. todo - n1
      /\ n1 < Split(rb.pwrite, todo) => n2 <= Size - (rb.pwrite + n1)
      /\ rb' = FillStep(FillStep(rb, written, n1), written + n1, n2)
      /\ written' = written + n1 + n2
      /\ rpos' = rpos /\ shielded' = shielded
  BY DEF Readfd
<1> HIDE DEF todo
<1>. QED BY <1>2, <1>3, <1>4, StoredInv

LEMMA NextInv == RingInv /\ [Next]_vars => RingInv'
<1> SUFFICES ASSUME RingInv, [Next]_vars PROVE RingInv'
  OBVIOUS
<1>1. CASE Reset
  BY <1>1, ResetInv
<1>2. ASSUME NEW len \in Position, Write(len) PROVE RingInv'
  BY <1>2, WriteInv
<1>3. ASSUME NEW n1 \in Position, NEW n2 \in Position, Readfd(n1, n2) PROVE RingInv'
  BY <1>3, ReadfdInv
<1>4. ASSUME NEW rd \in Descriptor, Open(rd) PROVE RingInv'
  BY <1>4, OpenInv
<1>5. ASSUME NEW rd \in Descriptor, Close(rd) PROVE RingInv'
  BY <1>5, CloseInv
<1>6. ASSUME NEW rd \in Descriptor, Flush(rd) PROVE RingInv'
  BY <1>6, FlushInv
<1>7. ASSUME NEW rd \in Descriptor, WritefdFails(rd) PROVE RingInv'
  BY <1>7, WritefdFailsInv
<1>8. ASSUME NEW rd \in Descriptor, NEW n \in Position, Read(rd, n) PROVE RingInv'
  BY <1>8, ReadInv
<1>9. ASSUME NEW rd \in Descriptor, NEW n \in Position, WritefdOnce(rd, n) PROVE RingInv'
  BY <1>9, WritefdOnceInv
<1>10. ASSUME NEW rd \in Descriptor, NEW n \in Position, WritefdTwice(rd, n) PROVE RingInv'
  BY <1>10, WritefdTwiceInv
<1>11. CASE UNCHANGED vars
  BY <1>11 DEF vars, RingInv, TypeOK, HighestReaderSafe, ShieldedIntact
<1>. QED BY <1>1, <1>2, <1>3, <1>4, <1>5, <1>6, <1>7, <1>8, <1>9, <1>10, <1>11 DEF Next

LEMMA Invariance == Spec => []RingInv
  BY InitInv, NextInv, PTL DEF Spec

(* Whatever the size of the buffer and the number of readers, no sequence of calls
   leaves pwrite, min_pread or a pread outside data, although ringbuffer_readfd and
   ringbuffer_writefd add what the kernel returned without looking at it. *)
THEOREM TypesHold == Spec => []TypeOK
<1>1. RingInv => TypeOK
  BY DEF RingInv
<1>. QED BY <1>1, Invariance, PTL

(* The writer is never offered a byte the highest open descriptor still waits for:
   update_min may be skipped, and ringbuffer_open may leave min_pread stale, and
   what ringbuffer_free computes is then only too small. *)
THEOREM WriterStaysClear == Spec => []HighestReaderSafe
<1>1. RingInv => HighestReaderSafe
  BY DEF RingInv
<1>. QED BY <1>1, Invariance, PTL

(* A descriptor that has been the highest since it was opened loses no byte and
   sees none twice, across wraps of both positions, partial writes, flushes,
   resets and the opening and closing of lower descriptors. *)
THEOREM ShieldedReadersServed == Spec => []ShieldedIntact
<1>1. RingInv => ShieldedIntact
  BY DEF RingInv
<1>. QED BY <1>1, Invariance, PTL
-----------------------------------------------------------------------------
(* The bytes of the input from number k up to, and without, number w. *)
Run(k, w) == [i \in 1 .. w - k |-> k + i - 1]

LEMMA RunIsSeq ==
  ASSUME NEW k \in Nat, NEW w \in Nat, k <= w
  PROVE  /\ Run(k, w) \in Seq(Int) /\ Len(Run(k, w)) = w - k
         /\ \A i \in 1 .. w - k : Run(k, w)[i] = k + i - 1
<1>1. w - k \in Nat
  OBVIOUS
<1>2. Run(k, w) \in [1 .. w - k -> Int]
  BY DEF Run
<1>3. Run(k, w) \in Seq(Int)
  BY <1>1, <1>2, SeqDef
<1>4. Len(Run(k, w)) = w - k
  BY <1>1, <1>2, <1>3, LenProperties
<1>. QED BY <1>3, <1>4 DEF Run

LEMMA EmptyRun == ASSUME NEW k \in Nat PROVE Run(k, k) = <<>>
<1>1. Run(k, k) \in Seq(Int) /\ Len(Run(k, k)) = 0
  BY RunIsSeq
<1>. QED BY <1>1, EmptySeq

(* What is published is appended, and what is consumed leaves the rest. *)
LEMMA RunPublished ==
  ASSUME NEW k \in Nat, NEW w \in Nat, NEW n \in Nat, k <= w
  PROVE  Run(k, w + n) = Run(k, w) \o [i \in 1 .. n |-> w + i - 1]
<1>. DEFINE s == Run(k, w)
            t == [i \in 1 .. n |-> w + i - 1]
            u == Run(k, w + n)
<1>1. t = Run(w, w + n)
  <2>1. (w + n) - w = n
    OBVIOUS
  <2>. QED BY <2>1 DEF Run
<1>2. t \in Seq(Int) /\ Len(t) = n /\ \A i \in 1 .. n : t[i] = w + i - 1
  <2>1. w + n \in Nat /\ w <= w + n /\ (w + n) - w = n
    OBVIOUS
  <2>. HIDE DEF t
  <2>. QED BY <1>1, <2>1, RunIsSeq
<1>3. s \in Seq(Int) /\ Len(s) = w - k /\ \A i \in 1 .. w - k : s[i] = k + i - 1
  BY RunIsSeq
<1>4. u \in Seq(Int) /\ Len(u) = w + n - k /\ \A i \in 1 .. w + n - k : u[i] = k + i - 1
  <2>1. w + n \in Nat /\ k <= w + n
    OBVIOUS
  <2>. QED BY <2>1, RunIsSeq
<1>. HIDE DEF s, t, u
<1>5. /\ s \o t \in Seq(Int) /\ Len(s \o t) = Len(s) + Len(t)
      /\ \A i \in 1 .. Len(s) + Len(t) : (s \o t)[i] = IF i <= Len(s) THEN s[i] ELSE t[i - Len(s)]
  BY <1>2, <1>3, ConcatProperties
<1>6. Len(u) = Len(s \o t)
  BY <1>2, <1>3, <1>4, <1>5
<1>7. ASSUME NEW i \in 1 .. Len(u) PROVE u[i] = (s \o t)[i]
  <2>1. u[i] = k + i - 1 /\ i \in 1 .. Len(s) + Len(t)
    BY <1>2, <1>3, <1>4
  <2>2. CASE i <= Len(s)
    BY <1>3, <1>5, <2>1, <2>2
  <2>3. CASE ~ (i <= Len(s))
    <3>1. (s \o t)[i] = t[i - (w - k)] /\ i - (w - k) \in 1 .. n
      BY <1>2, <1>3, <1>5, <2>1, <2>3
    <3>2. t[i - (w - k)] = w + (i - (w - k)) - 1
      BY <1>2, <3>1
    <3>. QED BY <2>1, <3>1, <3>2
  <2>. QED BY <2>2, <2>3
<1>8. u = s \o t
  BY <1>4, <1>5, <1>6, <1>7, SeqEqual
<1>. QED BY <1>8 DEF s, t, u

LEMMA RunConsumed ==
  ASSUME NEW k \in Nat, NEW w \in Nat, NEW n \in Nat, k + n <= w
  PROVE  Run(k + n, w) = SubSeq(Run(k, w), n + 1, Len(Run(k, w)))
<1>. DEFINE s == Run(k, w)
            m == Len(s)
            t == SubSeq(s, n + 1, m)
            u == Run(k + n, w)
<1>1. s \in Seq(Int) /\ m = w - k /\ \A i \in 1 .. w - k : s[i] = k + i - 1
  BY RunIsSeq
<1>2. u \in Seq(Int) /\ Len(u) = w - (k + n) /\ \A i \in 1 .. w - (k + n) : u[i] = (k + n) + i - 1
  <2>1. k + n \in Nat
    OBVIOUS
  <2>. QED BY <2>1, RunIsSeq
<1>. HIDE DEF s, m, u
<1>3. \A i \in n + 1 .. m : s[i] \in Int
  BY <1>1
<1>4. /\ t \in Seq(Int) /\ Len(t) = (IF n + 1 <= m THEN m - (n + 1) + 1 ELSE 0)
      /\ \A i \in 1 .. m - (n + 1) + 1 : t[i] = s[(n + 1) + i - 1]
  <2>1. m \in Int /\ n + 1 \in Int
    BY <1>1
  <2>. QED BY <1>3, <2>1, SubSeqProperties
<1>. HIDE DEF t
<1>5. Len(u) = Len(t)
  BY <1>1, <1>2, <1>4
<1>6. ASSUME NEW i \in 1 .. Len(u) PROVE u[i] = t[i]
  <2>1. t[i] = s[n + i] /\ n + i \in 1 .. w - k
    <3>1. i \in 1 .. m - (n + 1) + 1 /\ (n + 1) + i - 1 = n + i /\ n + i \in 1 .. w - k
      BY <1>1, <1>2
    <3>. QED BY <1>4, <3>1
  <2>. QED BY <1>1, <1>2, <2>1
<1>7. u = t
  BY <1>2, <1>4, <1>5, <1>6, SeqEqual
<1>. QED BY <1>7 DEF s, m, t, u
-----------------------------------------------------------------------------
(* The queue of the feed is the run of bytes the shielded descriptor is owed. *)
LEMMA OnlyShielded ==
  ASSUME RingInv, NEW r \in shielded
  PROVE  shielded = {r} /\ r \in Descriptor
<1>1. rb.readers \in SUBSET Descriptor /\ shielded \subseteq Highest(rb.readers)
  BY InvParts DEF SoundBuffer
<1>2. \A q \in shielded : q = r
  BY <1>1, HighestUnique
<1>. QED BY <1>1, <1>2 DEF Highest

LEMMA QueueIsRun ==
  ASSUME RingInv, NEW r \in shielded
  PROVE  /\ ShieldedQueue = Run(rpos[r], written)
         /\ rpos[r] \in Nat /\ written \in Nat /\ rpos[r] <= written
         /\ written - rpos[r] <= Size - 1 /\ written <= MaxBytes
<1>1. /\ rb \in SoundBuffer /\ written \in Nat /\ written <= MaxBytes /\ rpos[r] \in Nat
      /\ r \in Descriptor /\ shielded = {r}
  BY OnlyShielded, InvParts, MaxBytesAssumption
<1>. DEFINE avail == ringbuffer_avail(rb, r)
            p     == rb.pread[r]
<1>2. /\ rpos[r] + avail = written
      /\ \A i \in 0 .. avail - 1 : rb.data[(p + i) % Size] = rpos[r] + i
  BY DEF RingInv, ShieldedIntact
<1>3. avail \in Position /\ p \in Position
  BY <1>1, AvailRange DEF SoundBuffer
<1>. HIDE DEF avail, p
<1>4. avail \in 0 .. Size - 1 /\ p \in Nat
  BY <1>3, SizeAssumption DEF Position
<1>5. avail = written - rpos[r]
  BY <1>1, <1>2, <1>4, SizeAssumption
<1>6. Pending(r) = [i \in 1 .. avail |-> rb.data[(p + i - 1) % Size]]
  BY DEF Pending, avail, p
<1>7. ASSUME NEW i \in 1 .. avail PROVE rb.data[(p + i - 1) % Size] = rpos[r] + i - 1
  <2>1. i - 1 \in 0 .. avail - 1 /\ p + (i - 1) = p + i - 1
    BY <1>4, SizeAssumption
  <2>2. rb.data[(p + (i - 1)) % Size] = rpos[r] + (i - 1)
    BY <1>2, <2>1
  <2>3. rpos[r] + (i - 1) = rpos[r] + i - 1
    BY <1>1, <1>4, SizeAssumption
  <2>. QED BY <2>1, <2>2, <2>3
<1>8. Pending(r) = Run(rpos[r], written)
  BY <1>5, <1>6, <1>7 DEF Run
<1>9. ShieldedQueue = Pending(r)
  <2>1. (CHOOSE q \in shielded : TRUE) = r
    BY <1>1
  <2>. QED BY <2>1 DEF ShieldedQueue
<1>. QED BY <1>1, <1>4, <1>5, <1>8, <1>9, SizeAssumption

LEMMA NoQueue == shielded = {} => ShieldedQueue = <<>>
  BY DEF ShieldedQueue

(* What the feed shows of a state: its queue, as a run. *)
Shows ==
  /\ written \in Nat /\ written <= MaxBytes /\ rpos \in [Descriptor -> Nat]
  /\ shielded = {} => ShieldedQueue = <<>>
  /\ \A r \in shielded :
        /\ shielded = {r} /\ r \in Descriptor
        /\ ShieldedQueue = Run(rpos[r], written)
        /\ rpos[r] \in Nat /\ rpos[r] <= written /\ written - rpos[r] <= Size - 1

LEMMA Shown == RingInv => Shows
<1> SUFFICES ASSUME RingInv PROVE Shows
  OBVIOUS
<1>1. written \in Nat /\ written <= MaxBytes /\ rpos \in [Descriptor -> Nat]
  BY InvParts, MaxBytesAssumption
<1>. QED BY <1>1, OnlyShielded, QueueIsRun, NoQueue DEF Shows

LEMMA ShownNext == RingInv' => Shows'
  BY Shown, PTL
-----------------------------------------------------------------------------
(* Steps that write nothing and keep the shielded descriptor: the reader takes or
   skips some bytes, or none. *)
LEMMA Taken ==
  ASSUME Shows, Shows', written' = written, shielded' = shielded,
         \A r \in shielded : rpos[r] <= rpos'[r]
  PROVE  [F!FeedNext]_(F!feedVars)
<1>1. CASE shielded = {}
  <2>1. ShieldedQueue' = ShieldedQueue
    BY <1>1 DEF Shows
  <2>. QED BY <2>1 DEF F!feedVars
<1>2. ASSUME NEW r \in shielded PROVE [F!FeedNext]_(F!feedVars)
  <2>. DEFINE n == rpos'[r] - rpos[r]
  <2>1. /\ ShieldedQueue = Run(rpos[r], written) /\ rpos[r] \in Nat /\ written \in Nat
        /\ rpos[r] <= written /\ written - rpos[r] <= Size - 1
    BY DEF Shows
  <2>2. ShieldedQueue' = Run(rpos'[r], written) /\ rpos'[r] \in Nat /\ rpos'[r] <= written
    BY DEF Shows
  <2>3. n \in Nat /\ n <= Size - 1 /\ rpos'[r] = rpos[r] + n /\ rpos[r] + n <= written
    BY <2>1, <2>2, SizeAssumption
  <2>. HIDE DEF n
  <2>4. CASE n = 0
    <3>1. ShieldedQueue' = ShieldedQueue
      BY <2>1, <2>2, <2>3, <2>4
    <3>. QED BY <3>1 DEF F!feedVars
  <2>5. CASE n # 0
    <3>1. n \in 1 .. Size - 1
      BY <2>3, <2>5, SizeAssumption
    <3>2. Len(ShieldedQueue) = written - rpos[r]
      BY <2>1, RunIsSeq
    <3>3. n <= Len(ShieldedQueue)
      BY <2>1, <2>3, <3>2
    <3>4. ShieldedQueue' = SubSeq(ShieldedQueue, n + 1, Len(ShieldedQueue))
      <4>. DEFINE k == rpos[r]
                  q == Run(k, written)
      <4>1. ShieldedQueue = q /\ ShieldedQueue' = Run(k + n, written)
        BY <2>1, <2>2, <2>3
      <4>2. Run(k + n, written) = SubSeq(q, n + 1, Len(q))
        <5>1. k \in Nat /\ k + n <= written
          BY <2>1, <2>3
        <5>. HIDE DEF k
        <5>. QED BY <2>1, <2>3, <5>1, RunConsumed
      <4>. QED BY <4>1, <4>2
    <3>5. F!Consume(n)
      BY <3>3, <3>4 DEF F!Consume
    <3>. QED BY <3>1, <3>5 DEF F!FeedNext
  <2>. QED BY <2>4, <2>5
<1>. QED BY <1>1, <1>2

(* Steps that write n bytes. *)
LEMMA Given ==
  ASSUME Shows, Shows', NEW n \in 1 .. Size - 1,
         written' = written + n, shielded' = shielded, rpos' = rpos
  PROVE  [F!FeedNext]_(F!feedVars)
<1>1. written + n <= MaxBytes /\ n \in Nat
  BY SizeAssumption DEF Shows
<1>2. CASE shielded = {}
  <2>1. ShieldedQueue' = ShieldedQueue
    BY <1>2 DEF Shows
  <2>2. F!Publish(n)
    BY <1>1, <1>2, <2>1 DEF F!Publish
  <2>. QED BY <2>2 DEF F!FeedNext
<1>3. ASSUME NEW r \in shielded PROVE [F!FeedNext]_(F!feedVars)
  <2>1. /\ ShieldedQueue = Run(rpos[r], written) /\ rpos[r] \in Nat /\ written \in Nat
        /\ rpos[r] <= written
    BY DEF Shows
  <2>2. ShieldedQueue' = Run(rpos[r], written + n) /\ (written + n) - rpos[r] <= Size - 1
    BY DEF Shows
  <2>3. Len(ShieldedQueue) = written - rpos[r]
    BY <2>1, RunIsSeq
  <2>4. Len(ShieldedQueue) + n <= Size - 1
    BY <1>1, <2>1, <2>2, <2>3, SizeAssumption
  <2>5. ShieldedQueue' = ShieldedQueue \o [i \in 1 .. n |-> written + i - 1]
    BY <1>1, <2>1, <2>2, RunPublished
  <2>6. F!Publish(n)
    BY <1>1, <2>4, <2>5 DEF F!Publish
  <2>. QED BY <2>6 DEF F!FeedNext
<1>. QED BY <1>2, <1>3

LEMMA OpenRefines ==
  ASSUME Shows, Shows', NEW rd \in Descriptor, Open(rd)
  PROVE  [F!FeedNext]_(F!feedVars)
<1>1. /\ written' = written /\ rpos' = [rpos EXCEPT ![rd] = written]
      /\ shielded' \subseteq shielded \cup {rd}
  BY DEF Open
<1>2. CASE shielded' = {}
  <2>1. ShieldedQueue' = <<>>
    BY <1>2 DEF Shows
  <2>2. F!Detach
    BY <1>1, <1>2, <2>1 DEF F!Detach
  <2>. QED BY <2>2 DEF F!FeedNext
<1>3. CASE rd \in shielded'
  <2>1. shielded' = {rd} /\ ShieldedQueue' = Run(rpos'[rd], written) /\ written \in Nat
    BY <1>1, <1>3 DEF Shows
  <2>2. rpos'[rd] = written
    BY <1>1, <1>3 DEF Shows
  <2>3. ShieldedQueue' = <<>>
    BY <2>1, <2>2, EmptyRun
  <2>4. F!Attach(rd)
    BY <1>1, <2>1, <2>3 DEF F!Attach
  <2>. QED BY <2>4 DEF F!FeedNext
<1>4. ASSUME NEW r \in shielded', r # rd PROVE [F!FeedNext]_(F!feedVars)
  <2>1. r \in shielded
    BY <1>1, <1>4
  <2>2. shielded = {r} /\ shielded' = {r}
    BY <1>4, <2>1 DEF Shows
  <2>3. rpos'[r] = rpos[r] /\ rpos[r] \in Nat
    BY <1>1, <1>4, <2>1, <2>2 DEF Shows
  <2>. QED BY <1>1, <2>2, <2>3, Taken
<1>. QED BY <1>2, <1>3, <1>4

LEMMA CloseRefines ==
  ASSUME Shows, Shows', NEW rd \in Descriptor, Close(rd)
  PROVE  [F!FeedNext]_(F!feedVars)
<1>1. written' = written /\ rpos' = rpos /\ shielded' = shielded \ {rd}
  BY DEF Close
<1>2. CASE rd \in shielded
  <2>1. shielded' = {} /\ ShieldedQueue' = <<>>
    BY <1>1, <1>2 DEF Shows
  <2>2. F!Detach
    BY <1>1, <2>1 DEF F!Detach
  <2>. QED BY <2>2 DEF F!FeedNext
<1>3. CASE rd \notin shielded
  <2>1. shielded' = shielded /\ \A r \in shielded : rpos[r] <= rpos'[r]
    BY <1>1, <1>3 DEF Shows
  <2>. QED BY <1>1, <2>1, Taken
<1>. QED BY <1>2, <1>3

(* Flush and Reset skip to the end, the others take what they return. *)
LEMMA ReadingRefines ==
  ASSUME Shows, Shows', NEW rd \in Descriptor, NEW n \in Position,
         \/ Reset \/ Flush(rd) \/ WritefdFails(rd)
         \/ Read(rd, n) \/ WritefdOnce(rd, n) \/ WritefdTwice(rd, n),
         rb \in SoundBuffer
  PROVE  [F!FeedNext]_(F!feedVars)
<1>1. written' = written /\ shielded' = shielded
  BY DEF Reset, Flush, WritefdFails, Read, WritefdOnce, WritefdTwice
<1>2. n \in Nat /\ \A r \in shielded : r \in Descriptor /\ rpos[r] \in Nat /\ rpos[r] <= written
  BY DEF Shows, Position
<1>. DEFINE split == Split(rb.pread[rd], ringbuffer_avail(rb, rd))
<1>3. split \in Nat
  <2>1. ringbuffer_avail(rb, rd) \in Position /\ rb.pread[rd] \in Position
    BY AvailRange DEF SoundBuffer
  <2>2. split \in 0 .. ringbuffer_avail(rb, rd)
    BY <2>1, SplitRange
  <2>. QED BY <2>2
<1>4. CASE Reset \/ Flush(rd)
  <2>1. \A r \in shielded : rpos[r] <= rpos'[r]
    BY <1>2, <1>4 DEF Reset, Flush, Shows
  <2>. QED BY <1>1, <2>1, Taken
<1>5. CASE Read(rd, n) \/ WritefdOnce(rd, n) \/ WritefdTwice(rd, n) \/ WritefdFails(rd)
  <2>1. PICK m \in Nat : rpos' = [rpos EXCEPT ![rd] = @ + m]
    <3>1. CASE Read(rd, n) \/ WritefdOnce(rd, n)
      BY <1>2, <3>1 DEF Read, WritefdOnce
    <3>2. CASE WritefdTwice(rd, n)
      <4>1. rpos' = [rpos EXCEPT ![rd] = @ + split + n]
        BY <3>2 DEF WritefdTwice
      <4>2. rpos[rd] + split + n = rpos[rd] + (split + n) /\ split + n \in Nat
        <5>. HIDE DEF split
        <5>. QED BY <1>2, <1>3 DEF Shows
      <4>. QED BY <4>1, <4>2
    <3>3. CASE WritefdFails(rd)
      <4>1. rpos' = [rpos EXCEPT ![rd] = @ + split]
        BY <3>3 DEF WritefdFails
      <4>. QED BY <1>3, <4>1
    <3>. QED BY <1>5, <3>1, <3>2, <3>3
  <2>2. \A r \in shielded : rpos[r] <= rpos'[r]
    BY <1>2, <2>1 DEF Shows
  <2>. QED BY <1>1, <2>2, Taken
<1>. QED BY <1>4, <1>5

LEMMA WriteRefines ==
  ASSUME Shows, Shows', NEW len \in Position, Write(len), rb \in SoundBuffer
  PROVE  [F!FeedNext]_(F!feedVars)
<1>1. written' = written + len /\ rpos' = rpos /\ shielded' = shielded /\ len \in 1 .. Room
  BY DEF Write
<1>2. len \in 1 .. Size - 1
  <2>1. ringbuffer_free(rb) \in Position
    BY FreeRange
  <2>2. len >= 1
    <3>1. Room \in Int
      BY <2>1, MaxBytesAssumption DEF Room, Smaller, Position, Shows
    <3>. QED BY <1>1, <3>1
  <2>. QED BY <2>2, SizeAssumption DEF Position
<1>. QED BY <1>1, <1>2, Given

LEMMA ReadfdRefines ==
  ASSUME Shows, Shows', NEW n1 \in Position, NEW n2 \in Position, Readfd(n1, n2), rb \in SoundBuffer
  PROVE  [F!FeedNext]_(F!feedVars)
<1>. DEFINE n == n1 + n2
<1>1. ringbuffer_free(rb) \in 0 .. Size - 1 /\ written \in Nat
  BY FreeRange DEF Position, Shows
<1>2. n \in 1 .. Size - 1
  <2>1. n2 \in 0 .. ringbuffer_free(rb) - n1 /\ n1 + n2 \in 1 .. MaxBytes - written
    BY DEF Readfd
  <2>. QED BY <1>1, <2>1, SizeAssumption, MaxBytesAssumption DEF Position
<1>3. written' = written + n /\ rpos' = rpos /\ shielded' = shielded
  BY <1>1 DEF Readfd, Position
<1>. HIDE DEF n
<1>. QED BY <1>2, <1>3, Given
-----------------------------------------------------------------------------
LEMMA InitRefines == Init => F!FeedInit
  BY DEF Init, F!FeedInit, ShieldedQueue

LEMMA NextRefines == RingInv /\ RingInv' /\ [Next]_vars => [F!FeedNext]_(F!feedVars)
<1> SUFFICES ASSUME RingInv, RingInv', [Next]_vars PROVE [F!FeedNext]_(F!feedVars)
  OBVIOUS
<1>1. Shows /\ Shows' /\ rb \in SoundBuffer
  BY Shown, ShownNext, InvParts
<1>2. 0 \in Descriptor /\ 0 \in Position
  BY SizeAssumption, ReadersAssumption DEF Descriptor, Position
<1>3. CASE Reset
  BY <1>1, <1>2, <1>3, ReadingRefines
<1>4. ASSUME NEW len \in Position, Write(len) PROVE [F!FeedNext]_(F!feedVars)
  BY <1>1, <1>4, WriteRefines
<1>5. ASSUME NEW n1 \in Position, NEW n2 \in Position, Readfd(n1, n2)
      PROVE  [F!FeedNext]_(F!feedVars)
  BY <1>1, <1>5, ReadfdRefines
<1>6. ASSUME NEW rd \in Descriptor, Open(rd) PROVE [F!FeedNext]_(F!feedVars)
  BY <1>1, <1>6, OpenRefines
<1>7. ASSUME NEW rd \in Descriptor, Close(rd) PROVE [F!FeedNext]_(F!feedVars)
  BY <1>1, <1>7, CloseRefines
<1>8. ASSUME NEW rd \in Descriptor, Flush(rd) \/ WritefdFails(rd) PROVE [F!FeedNext]_(F!feedVars)
  BY <1>1, <1>2, <1>8, ReadingRefines
<1>9. ASSUME NEW rd \in Descriptor, NEW n \in Position,
             Read(rd, n) \/ WritefdOnce(rd, n) \/ WritefdTwice(rd, n)
      PROVE  [F!FeedNext]_(F!feedVars)
  BY <1>1, <1>9, ReadingRefines
<1>10. CASE UNCHANGED vars
  <2>1. ShieldedQueue' = ShieldedQueue
    BY <1>10 DEF vars, ShieldedQueue, Pending
  <2>. QED BY <1>10, <2>1 DEF vars, F!feedVars
<1>. QED BY <1>3, <1>4, <1>5, <1>6, <1>7, <1>8, <1>9, <1>10 DEF Next

(* Each function of ringbuffer.c, called as the notes of ringbuffer.h ask, is a step of
   the feed: to the descriptor that has been the highest since its open, a write
   publishes, a read, flush or reset consumes, whatever is opened, closed or sent
   below it, and no call loses, repeats or reorders what it is owed. *)
THEOREM RingImplementsFeed == Spec => ImplementsFeed
<1>1. RingInv /\ RingInv' /\ [Next]_vars => [F!FeedNext]_(F!feedVars)
  BY NextRefines
<1>. QED BY InitRefines, <1>1, Invariance, PTL DEF Spec, ImplementsFeed, F!FeedSpec
=============================================================================
