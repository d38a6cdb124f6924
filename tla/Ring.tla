-------------------------------- MODULE Ring --------------------------------
(***************************************************************************)
(* The ring buffer used the way the notes of ringbuffer.h ask for: the     *)
(* calls do not overlap, a descriptor is used between its open and its     *)
(* close, a write is no longer than ringbuffer_free said and a read no     *)
(* longer than ringbuffer_avail said.  What the buffer does to its readers *)
(* here is its own doing; module Stream adds the threads.                  *)
(***************************************************************************)
EXTENDS RingBuffer

CONSTANT MaxBytes   \* bound: length of the input stream

ASSUME MaxBytesAssumption == MaxBytes \in Nat

VARIABLES
    rb,        \* the struct ringbuffer
    written,   \* bytes of the input stream stored so far
    rpos,      \* history: number of the next byte each descriptor is owed
    shielded   \* history: descriptors that were the highest open one since their open

vars == <<rb, written, rpos, shielded>>

Init ==
    /\ rb = ringbuffer_init
    /\ written = 0
    /\ rpos = [d \in Descriptor |-> 0]
    /\ shielded = {}

Room == Smaller(ringbuffer_free(rb), MaxBytes - written)
-----------------------------------------------------------------------------
Open(rd) ==
    /\ rd \in Lowest(rb.readers)
    /\ rb' = ringbuffer_open(rb, rd)
    /\ rpos' = [rpos EXCEPT ![rd] = written]
    /\ shielded' = (shielded \cup {rd}) \cap Highest(rb.readers \cup {rd})
    /\ UNCHANGED written

Close(rd) ==
    /\ rd \in rb.readers
    /\ rb' \in ringbuffer_close(rb, rd)
    /\ shielded' = shielded \ {rd}
    /\ UNCHANGED <<written, rpos>>

Flush(rd) ==
    /\ rd \in rb.readers
    /\ rb' \in ringbuffer_flush(rb, rd)
    /\ rpos' = [rpos EXCEPT ![rd] = written]
    /\ UNCHANGED <<written, shielded>>

\* Every descriptor skips to the end of the input.
Reset ==
    /\ rb' = ringbuffer_reset(rb)
    /\ rpos' = [d \in Descriptor |-> written]
    /\ UNCHANGED <<written, shielded>>

Read(rd, len) ==
    /\ rd \in rb.readers
    /\ len \in 1 .. ringbuffer_avail(rb, rd)
    /\ rb' \in ringbuffer_read(rb, rd, len)
    /\ rpos' = [rpos EXCEPT ![rd] = @ + len]
    /\ UNCHANGED <<written, shielded>>

Write(len) ==
    /\ len \in 1 .. Room
    /\ rb' = ringbuffer_write(rb, written, len)
    /\ written' = written + len
    /\ UNCHANGED <<rpos, shielded>>

\* ringbuffer_writefd when its one write() call, or the first of two, returns n
\* and no second call follows.
WritefdOnce(rd, n) ==
    LET avail == ringbuffer_avail(rb, rd)
        split == Split(rb.pread[rd], avail)
    IN  /\ rd \in rb.readers
        /\ avail > 0
        /\ n \in 0 .. (IF split > 0 THEN split - 1 ELSE avail)
        /\ rb' \in ringbuffer_update_min(DrainStep(rb, rd, n))
        /\ rpos' = [rpos EXCEPT ![rd] = @ + n]
        /\ UNCHANGED <<written, shielded>>

\* ringbuffer_writefd when the first call sends all up to the end of data and the
\* second one returns n.
WritefdTwice(rd, n) ==
    LET avail == ringbuffer_avail(rb, rd)
        split == Split(rb.pread[rd], avail)
    IN  /\ rd \in rb.readers
        /\ split > 0
        /\ n \in 0 .. avail - split
        /\ rb' \in ringbuffer_update_min(DrainStep(DrainStep(rb, rd, split), rd, n))
        /\ rpos' = [rpos EXCEPT ![rd] = @ + split + n]
        /\ UNCHANGED <<written, shielded>>

\* ... and when the second call fails: the early return skips ringbuffer_update_min.
WritefdFails(rd) ==
    LET split == Split(rb.pread[rd], ringbuffer_avail(rb, rd))
    IN  /\ rd \in rb.readers
        /\ split > 0
        /\ rb' = DrainStep(rb, rd, split)
        /\ rpos' = [rpos EXCEPT ![rd] = @ + split]
        /\ UNCHANGED <<written, shielded>>

\* ringbuffer_readfd when its calls return n1 and n2 (0 for a call not made, that
\* failed or that met the end of input).  The second call asks for all that is
\* left even when the first was short; here it stays inside data, which a regular
\* file ensures.  Module Stream drops that condition.
Readfd(n1, n2) ==
    LET todo  == ringbuffer_free(rb)
        split == Split(rb.pwrite, todo)
    IN  /\ n1 \in 0 .. split
        /\ n2 \in 0 .. todo - n1
        /\ n1 + n2 \in 1 .. MaxBytes - written
        /\ n1 < split => n2 <= Size - (rb.pwrite + n1)
        /\ rb' = FillStep(FillStep(rb, written, n1), written + n1, n2)
        /\ written' = written + n1 + n2
        /\ UNCHANGED <<rpos, shielded>>

Next ==
    \/ Reset
    \/ \E len \in Position : Write(len)
    \/ \E n1, n2 \in Position : Readfd(n1, n2)
    \/ \E rd \in Descriptor :
          \/ Open(rd)
          \/ Close(rd)
          \/ Flush(rd)
          \/ WritefdFails(rd)
          \/ \E n \in Position : Read(rd, n) \/ WritefdOnce(rd, n) \/ WritefdTwice(rd, n)

Spec == Init /\ [][Next]_vars
-----------------------------------------------------------------------------
\* A ring buffer whose readers all went through ringbuffer_open.
SoundBuffer ==
    [pread     : [Descriptor -> Position],
     min_pread : Position,
     pwrite    : Position,
     readers   : SUBSET Descriptor,
     data      : [Position -> Int]]

\* The fields keep to their ranges: no call leaves a position outside data, marks
\* a descriptor that was not opened, or takes min_pread from the stack.
TypeOK ==
    /\ rb \in SoundBuffer
    /\ written \in 0 .. MaxBytes
    /\ rpos \in [Descriptor -> Nat]
    /\ shielded \subseteq Highest(rb.readers)

\* What ringbuffer_free offers never reaches into what the highest open
\* descriptor still has to read, although ringbuffer_open leaves min_pread as it
\* was and a failed write() moves pread without it.
HighestReaderSafe ==
    \A r \in Highest(rb.readers) :
        ringbuffer_free(rb) + ringbuffer_avail(rb, r) <= Size - 1

\* A descriptor that has been the highest since it was opened finds in data, from
\* its pread on, exactly the bytes of the input it has not read, in order and
\* none missing.
ShieldedIntact ==
    \A r \in shielded :
        /\ rpos[r] + ringbuffer_avail(rb, r) = written
        /\ \A i \in 0 .. ringbuffer_avail(rb, r) - 1 :
              rb.data[(rb.pread[r] + i) % Size] = rpos[r] + i
=============================================================================
