----------------------------- MODULE RingBuffer -----------------------------
(***************************************************************************)
(* struct ringbuffer and the functions of ringbuffer.c, as operators on a  *)
(* record rb.  A function whose result depends on what the kernel or the   *)
(* compiler does returns the SET of states it may leave the buffer in.     *)
(*                                                                         *)
(* Bytes are numbered by their place in the input stream, so the content   *)
(* of a cell says which byte it holds.  Modules Ring and Stream give the   *)
(* functions their callers.                                                *)
(***************************************************************************)
EXTENDS Integers

CONSTANTS
    Size,         \* rbuf->size
    MAX_READERS,  \* width of the pread array
    Garbage       \* what an uninitialised ssize_t may hold

ASSUME SizeAssumption    == Size \in Nat \ {0}
ASSUME ReadersAssumption == MAX_READERS \in Nat \ {0}
ASSUME GarbageAssumption == Garbage \subseteq Int

Descriptor   == 0 .. MAX_READERS - 1
NoDescriptor == -1              \* ringbuffer_open found no free bit
Position     == 0 .. Size - 1
Blank        == -1              \* a cell no byte of the stream was stored in

\* pread[-1] is not part of the array; bit -1 of readers is bit 31 (1 << -1).
ringbuffer ==
    [pread     : [Descriptor -> Position],
     min_pread : Position \cup Garbage,
     pwrite    : Position,
     readers   : SUBSET (Descriptor \cup {NoDescriptor}),
     data      : [Position -> Int]]

Smaller(a, b) == IF a < b THEN a ELSE b

ringbuffer_reset(rb) ==
    [rb EXCEPT !.pread = [d \in Descriptor |-> 0], !.pwrite = 0, !.min_pread = 0]

ringbuffer_init ==
    [pread     |-> [d \in Descriptor |-> 0],
     min_pread |-> 0,
     pwrite    |-> 0,
     readers   |-> {},
     data      |-> [p \in Position |-> Blank]]

ringbuffer_avail(rb, rd) ==
    LET avail == rb.pwrite - rb.pread[rd]
    IN  IF avail < 0 THEN avail + Size ELSE avail

\* Mutant of ringbuffer_free: the cell that tells full from empty is offered too.
ringbuffer_free_Full(rb) ==
    LET gap == rb.min_pread - rb.pwrite
    IN  IF rb.readers = {} THEN Size ELSE IF gap <= 0 THEN gap + Size ELSE gap

ringbuffer_free(rb) ==
    LET gap == rb.min_pread - rb.pwrite
    IN  IF rb.readers = {} THEN Size - 1
        ELSE (IF gap <= 0 THEN gap + Size ELSE gap) - 1

ringbuffer_empty(rb, rd) == rb.pread[rd] = rb.pwrite

\* The open descriptor with the highest index, as a set with at most one element.
Highest(readers) ==
    {r \in readers \cap Descriptor : \A q \in readers \cap Descriptor : q <= r}

\* Mutant of MinPread: the loop keeps the first open descriptor.
MinPread_First(rb) ==
    IF rb.readers \cap Descriptor = {} THEN Garbage
    ELSE {rb.pread[r] : r \in {d \in rb.readers \cap Descriptor :
                                  \A e \in rb.readers \cap Descriptor : d <= e}}

\* Mutant of MinPread: the choice is never assigned.
MinPread_Stale(rb) == {rb.min_pread}

\* min_avail stays -1 in the loop, so every open descriptor replaces the choice
\* of the one before; with no bit below MAX_READERS set nothing is assigned.
MinPread(rb) ==
    IF rb.readers \cap Descriptor = {} THEN Garbage
    ELSE {rb.pread[r] : r \in Highest(rb.readers)}

ringbuffer_update_min(rb) ==
    IF rb.readers = {} THEN {rb}
    ELSE {[rb EXCEPT !.min_pread = m] : m \in MinPread(rb)}

\* The lowest clear bit, as a set with at most one element.
Lowest(readers) ==
    {d \in Descriptor \ readers : \A e \in Descriptor \ readers : d <= e}

ringbuffer_open(rb, rd) ==
    [rb EXCEPT !.readers = @ \cup {rd}, !.pread[rd] = rb.pwrite]

ToggleBit(readers, rd) ==
    IF rd \in readers THEN readers \ {rd} ELSE readers \cup {rd}

ringbuffer_close(rb, rd) ==
    ringbuffer_update_min([rb EXCEPT !.readers = ToggleBit(@, rd)])

ringbuffer_flush(rb, rd) ==
    ringbuffer_update_min([rb EXCEPT !.pread[rd] = rb.pwrite])

\* Bytes up to the end of data when a transfer of len from pos wraps, else 0.
\* len is a size_t: below zero stands for more than any buffer.
Split(pos, len) == IF pos + len > Size \/ pos + len < 0 THEN Size - pos ELSE 0

\* data after n bytes of the stream, the first numbered k, went to data + pos;
\* what does not fit in data overwrites memory the model does not have.
Fill(data, pos, k, n) ==
    [p \in Position |-> IF pos <= p /\ p < pos + n THEN k + (p - pos) ELSE data[p]]

\* Mutant of FillStep: pwrite is not brought back into data.
FillStep_NoWrap(rb, k, n) ==
    [rb EXCEPT !.data = Fill(@, rb.pwrite, k, n), !.pwrite = @ + n]

\* One read() call of ringbuffer_readfd that returned n.
FillStep(rb, k, n) ==
    [rb EXCEPT !.data = Fill(@, rb.pwrite, k, n), !.pwrite = (@ + n) % Size]

\* One write() call of ringbuffer_writefd that returned n.
DrainStep(rb, rd, n) == [rb EXCEPT !.pread[rd] = (@ + n) % Size]

\* memcpy of len bytes, in two pieces when it wraps.
ringbuffer_write(rb, k, len) ==
    LET split == Split(rb.pwrite, len)
        first == IF split > 0
                 THEN [rb EXCEPT !.data = Fill(@, rb.pwrite, k, split), !.pwrite = 0]
                 ELSE rb
    IN  FillStep(first, k + split, len - split)

ringbuffer_read(rb, rd, len) ==
    LET split == Split(rb.pread[rd], len)
        first == IF split > 0 THEN [rb EXCEPT !.pread[rd] = 0] ELSE rb
    IN  ringbuffer_update_min(DrainStep(first, rd, len - split))

=============================================================================
