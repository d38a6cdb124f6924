------------------------------ MODULE RingFeed ------------------------------
(***************************************************************************)
(* The ring buffer implements a Feed whose reader is the shielded          *)
(* descriptor: the one that has been the highest open one since its open.  *)
(***************************************************************************)
EXTENDS Ring, Sequences

\* The bytes waiting in data for descriptor rd.
Pending(rd) ==
    [i \in 1 .. ringbuffer_avail(rb, rd) |-> rb.data[(rb.pread[rd] + i - 1) % Size]]

ShieldedQueue == IF shielded = {} THEN <<>> ELSE Pending(CHOOSE r \in shielded : TRUE)

F == INSTANCE Feed WITH Reader <- Descriptor, Capacity <- Size - 1,
                        attached <- shielded, queue <- ShieldedQueue, published <- written

\* Every call of the ring buffer's functions is a step of the feed, or one that
\* the shielded descriptor does not notice: no call loses, repeats or reorders a
\* byte it is owed, for any number of other descriptors.
ImplementsFeed == F!FeedSpec
=============================================================================
