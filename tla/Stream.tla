------------------------------- MODULE Stream -------------------------------
(***************************************************************************)
(* A <Stdin> stream: the thread of stream_writer fills the ring buffer     *)
(* from standard input, and each connected client has a thread in          *)
(* fdstream_body that drains it through a descriptor of its own.  Only     *)
(* ringbuffer_update_min takes the buffer's mutex, so the steps below are  *)
(* the accesses to shared fields that other threads can come between.      *)
(***************************************************************************)
EXTENDS RingBuffer

CONSTANTS
    Client,      \* bound: the connections, each a thread that lives as long
    MaxBytes,    \* bound: length of standard input
    ShortReads,  \* read() may return less than asked for: a pipe or terminal
    ReadErrors   \* read() may fail

ASSUME MaxBytesAssumption == MaxBytes \in Nat
ASSUME InputAssumption    == ShortReads \in BOOLEAN /\ ReadErrors \in BOOLEAN

VARIABLES
    rb,        \* stream->rb
    mutex,     \* the clients inside ringbuffer_update_min's critical section
    active,    \* stream->active
    wpc,       \* where the writer thread is
    request,   \* its locals in ringbuffer_readfd
    written,   \* bytes consumed from standard input
    pc,        \* where each client's thread is
    loc,       \* its locals
    rpos,      \* history: number of the byte the client must be sent next
    damaged,   \* history: clients that were sent some other byte
    exposed    \* history: clients to which one of the causes of loss applies

ringVars    == <<rb, mutex>>
writerVars  == <<active, wpc, request, written>>
clientVars  == <<pc, loc>>
historyVars == <<rpos, damaged, exposed>>
vars == <<ringVars, writerVars, clientVars, historyVars>>

WriterPC == {"start", "select", "read1", "read2"}
Sending  == {"loop", "write1", "write2"}
Updating == {"check", "minload", "minstore"}
ClientPC == {"new", "done", "scan", "mark", "place", "unload", "unmark"} \cup Sending \cup Updating

NoRequest == [todo |-> 0, split |-> 0]
NoLocals  == [rd |-> NoDescriptor, seen |-> {}, todo |-> 0, split |-> 0,
              min_pread |-> 0, closing |-> FALSE]

\* stream_open: stream comes from malloc, and only the writer thread sets active.
Init ==
    /\ rb = ringbuffer_init
    /\ mutex = {}
    /\ active \in BOOLEAN
    /\ wpc = "start"
    /\ request = NoRequest
    /\ written = 0
    /\ pc = [c \in Client |-> "new"]
    /\ loc = [c \in Client |-> NoLocals]
    /\ rpos = [c \in Client |-> 0]
    /\ damaged = {}
    /\ exposed = {}

\* Clients that hold a descriptor whose pread they have set.
Attached ==
    {c \in Client : /\ pc[c] \in Sending \cup Updating
                    /\ ~ loc[c].closing
                    /\ loc[c].rd # NoDescriptor}

SharedWith(c) == {d \in Attached \ {c} : loc[d].rd = loc[c].rd}

\* Descriptor rd decides min_pread when readers is the bitmask.
Decides(rd, readers) == rd \in Highest(readers)

Outranked(readers) == {d \in Attached : ~ Decides(loc[d].rd, readers)}
-----------------------------------------------------------------------------
WriterStart ==
    /\ wpc = "start"
    /\ active' = TRUE
    /\ wpc' = "select"
    /\ UNCHANGED <<ringVars, request, written, clientVars, historyVars>>

\* select() reports input (or its end), and ringbuffer_readfd asks how much fits.
Request ==
    LET todo  == ringbuffer_free(rb)
        split == Split(rb.pwrite, todo)
    IN  /\ wpc = "select"
        /\ active
        /\ request' = [todo |-> todo, split |-> split]
        /\ wpc' = IF split > 0 THEN "read1" ELSE "read2"
        /\ UNCHANGED <<ringVars, active, written, clientVars, historyVars>>

\* What read() may return for count bytes.
Returned(count) ==
    LET most == Smaller(count, MaxBytes - written)
    IN  IF ShortReads /\ most > 0 THEN 1 .. most ELSE {most}

\* The first read() of a request that wraps: up to the end of data.
Read1(n) ==
    /\ wpc = "read1"
    /\ n \in Returned(request.split)
    /\ rb' = FillStep(rb, written, n)
    /\ written' = written + n
    /\ request' = [request EXCEPT !.todo = @ - n]
    /\ wpc' = "read2"
    /\ UNCHANGED <<mutex, active, clientVars, historyVars>>

\* The read() of all that is left of the request, whether or not it fits between
\* pwrite and the end of data.  A count that is negative as an ssize_t is refused.
Read2(n) ==
    /\ wpc = "read2"
    /\ request.todo >= 0
    /\ n \in Returned(request.todo)
    /\ rb' = FillStep(rb, written, n)
    /\ written' = written + n
    /\ request' = NoRequest
    /\ wpc' = "select"
    /\ exposed' = IF rb.pwrite + n > Size THEN exposed \cup Attached ELSE exposed
    /\ UNCHANGED <<mutex, active, clientVars, rpos, damaged>>

ReadFails ==
    /\ wpc \in {"read1", "read2"}
    /\ \/ ReadErrors
       \/ wpc = "read2" /\ request.todo < 0
    /\ request' = NoRequest
    /\ wpc' = "select"
    /\ UNCHANGED <<ringVars, active, written, clientVars, historyVars>>

Writer ==
    \/ WriterStart
    \/ Request
    \/ \E n \in 0 .. MaxBytes : Read1(n) \/ Read2(n)
    \/ ReadFails
-----------------------------------------------------------------------------
\* A request for the stream's path reaches fdstream_body.
Connect(c) ==
    /\ pc[c] = "new"
    /\ pc' = [pc EXCEPT ![c] = "scan"]
    /\ UNCHANGED <<ringVars, writerVars, loc, historyVars>>

\* ringbuffer_open tests the bits of readers.
Scan(c) ==
    /\ pc[c] = "scan"
    /\ \/ \E rd \in Lowest(rb.readers) :
             /\ loc' = [loc EXCEPT ![c].rd = rd, ![c].seen = rb.readers]
             /\ pc' = [pc EXCEPT ![c] = "mark"]
       \/ /\ Descriptor \subseteq rb.readers
          /\ pc' = [pc EXCEPT ![c] = "loop"]
          /\ UNCHANGED loc
    /\ UNCHANGED <<ringVars, writerVars, historyVars>>

\* readers |= r, from the value tested or from a fresh load.
Mark(c) ==
    /\ pc[c] = "mark"
    /\ \E readers \in {loc[c].seen, rb.readers} :
          /\ rb' = [rb EXCEPT !.readers = readers \cup {loc[c].rd}]
          /\ exposed' = exposed \cup Outranked(readers \cup {loc[c].rd})
    /\ loc' = [loc EXCEPT ![c].seen = {}]
    /\ pc' = [pc EXCEPT ![c] = "place"]
    /\ UNCHANGED <<mutex, writerVars, rpos, damaged>>

\* The ways in which a descriptor is unsafe from the moment it is opened: its bit
\* is not the highest, another client holds it too, the writer is storing more
\* bytes than ringbuffer_free would allow by now (it asked when no reader was open,
\* or before min_pread moved back), another thread has chosen a min_pread it is yet
\* to store, or min_pread was never initialised.
OpensExposed(c) ==
    \/ ~ Decides(loc[c].rd, rb.readers)
    \/ SharedWith(c) # {}
    \/ (wpc \in {"read1", "read2"} /\ request.todo \notin 0 .. ringbuffer_free(rb))
    \/ mutex # {}
    \/ rb.min_pread \notin Position

\* Mutant of Place: the descriptor starts where its last holder stopped.
Place_Stale(c) ==
    /\ pc[c] = "place"
    /\ pc' = [pc EXCEPT ![c] = "loop"]
    /\ rpos' = [rpos EXCEPT ![c] = written]
    /\ exposed' = exposed \cup SharedWith(c) \cup {d \in {c} : OpensExposed(d)}
    /\ UNCHANGED <<ringVars, writerVars, loc, damaged>>

\* pread[i] = pwrite
Place(c) ==
    /\ pc[c] = "place"
    /\ rb' = [rb EXCEPT !.pread[loc[c].rd] = rb.pwrite]
    /\ pc' = [pc EXCEPT ![c] = "loop"]
    /\ rpos' = [rpos EXCEPT ![c] = written]
    /\ exposed' = exposed \cup SharedWith(c) \cup {d \in {c} : OpensExposed(d)}
    /\ UNCHANGED <<mutex, writerVars, loc, damaged>>

\* while (stream->active).  Only the writer's start can change it, to TRUE, so the
\* test stays good during the wait for input.
Inactive(c) ==
    /\ pc[c] = "loop"
    /\ ~ active
    /\ pc' = [pc EXCEPT ![c] = "unload"]
    /\ UNCHANGED <<ringVars, writerVars, loc, historyVars>>

\* ringbuffer_avail is nonzero, and ringbuffer_writefd starts.
InputReady(c) ==
    LET rd    == loc[c].rd
        todo  == ringbuffer_avail(rb, rd)
        split == Split(rb.pread[rd], todo)
    IN  /\ pc[c] = "loop"
        /\ active
        /\ rd # NoDescriptor
        /\ todo # 0
        /\ loc' = [loc EXCEPT ![c].todo = todo, ![c].split = split]
        /\ pc' = [pc EXCEPT ![c] = IF split > 0 THEN "write1" ELSE "write2"]
        /\ UNCHANGED <<ringVars, writerVars, historyVars>>

\* Without a descriptor pread[-1] is input_fd and active, which is further from
\* pwrite than any buffer is long: the write() that follows fails.
NoSlot(c) ==
    /\ pc[c] = "loop"
    /\ active
    /\ loc[c].rd = NoDescriptor
    /\ pc' = [pc EXCEPT ![c] = "unload"]
    /\ UNCHANGED <<ringVars, writerVars, loc, historyVars>>

\* The n cells from pread hold the bytes the client must be sent next.
Faithful(c, n) ==
    LET pread == rb.pread[loc[c].rd]
    IN  \A i \in 0 .. n - 1 : pread + i < Size /\ rb.data[pread + i] = rpos[c] + i

\* A write() that returned n, and then the step to "next".  A client sent more
\* bytes than the input has is damaged already; its count stops there.
Send(c, n, next) ==
    /\ rb' = DrainStep(rb, loc[c].rd, n)
    /\ rpos' = [rpos EXCEPT ![c] = Smaller(@ + n, MaxBytes)]
    /\ damaged' = IF Faithful(c, n) THEN damaged ELSE damaged \cup {c}
    /\ pc' = [pc EXCEPT ![c] = next]
    /\ UNCHANGED <<mutex, writerVars, exposed>>

\* Mutant of Write1: the test for a short write is gone, and the second write()
\* sends the rest from where the first one stopped.
Write1_GoesOn(c, n) ==
    /\ pc[c] = "write1"
    /\ n \in 1 .. loc[c].split
    /\ loc' = [loc EXCEPT ![c].todo = @ - n, ![c].split = 0]
    /\ Send(c, n, "write2")

Write1(c, n) ==
    /\ pc[c] = "write1"
    /\ n \in 1 .. loc[c].split
    /\ loc' = [loc EXCEPT ![c].todo = @ - n, ![c].split = 0]
    /\ Send(c, n, IF n = loc[c].split THEN "write2" ELSE "check")

Write2(c, n) ==
    /\ pc[c] = "write2"
    /\ n \in 1 .. loc[c].todo
    /\ loc' = [loc EXCEPT ![c].todo = 0]
    /\ Send(c, n, "check")

\* write() returns -1, as when the peer is gone: ringbuffer_writefd returns early
\* and the loop breaks.
WriteFails(c) ==
    /\ pc[c] \in {"write1", "write2"}
    /\ loc' = [loc EXCEPT ![c].todo = 0, ![c].split = 0]
    /\ pc' = [pc EXCEPT ![c] = "unload"]
    /\ UNCHANGED <<ringVars, writerVars, historyVars>>
-----------------------------------------------------------------------------
\* Back to fdstream_body, which loops or, after ringbuffer_close, returns.
Resume(c) ==
    IF loc[c].closing
    THEN /\ pc' = [pc EXCEPT ![c] = "done"]
         /\ loc' = [loc EXCEPT ![c] = NoLocals]
         /\ rpos' = [rpos EXCEPT ![c] = 0]
         /\ damaged' = damaged \ {c}
         /\ exposed' = exposed \ {c}
    ELSE /\ pc' = [pc EXCEPT ![c] = "loop"]
         /\ loc' = [loc EXCEPT ![c].todo = 0, ![c].min_pread = 0]
         /\ UNCHANGED historyVars

\* ringbuffer_update_min tests readers before it locks.
UpdateSkips(c) ==
    /\ pc[c] = "check"
    /\ rb.readers = {}
    /\ Resume(c)
    /\ UNCHANGED <<ringVars, writerVars>>

UpdateNeeded(c) ==
    /\ pc[c] = "check"
    /\ rb.readers # {}
    /\ pc' = [pc EXCEPT ![c] = "minload"]
    /\ UNCHANGED <<ringVars, writerVars, loc, historyVars>>

\* Lock, and choose min_pread in the loop over the descriptors.
MinLoad(c) ==
    /\ pc[c] = "minload"
    /\ mutex = {}
    /\ mutex' = {c}
    /\ \E m \in MinPread(rb) : loc' = [loc EXCEPT ![c].min_pread = m]
    /\ pc' = [pc EXCEPT ![c] = "minstore"]
    /\ UNCHANGED <<rb, writerVars, historyVars>>

\* Store it, and unlock.
MinStore(c) ==
    /\ pc[c] = "minstore"
    /\ rb' = [rb EXCEPT !.min_pread = loc[c].min_pread]
    /\ mutex' = {}
    /\ Resume(c)
    /\ UNCHANGED writerVars

\* ringbuffer_close: readers ^= 1 << readd, a load and a store.
CloseLoad(c) ==
    /\ pc[c] = "unload"
    /\ loc' = [loc EXCEPT ![c].seen = rb.readers]
    /\ pc' = [pc EXCEPT ![c] = "unmark"]
    /\ UNCHANGED <<ringVars, writerVars, historyVars>>

CloseStore(c) ==
    LET readers == ToggleBit(loc[c].seen, loc[c].rd)
    IN  /\ pc[c] = "unmark"
        /\ rb' = [rb EXCEPT !.readers = readers]
        /\ loc' = [loc EXCEPT ![c].seen = {}, ![c].closing = TRUE]
        /\ pc' = [pc EXCEPT ![c] = "check"]
        /\ exposed' = exposed \cup Outranked(readers)
        /\ UNCHANGED <<mutex, writerVars, rpos, damaged>>

\* The steps of a connection's thread, which the scheduler will let it take.
Thread(c) ==
    \/ Scan(c) \/ Mark(c) \/ Place(c)
    \/ Inactive(c) \/ InputReady(c) \/ NoSlot(c)
    \/ \E n \in 1 .. Size : Write1(c, n) \/ Write2(c, n)
    \/ WriteFails(c)
    \/ UpdateSkips(c) \/ UpdateNeeded(c) \/ MinLoad(c) \/ MinStore(c)
    \/ CloseLoad(c) \/ CloseStore(c)

Next == Writer \/ \E c \in Client : Connect(c) \/ Thread(c)

Spec == Init /\ [][Next]_vars

FairSpec == Spec /\ WF_vars(Writer) /\ \A c \in Client : WF_vars(Thread(c))
-----------------------------------------------------------------------------
\* The types of the shared fields, the locals and the histories.
TypeOK ==
    /\ rb \in ringbuffer
    /\ mutex \subseteq Client
    /\ active \in BOOLEAN
    /\ wpc \in WriterPC
    /\ request \in [todo : Int, split : 0 .. Size]
    /\ written \in 0 .. MaxBytes
    /\ pc \in [Client -> ClientPC]
    /\ loc \in [Client -> [rd : Descriptor \cup {NoDescriptor},
                           seen : SUBSET (Descriptor \cup {NoDescriptor}),
                           todo : 0 .. Size - 1, split : 0 .. Size,
                           min_pread : Position \cup Garbage, closing : BOOLEAN]]
    /\ rpos \in [Client -> 0 .. MaxBytes]
    /\ damaged \subseteq Client
    /\ exposed \subseteq Client

\* A client is sent the input from the byte current at its ringbuffer_open on,
\* nothing lost, repeated or reordered, however the threads interleave, unless
\* one of the causes recorded in exposed applied to it: a descriptor that is not
\* the highest, is held twice or lost its bit, an open in the middle of a request
\* that has become too long or of another thread's ringbuffer_update_min, a
\* min_pread left uninitialised, or a short read() before the end of data.
LossHasCause == damaged \subseteq exposed

\* The same from the writer's side: neither the rest of a request in progress nor
\* what ringbuffer_free would offer next reaches into what such a client has yet to
\* be sent, although both use a min_pread that other threads move meanwhile.
WriterKeepsClear ==
    \A c \in Attached \ exposed :
        LET room == Size - 1 - ringbuffer_avail(rb, loc[c].rd)
        IN  /\ ringbuffer_free(rb) <= room
            /\ wpc \in {"read1", "read2"} => request.todo \in 0 .. room

\* A client that has been sent something, and to which no cause of loss applies,
\* goes on being sent input until there is none left or its connection ends:
\* writer and client never come to wait for each other.
FedToTheEnd ==
    \A c \in Client :
        (c \in Attached /\ pc[c] = "check")
            ~> \/ c \notin Attached
               \/ c \in exposed
               \/ written = MaxBytes /\ ringbuffer_empty(rb, loc[c].rd)

\* admin-guide.txt: "The content appears at the path": a client that waits while
\* there is input left is eventually sent some.
FirstByteArrives ==
    \A c \in Client : (pc[c] = "loop" /\ written < MaxBytes) ~> pc[c] # "loop"
=============================================================================
