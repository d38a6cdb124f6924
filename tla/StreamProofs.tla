---------------------------- MODULE StreamProofs ----------------------------
(***************************************************************************)
(* Proofs about Stream for any buffer, any number of descriptors, any      *)
(* clients and any input: its types, that a client is sent what it should  *)
(* be unless one of the causes in exposed applies to it, and that neither  *)
(* a request in progress nor the next one reaches what it has yet to read. *)
(***************************************************************************)
EXTENDS Stream, TLAPS

(* The bytes that fit from position w on in front of position p, whose byte is kept. *)
Room(p, w) == IF p - w <= 0 THEN p - w + Size - 1 ELSE p - w - 1

Pread(c)   == rb.pread[loc[c].rd]
Pending(c) == Size - 1 - Room(Pread(c), rb.pwrite)
Reading    == {"read1", "read2"}
Writing    == {"write1", "write2"}

Slot    == Descriptor \cup {NoDescriptor}
Bits    == SUBSET Slot
Minimum == Position \cup Garbage
Local ==
  [rd : Slot, seen : Bits, todo : 0 .. Size - 1, split : 0 .. Size, min_pread : Minimum,
   closing : BOOLEAN]

(* What a thread's place says of its locals and of the mutex. *)
ClientLocals(c) ==
  /\ pc[c] \in {"new", "scan"} => loc[c].rd = NoDescriptor
  /\ pc[c] \in {"mark", "place"} \cup Writing => loc[c].rd \in Descriptor
  /\ loc[c].closing => pc[c] \in Updating
  /\ pc[c] = "write1" => loc[c].split > 0 /\ loc[c].split <= loc[c].todo

WriterLocals ==
  wpc = "read1" => /\ request.split = Size - rb.pwrite
                   /\ request.todo >= 0 => request.split <= request.todo

Locked ==
  /\ mutex = {c \in Client : pc[c] = "minstore"}
  /\ \A c, d \in mutex : c = d

Places == TypeOK /\ Locked /\ WriterLocals /\ \A c \in Client : ClientLocals(c)

(* The writer's view of a client to which no cause of loss applies: what the request in
   progress may still store fits before min_pread, min_pread is not past the one that a
   thread is about to store, and that one is not past what the client reads next. *)
KeptClear(c) ==
  LET room == Room(rb.min_pread, rb.pwrite)
  IN  /\ Decides(loc[c].rd, rb.readers)
      /\ SharedWith(c) = {}
      /\ rb.min_pread \in Position
      /\ room <= Room(Pread(c), rb.pwrite)
      /\ \A d \in mutex : /\ loc[d].min_pread \in Position
                          /\ room <= Room(loc[d].min_pread, rb.pwrite)
                          /\ Room(loc[d].min_pread, rb.pwrite) <= Room(Pread(c), rb.pwrite)
      /\ wpc \in Reading => request.todo \in 0 .. room

(* The client's own view: the cells from its pread on hold the bytes it is owed, and
   what it is about to send is some of them, up to the end of data. *)
Owed(c) ==
  /\ rpos[c] + Pending(c) = written
  /\ \A i \in 0 .. Pending(c) - 1 : rb.data[(Pread(c) + i) % Size] = rpos[c] + i

Sends(c) ==
  /\ pc[c] \in Writing => loc[c].todo <= Pending(c)
  /\ pc[c] = "write1" => Pread(c) + loc[c].split = Size
  /\ pc[c] = "write2" => Pread(c) + loc[c].todo <= Size

Unexposed == Attached \ exposed
StreamInv == Places /\ LossHasCause /\ \A c \in Unexposed : KeptClear(c) /\ Owed(c) /\ Sends(c)
-----------------------------------------------------------------------------
(* Arithmetic of positions. *)
LEMMA WrapBelow == ASSUME NEW x \in Nat, x < Size PROVE x % Size = x
  BY SizeAssumption

LEMMA WrapEnd == Size % Size = 0
  BY SizeAssumption

LEMMA WrapRange == ASSUME NEW x \in Nat PROVE x % Size \in Position
  BY SizeAssumption DEF Position

LEMMA RoomRange ==
  ASSUME NEW p \in Position, NEW w \in Position
  PROVE  Room(p, w) \in 0 .. Size - 1 /\ Room(w, w) = Size - 1
  BY SizeAssumption DEF Room, Position

(* Storing n bytes takes them from the room, sending n bytes adds them to it. *)
LEMMA RoomFilled ==
  ASSUME NEW p \in Position, NEW w \in Position, NEW n \in 0 .. Room(p, w), w + n <= Size
  PROVE  (w + n) % Size \in Position /\ Room(p, (w + n) % Size) = Room(p, w) - n
<1>. w + n \in Nat
  BY RoomRange, SizeAssumption DEF Position
<1>1. CASE w + n < Size
  <2>1. (w + n) % Size = w + n
    BY <1>1, WrapBelow
  <2>. QED BY <1>1, <2>1, RoomRange, SizeAssumption DEF Room, Position
<1>2. CASE w + n = Size
  <2>1. (w + n) % Size = 0
    BY <1>2, WrapEnd
  <2>. QED BY <1>2, <2>1, RoomRange, SizeAssumption DEF Room, Position
<1>. QED BY <1>1, <1>2, RoomRange, SizeAssumption DEF Position

LEMMA RoomDrained ==
  ASSUME NEW p \in Position, NEW w \in Position, NEW n \in 0 .. Size - 1 - Room(p, w), p + n <= Size
  PROVE  (p + n) % Size \in Position /\ Room((p + n) % Size, w) = Room(p, w) + n
<1>. p + n \in Nat
  BY RoomRange, SizeAssumption DEF Position
<1>1. CASE p + n < Size
  <2>1. (p + n) % Size = p + n
    BY <1>1, WrapBelow
  <2>. QED BY <1>1, <2>1, RoomRange, SizeAssumption DEF Room, Position
<1>2. CASE p + n = Size
  <2>1. (p + n) % Size = 0
    BY <1>2, WrapEnd
  <2>. QED BY <1>2, <2>1, RoomRange, SizeAssumption DEF Room, Position
<1>. QED BY <1>1, <1>2, RoomRange, SizeAssumption DEF Position

LEMMA Cell ==
  ASSUME NEW p \in Position, NEW i \in Position
  PROVE  (p + i) % Size = IF p + i < Size THEN p + i ELSE p + i - Size
  BY SizeAssumption, SMT DEF Position
-----------------------------------------------------------------------------
(* The functions of the ring buffer. *)
LEMMA RingTyped ==
  ASSUME NEW b \in ringbuffer
  PROVE  /\ b.pread \in [Descriptor -> Position] /\ b.pwrite \in Position
         /\ b.min_pread \in Position \cup Garbage /\ b.min_pread \in Int
         /\ b.readers \in SUBSET (Descriptor \cup {NoDescriptor})
         /\ b.data \in [Position -> Int]
<1>1. b.min_pread \in Position \cup Garbage
  BY DEF ringbuffer
<1>2. b.min_pread \in Int
  <2>1. Position \subseteq Int
    BY DEF Position
  <2>. QED BY <1>1, <2>1, GarbageAssumption
<1>. QED BY <1>1, <1>2 DEF ringbuffer

LEMMA AvailRoom ==
  ASSUME NEW b \in ringbuffer, NEW rd \in Descriptor
  PROVE  /\ ringbuffer_avail(b, rd) = Size - 1 - Room(b.pread[rd], b.pwrite)
         /\ ringbuffer_avail(b, rd) \in Position
<1>1. b.pread[rd] \in Position /\ b.pwrite \in Position
  BY RingTyped
<1>. QED BY <1>1, SizeAssumption DEF ringbuffer_avail, Room, Position

LEMMA FreeRoom ==
  ASSUME NEW b \in ringbuffer
  PROVE  /\ ringbuffer_free(b) \in Int
         /\ b.readers # {} => ringbuffer_free(b) = Room(b.min_pread, b.pwrite)
  BY RingTyped, SizeAssumption DEF ringbuffer_free, Room, Position

LEMMA FillTyped ==
  ASSUME NEW d \in [Position -> Int], NEW pos \in Position, NEW k \in Nat, NEW n \in Nat
  PROVE  Fill(d, pos, k, n) \in [Position -> Int]
  BY DEF Fill, Position

LEMMA Filled ==
  ASSUME NEW b \in ringbuffer, NEW k \in Nat, NEW n \in Nat
  PROVE  /\ FillStep(b, k, n) \in ringbuffer
         /\ FillStep(b, k, n).pread = b.pread
         /\ FillStep(b, k, n).min_pread = b.min_pread
         /\ FillStep(b, k, n).readers = b.readers
         /\ FillStep(b, k, n).pwrite = (b.pwrite + n) % Size
         /\ FillStep(b, k, n).data = Fill(b.data, b.pwrite, k, n)
<1> DEFINE w == (b.pwrite + n) % Size
           d == Fill(b.data, b.pwrite, k, n)
<1>1. w \in Position
  <2>1. b.pwrite + n \in Nat
    BY RingTyped, SizeAssumption DEF Position
  <2>. QED BY <2>1, WrapRange
<1>2. d \in [Position -> Int]
  BY FillTyped, RingTyped
<1>3. FillStep(b, k, n) = [b EXCEPT !.data = d, !.pwrite = w]
  BY DEF FillStep
<1> HIDE DEF w, d
<1>4. [b EXCEPT !.data = d, !.pwrite = w] \in ringbuffer
  BY <1>1, <1>2 DEF ringbuffer
<1>. QED BY <1>3, <1>4 DEF ringbuffer, w, d

LEMMA Drained ==
  ASSUME NEW b \in ringbuffer, NEW rd \in Descriptor, NEW n \in Nat
  PROVE  /\ DrainStep(b, rd, n) \in ringbuffer
         /\ DrainStep(b, rd, n).pread = [b.pread EXCEPT ![rd] = (@ + n) % Size]
         /\ DrainStep(b, rd, n).min_pread = b.min_pread
         /\ DrainStep(b, rd, n).readers = b.readers
         /\ DrainStep(b, rd, n).pwrite = b.pwrite
         /\ DrainStep(b, rd, n).data = b.data
<1> DEFINE f == [b.pread EXCEPT ![rd] = (@ + n) % Size]
<1>1. (b.pread[rd] + n) % Size \in Position
  <2>1. b.pread[rd] + n \in Nat
    BY RingTyped, SizeAssumption DEF Position
  <2>. QED BY <2>1, WrapRange
<1>2. f \in [Descriptor -> Position]
  BY <1>1, RingTyped
<1>3. DrainStep(b, rd, n) = [b EXCEPT !.pread = f]
  BY DEF DrainStep
<1> HIDE DEF f
<1>4. [b EXCEPT !.pread = f] \in ringbuffer
  BY <1>2 DEF ringbuffer
<1>. QED BY <1>3, <1>4 DEF ringbuffer, f

(* The assignments to single fields. *)
WithReaders(b, readers) == [b EXCEPT !.readers = readers]
WithPread(b, rd, p)     == [b EXCEPT !.pread[rd] = p]
WithMinPread(b, m)      == [b EXCEPT !.min_pread = m]

LEMMA SetReaders ==
  ASSUME NEW b \in ringbuffer, NEW readers \in Bits
  PROVE  LET a == WithReaders(b, readers)
         IN  /\ a \in ringbuffer /\ a.readers = readers /\ a.pread = b.pread
             /\ a.pwrite = b.pwrite /\ a.min_pread = b.min_pread /\ a.data = b.data
  BY DEF ringbuffer, Bits, Slot, WithReaders

LEMMA SetPread ==
  ASSUME NEW b \in ringbuffer, NEW rd \in Descriptor, NEW p \in Position
  PROVE  LET a == WithPread(b, rd, p)
         IN  /\ a \in ringbuffer /\ a.readers = b.readers /\ a.pread = [b.pread EXCEPT ![rd] = p]
             /\ a.pwrite = b.pwrite /\ a.min_pread = b.min_pread /\ a.data = b.data
  BY DEF ringbuffer, WithPread

LEMMA SetMinPread ==
  ASSUME NEW b \in ringbuffer, NEW m \in Minimum
  PROVE  LET a == WithMinPread(b, m)
         IN  /\ a \in ringbuffer /\ a.readers = b.readers /\ a.pread = b.pread
             /\ a.pwrite = b.pwrite /\ a.min_pread = m /\ a.data = b.data
  BY DEF ringbuffer, Minimum, WithMinPread

LEMMA MinPreadTyped ==
  ASSUME NEW b \in ringbuffer
  PROVE  /\ MinPread(b) \subseteq Position \cup Garbage
         /\ \A r \in Highest(b.readers) : MinPread(b) = {b.pread[r]}
<1>1. \A q, r \in Highest(b.readers) : q = r
  BY DEF Highest, Descriptor
<1>2. Highest(b.readers) \subseteq Descriptor
  BY DEF Highest
<1>3. \A r \in Highest(b.readers) : b.readers \cap Descriptor # {}
  BY DEF Highest
<1>. QED BY <1>1, <1>2, <1>3, RingTyped DEF MinPread

LEMMA SplitRange ==
  ASSUME NEW pos \in Position, NEW len \in Int
  PROVE  /\ Split(pos, len) \in 0 .. Size
         /\ Split(pos, len) > 0 => Split(pos, len) = Size - pos /\ (len >= 0 => Split(pos, len) <= len)
         /\ Split(pos, len) = 0 => pos + len <= Size
  BY SizeAssumption DEF Split, Position

(* What read() returns for a count that is not negative. *)
LEMMA ReturnedRange ==
  ASSUME TypeOK, NEW count \in Nat, NEW n \in Returned(count)
  PROVE  n \in 0 .. count /\ written + n \in 0 .. MaxBytes
  BY MaxBytesAssumption DEF TypeOK, Returned, Smaller
-----------------------------------------------------------------------------
(* A step of client c's thread changes nobody else's place and locals. *)
Alone(c) ==
  /\ pc' \in [Client -> ClientPC] /\ loc' \in [Client -> Local]
  /\ \A d \in Client \ {c} : pc'[d] = pc[d] /\ loc'[d] = loc[d]

(* ... and leaves the client with the descriptor it had, if any. *)
Keeps(c) == Alone(c) /\ (c \in Attached' => c \in Attached /\ loc'[c].rd = loc[c].rd)

LEMMA ThreadPlaces ==
  ASSUME Places, NEW c \in Client, Alone(c), ClientLocals(c)',
         rb' \in ringbuffer, rb'.pwrite = rb.pwrite, UNCHANGED writerVars,
         \/ mutex' = mutex /\ (pc[c] = "minstore" <=> pc'[c] = "minstore")
         \/ mutex = {} /\ mutex' = {c} /\ pc'[c] = "minstore"
         \/ pc[c] = "minstore" /\ mutex' = {} /\ pc'[c] # "minstore",
         rpos' \in [Client -> 0 .. MaxBytes], damaged' \in SUBSET Client, exposed' \in SUBSET Client
  PROVE  Places'
<1>1. TypeOK'
  <2>1. mutex' \in SUBSET Client
    BY DEF Places, TypeOK
  <2>. QED BY <2>1 DEF Places, TypeOK, Alone, Local, Slot, Bits, Minimum, writerVars
<1>2. Locked'
  <2>1. \A d \in Client \ {c} : pc'[d] = "minstore" <=> pc[d] = "minstore"
    BY DEF Alone
  <2>2. mutex = {d \in Client : pc[d] = "minstore"} /\ \A d, e \in mutex : d = e
    BY DEF Places, Locked
  <2>3. mutex' = {d \in Client : pc'[d] = "minstore"}
    <3>1. CASE mutex' = mutex /\ (pc[c] = "minstore" <=> pc'[c] = "minstore")
      BY <2>1, <2>2, <3>1
    <3>2. CASE mutex = {} /\ mutex' = {c} /\ pc'[c] = "minstore"
      BY <2>1, <2>2, <3>2
    <3>3. CASE pc[c] = "minstore" /\ mutex' = {} /\ pc'[c] # "minstore"
      BY <2>1, <2>2, <3>3
    <3>. QED BY <3>1, <3>2, <3>3
  <2>4. \A d, e \in mutex' : d = e
    BY <2>2
  <2>. QED BY <2>3, <2>4 DEF Locked
<1>3. WriterLocals'
  BY DEF Places, WriterLocals, writerVars
<1>4. ASSUME NEW d \in Client PROVE ClientLocals(d)'
  <2>1. CASE d = c
    BY <2>1
  <2>2. CASE d # c
    BY <2>2 DEF Places, ClientLocals, Alone
  <2>. QED BY <2>1, <2>2
<1>. QED BY <1>1, <1>2, <1>3, <1>4 DEF Places

(* The places of a client's thread, action by action. *)
LEMMA PlacesTyped ==
  ASSUME Places
  PROVE  /\ rb \in ringbuffer /\ pc \in [Client -> ClientPC] /\ loc \in [Client -> Local]
         /\ rpos \in [Client -> 0 .. MaxBytes] /\ written \in 0 .. MaxBytes /\ written \in Nat
         /\ request \in [todo : Int, split : 0 .. Size]
         /\ damaged \in SUBSET Client /\ exposed \in SUBSET Client /\ mutex \in SUBSET Client
         /\ wpc \in WriterPC
         /\ \A c \in Client : ClientLocals(c)
  BY MaxBytesAssumption DEF Places, TypeOK, Local, Slot, Bits, Minimum

(* A thread that changes its locals to l and goes on at p. *)
LEMMA Moves ==
  ASSUME Places, NEW c \in Client, NEW l \in Local, NEW p \in ClientPC,
         loc' = [loc EXCEPT ![c] = l], pc' = [pc EXCEPT ![c] = p]
  PROVE  Alone(c) /\ loc'[c] = l /\ pc'[c] = p
  BY PlacesTyped DEF Alone

LEMMA Stays ==
  ASSUME Places, NEW c \in Client, NEW p \in ClientPC, UNCHANGED loc, pc' = [pc EXCEPT ![c] = p]
  PROVE  Alone(c) /\ loc'[c] = loc[c] /\ pc'[c] = p
  BY PlacesTyped DEF Alone

LEMMA SetSeen ==
  ASSUME NEW l \in Local, NEW rd \in Slot, NEW seen \in Bits
  PROVE  /\ [l EXCEPT !.rd = rd, !.seen = seen] \in Local
         /\ [l EXCEPT !.rd = rd, !.seen = seen].rd = rd
         /\ [l EXCEPT !.rd = rd, !.seen = seen].closing = l.closing
         /\ [l EXCEPT !.seen = seen] \in Local
         /\ [l EXCEPT !.seen = seen].rd = l.rd
         /\ [l EXCEPT !.seen = seen].closing = l.closing
         /\ [l EXCEPT !.seen = seen, !.closing = TRUE] \in Local
         /\ [l EXCEPT !.seen = seen, !.closing = TRUE].closing
  BY DEF Local

LEMMA SetTodo ==
  ASSUME NEW l \in Local, NEW todo \in 0 .. Size - 1, NEW split \in 0 .. Size
  PROVE  LET a == [l EXCEPT !.todo = todo, !.split = split]
             b == [l EXCEPT !.todo = todo]
         IN  /\ a \in Local /\ a.todo = todo /\ a.split = split /\ a.rd = l.rd /\ a.closing = l.closing
             /\ b \in Local /\ b.todo = todo /\ b.rd = l.rd /\ b.closing = l.closing
  BY DEF Local

LEMMA SetMinimum ==
  ASSUME NEW l \in Local, NEW m \in Minimum, NEW todo \in 0 .. Size - 1
  PROVE  LET a == [l EXCEPT !.min_pread = m]
             b == [l EXCEPT !.todo = todo, !.min_pread = m]
         IN  /\ a \in Local /\ a.min_pread = m /\ a.rd = l.rd /\ a.closing = l.closing
             /\ b \in Local /\ b.rd = l.rd /\ b.closing = l.closing
  BY DEF Local

LEMMA Zero == 0 \in 0 .. Size - 1 /\ 0 \in 0 .. Size /\ 0 \in Minimum /\ {} \in Bits
  BY SizeAssumption DEF Minimum, Position, Bits

LEMMA Somewhere ==
  /\ {"new", "done", "scan", "mark", "place", "unload", "unmark"} \subseteq ClientPC
  /\ {"loop", "write1", "write2", "check", "minload", "minstore"} \subseteq ClientPC
  BY DEF ClientPC, Sending, Updating

LEMMA ConnectPlaces == ASSUME Places, NEW c \in Client, Connect(c) PROVE Places' /\ Keeps(c)
<1>. USE DEF Connect
<1>1. Alone(c) /\ loc'[c] = loc[c] /\ pc'[c] = "scan"
  BY Stays DEF ClientPC
<1>2. ClientLocals(c)' /\ c \notin Attached'
  BY <1>1, PlacesTyped DEF ClientLocals, Attached, Sending, Writing, Updating
<1>. QED BY <1>1, <1>2, ThreadPlaces, PlacesTyped DEF Keeps, ringVars, writerVars, historyVars

LEMMA ScanPlaces == ASSUME Places, NEW c \in Client, Scan(c) PROVE Places' /\ Keeps(c)
<1>1. Alone(c) /\ ClientLocals(c)' /\ c \notin Attached' /\ pc[c] = "scan" /\ pc'[c] # "minstore"
  <2>1. pc[c] = "scan" /\ ~ loc[c].closing /\ loc[c].rd = NoDescriptor
    BY PlacesTyped DEF Scan, ClientLocals, Updating
  <2>2. ASSUME NEW rd \in Lowest(rb.readers),
               loc' = [loc EXCEPT ![c].rd = rd, ![c].seen = rb.readers],
               pc' = [pc EXCEPT ![c] = "mark"]
        PROVE  Alone(c) /\ ClientLocals(c)' /\ c \notin Attached' /\ pc'[c] # "minstore"
    <3>. DEFINE l == [loc[c] EXCEPT !.rd = rd, !.seen = rb.readers]
    <3>1. rd \in Descriptor /\ rd \in Slot /\ rb.readers \in Bits
      BY PlacesTyped, RingTyped DEF Lowest, Slot, Bits
    <3>2. l \in Local /\ l.rd = rd /\ l.closing = loc[c].closing
      <4>1. loc[c] \in Local
        BY PlacesTyped
      <4>. QED BY <3>1, <4>1 DEF Local
    <3>3. loc' = [loc EXCEPT ![c] = l]
      BY <2>2
    <3>. HIDE DEF l
    <3>4. Alone(c) /\ loc'[c] = l /\ pc'[c] = "mark"
      <4>1. "mark" \in ClientPC
        BY Somewhere
      <4>. QED BY <2>2, <3>2, <3>3, <4>1, Moves
    <3>. QED BY <2>1, <3>1, <3>2, <3>4 DEF ClientLocals, Attached, Sending, Updating, Writing
  <2>3. ASSUME pc' = [pc EXCEPT ![c] = "loop"], UNCHANGED loc
        PROVE  Alone(c) /\ ClientLocals(c)' /\ c \notin Attached' /\ pc'[c] # "minstore"
    <3>1. Alone(c) /\ loc'[c] = loc[c] /\ pc'[c] = "loop"
      BY <2>3, Stays DEF ClientPC, Sending
    <3>. QED BY <2>1, <3>1 DEF ClientLocals, Attached, Sending, Updating, Writing
  <2>. QED BY <2>1, <2>2, <2>3 DEF Scan
<1>. QED BY <1>1, ThreadPlaces, PlacesTyped DEF Keeps, Scan, ringVars, writerVars, historyVars

LEMMA MarkPlaces == ASSUME Places, NEW c \in Client, Mark(c) PROVE Places' /\ Keeps(c)
<1>1. pc[c] = "mark" /\ loc[c].rd \in Descriptor /\ ~ loc[c].closing /\ loc[c] \in Local
  BY PlacesTyped DEF Mark, ClientLocals, Updating
<1>. DEFINE l == [loc[c] EXCEPT !.seen = {}]
<1>2. l \in Local /\ l.rd = loc[c].rd /\ l.closing = loc[c].closing
  BY <1>1, Zero DEF Local
<1>3. loc' = [loc EXCEPT ![c] = l]
  BY DEF Mark
<1>. HIDE DEF l
<1>4. Alone(c) /\ loc'[c] = l /\ pc'[c] = "place"
  <2>1. "place" \in ClientPC /\ pc' = [pc EXCEPT ![c] = "place"]
    BY Somewhere DEF Mark
  <2>. QED BY <1>2, <1>3, <2>1, Moves
<1>5. ClientLocals(c)' /\ c \notin Attached'
  BY <1>1, <1>2, <1>4 DEF ClientLocals, Attached, Sending, Updating, Writing
<1>6. rb' \in ringbuffer /\ rb'.pwrite = rb.pwrite /\ exposed' \in SUBSET Client
  <2>1. PICK readers \in {loc[c].seen, rb.readers} :
               /\ rb' = [rb EXCEPT !.readers = readers \cup {loc[c].rd}]
               /\ exposed' = exposed \cup Outranked(readers \cup {loc[c].rd})
    BY DEF Mark
  <2>2. readers \cup {loc[c].rd} \in Bits
    <3>1. loc[c].seen \in Bits
      BY <1>1 DEF Local
    <3>. QED BY <1>1, <3>1, PlacesTyped, RingTyped DEF Bits, Slot
  <2>3. exposed' \in SUBSET Client
    BY <2>1, PlacesTyped DEF Outranked, Attached
  <2>4. rb \in ringbuffer /\ rb' = WithReaders(rb, readers \cup {loc[c].rd})
    BY <2>1, PlacesTyped DEF WithReaders
  <2>. QED BY <2>2, <2>3, <2>4, SetReaders
<1>. QED BY <1>1, <1>4, <1>5, <1>6, ThreadPlaces, PlacesTyped DEF Keeps, Mark

LEMMA PlacePlaces == ASSUME Places, NEW c \in Client, Place(c) PROVE Places' /\ Alone(c) /\ pc'[c] = "loop" /\ UNCHANGED loc
<1>1. pc[c] = "place" /\ loc[c].rd \in Descriptor /\ ~ loc[c].closing
  BY PlacesTyped DEF Place, ClientLocals, Updating
<1>2. Alone(c) /\ loc'[c] = loc[c] /\ pc'[c] = "loop"
  BY Stays, Somewhere DEF Place
<1>3. ClientLocals(c)'
  BY <1>1, <1>2 DEF ClientLocals, Updating, Writing
<1>4. rb' \in ringbuffer /\ rb'.pwrite = rb.pwrite
  <2>1. rb.pwrite \in Position /\ rb' = WithPread(rb, loc[c].rd, rb.pwrite)
    BY PlacesTyped, RingTyped DEF Place, WithPread
  <2>2. rb \in ringbuffer
    BY PlacesTyped
  <2>. QED BY <1>1, <2>1, <2>2, SetPread
<1>5. rpos' \in [Client -> 0 .. MaxBytes] /\ exposed' \in SUBSET Client
  BY PlacesTyped DEF Place, SharedWith, Attached
<1>. QED BY <1>1, <1>2, <1>3, <1>4, <1>5, ThreadPlaces, PlacesTyped DEF Place, clientVars

LEMMA LeavePlaces ==
  ASSUME Places, NEW c \in Client, Inactive(c) \/ NoSlot(c)
  PROVE  Places' /\ Keeps(c)
<1>1. pc[c] = "loop" /\ ~ loc[c].closing
  BY PlacesTyped DEF Inactive, NoSlot, ClientLocals, Updating
<1>2. Alone(c) /\ loc'[c] = loc[c] /\ pc'[c] = "unload"
  BY Stays, Somewhere DEF Inactive, NoSlot
<1>3. ClientLocals(c)' /\ c \notin Attached'
  BY <1>1, <1>2 DEF ClientLocals, Attached, Sending, Updating, Writing
<1>. QED BY <1>1, <1>2, <1>3, ThreadPlaces, PlacesTyped
         DEF Keeps, Inactive, NoSlot, ringVars, writerVars, historyVars

LEMMA InputReadyPlaces ==
  ASSUME Places, NEW c \in Client, InputReady(c)
  PROVE  LET todo  == ringbuffer_avail(rb, loc[c].rd)
             split == Split(rb.pread[loc[c].rd], todo)
         IN  /\ Places' /\ Keeps(c) /\ loc'[c].todo = todo /\ loc'[c].split = split
             /\ pc'[c] = IF split > 0 THEN "write1" ELSE "write2"
             /\ loc'[c].rd = loc[c].rd /\ pc[c] = "loop" /\ loc[c].rd \in Descriptor
             /\ todo \in 0 .. Size - 1 /\ split \in 0 .. Size
<1>. DEFINE todo  == ringbuffer_avail(rb, loc[c].rd)
            split == Split(rb.pread[loc[c].rd], todo)
            l     == [loc[c] EXCEPT !.todo = todo, !.split = split]
            p     == IF split > 0 THEN "write1" ELSE "write2"
<1>1. pc[c] = "loop" /\ ~ loc[c].closing /\ loc[c] \in Local
  BY PlacesTyped DEF InputReady, ClientLocals, Updating
<1>2. loc[c].rd \in Descriptor
  BY <1>1 DEF InputReady, Local, Slot
<1>3. todo \in 0 .. Size - 1 /\ todo \in Int /\ todo >= 0
  BY <1>2, PlacesTyped, AvailRoom, SizeAssumption DEF Position
<1>4. split \in 0 .. Size /\ (split > 0 => split <= todo)
  <2>1. rb.pread[loc[c].rd] \in Position
    BY <1>2, PlacesTyped, RingTyped
  <2>. HIDE DEF todo
  <2>. QED BY <1>3, <2>1, SplitRange
<1>5. loc' = [loc EXCEPT ![c] = l] /\ pc' = [pc EXCEPT ![c] = p]
  BY DEF InputReady
<1>6. p \in ClientPC
  BY Somewhere
<1>. HIDE DEF todo, split
<1>7. l \in Local /\ l.todo = todo /\ l.split = split /\ l.rd = loc[c].rd /\ l.closing = loc[c].closing
  BY <1>1, <1>3, <1>4 DEF Local
<1>. HIDE DEF l
<1>8. Alone(c) /\ loc'[c] = l /\ pc'[c] = p
  <2>. HIDE DEF p
  <2>. QED BY <1>5, <1>6, <1>7, Moves
<1>9. ClientLocals(c)'
  BY <1>1, <1>2, <1>4, <1>7, <1>8 DEF ClientLocals, Updating, Writing
<1>10. Keeps(c)
  BY <1>1, <1>7, <1>8 DEF Keeps, Attached, Sending, Updating
<1>11. Places'
  BY <1>1, <1>8, <1>9, ThreadPlaces, PlacesTyped
     DEF InputReady, ringVars, writerVars, historyVars
<1>. QED BY <1>1, <1>2, <1>3, <1>4, <1>7, <1>8, <1>10, <1>11 DEF todo, split

(* write() returned n. *)
LEMMA SendPlaces ==
  ASSUME Places, NEW c \in Client, NEW n \in Nat, NEW l \in Local, NEW p \in {"write2", "check"},
         pc[c] \in Writing, l.rd = loc[c].rd, l.closing = loc[c].closing,
         loc' = [loc EXCEPT ![c] = l], Send(c, n, p)
  PROVE  Places' /\ Keeps(c) /\ loc'[c] = l /\ pc'[c] = p /\ c \in Attached
<1>1. loc[c].rd \in Descriptor /\ ~ loc[c].closing
  BY PlacesTyped DEF ClientLocals, Writing, Updating
<1>2. Alone(c) /\ loc'[c] = l /\ pc'[c] = p
  <2>1. p \in ClientPC /\ pc' = [pc EXCEPT ![c] = p]
    BY Somewhere DEF Send
  <2>. QED BY <2>1, Moves
<1>3. ClientLocals(c)' /\ c \in Attached
  BY <1>1, <1>2 DEF ClientLocals, Attached, Sending, Updating, Writing, NoDescriptor, Descriptor
<1>4. rb' \in ringbuffer /\ rb'.pwrite = rb.pwrite
  <2>1. rb \in ringbuffer /\ rb' = DrainStep(rb, loc[c].rd, n)
    BY PlacesTyped DEF Send
  <2>. QED BY <1>1, <2>1, Drained
<1>5. rpos' \in [Client -> 0 .. MaxBytes] /\ damaged' \in SUBSET Client
  BY PlacesTyped, MaxBytesAssumption DEF Send, Smaller
<1>. QED BY <1>1, <1>2, <1>3, <1>4, <1>5, ThreadPlaces, PlacesTyped DEF Keeps, Send, Writing

LEMMA Write1Places ==
  ASSUME Places, NEW c \in Client, NEW n \in Nat, Write1(c, n)
  PROVE  /\ Places' /\ Keeps(c) /\ loc'[c].todo = loc[c].todo - n /\ loc'[c].rd = loc[c].rd
         /\ pc'[c] = (IF n = loc[c].split THEN "write2" ELSE "check") /\ c \in Attached
<1>1. pc[c] = "write1" /\ loc[c] \in Local /\ n \in 1 .. loc[c].split /\ loc[c].split <= loc[c].todo
  BY PlacesTyped DEF Write1, ClientLocals
<1>. DEFINE todo == loc[c].todo - n
            l    == [loc[c] EXCEPT !.todo = todo, !.split = 0]
            p    == IF n = loc[c].split THEN "write2" ELSE "check"
<1>2. todo \in 0 .. Size - 1
  BY <1>1, SizeAssumption DEF Local
<1>3. loc' = [loc EXCEPT ![c] = l] /\ Send(c, n, p) /\ p \in {"write2", "check"} /\ pc[c] \in Writing
  BY <1>1 DEF Write1, Writing
<1>. HIDE DEF todo, p
<1>4. l \in Local /\ l.todo = todo /\ l.rd = loc[c].rd /\ l.closing = loc[c].closing
  BY <1>1, <1>2, Zero DEF Local
<1>. HIDE DEF l
<1>5. Places' /\ Keeps(c) /\ loc'[c] = l /\ pc'[c] = p /\ c \in Attached
  BY <1>3, <1>4, SendPlaces
<1>. QED BY <1>4, <1>5 DEF todo, p

LEMMA Write2Places ==
  ASSUME Places, NEW c \in Client, NEW n \in Nat, Write2(c, n)
  PROVE  /\ Places' /\ Keeps(c) /\ loc'[c].rd = loc[c].rd /\ pc'[c] = "check" /\ c \in Attached
<1>1. pc[c] = "write2" /\ loc[c] \in Local
  BY PlacesTyped DEF Write2
<1>. DEFINE l == [loc[c] EXCEPT !.todo = 0]
<1>2. l \in Local /\ l.rd = loc[c].rd /\ l.closing = loc[c].closing
  BY <1>1, Zero DEF Local
<1>3. loc' = [loc EXCEPT ![c] = l] /\ Send(c, n, "check") /\ pc[c] \in Writing
  BY <1>1 DEF Write2, Writing
<1>. HIDE DEF l
<1>4. Places' /\ Keeps(c) /\ loc'[c] = l /\ pc'[c] = "check" /\ c \in Attached
  BY <1>2, <1>3, SendPlaces
<1>. QED BY <1>2, <1>4

LEMMA WriteFailsPlaces ==
  ASSUME Places, NEW c \in Client, WriteFails(c) PROVE Places' /\ Keeps(c)
<1>1. pc[c] \in Writing /\ loc[c] \in Local /\ ~ loc[c].closing
  BY PlacesTyped DEF WriteFails, ClientLocals, Writing, Updating
<1>. DEFINE l == [loc[c] EXCEPT !.todo = 0, !.split = 0]
<1>2. l \in Local /\ l.closing = loc[c].closing
  BY <1>1, Zero DEF Local
<1>3. loc' = [loc EXCEPT ![c] = l]
  BY DEF WriteFails
<1>. HIDE DEF l
<1>4. Alone(c) /\ loc'[c] = l /\ pc'[c] = "unload"
  <2>1. "unload" \in ClientPC /\ pc' = [pc EXCEPT ![c] = "unload"]
    BY Somewhere DEF WriteFails
  <2>. QED BY <1>2, <1>3, <2>1, Moves
<1>5. ClientLocals(c)' /\ c \notin Attached'
  BY <1>1, <1>2, <1>4 DEF ClientLocals, Attached, Sending, Updating, Writing
<1>. QED BY <1>1, <1>4, <1>5, ThreadPlaces, PlacesTyped
         DEF Keeps, WriteFails, Writing, ringVars, writerVars, historyVars

(* The end of ringbuffer_update_min. *)
LEMMA ResumePlaces ==
  ASSUME Places, NEW c \in Client, pc[c] \in Updating, Resume(c)
  PROVE  /\ Keeps(c) /\ ClientLocals(c)' /\ pc'[c] \in {"done", "loop"}
         /\ rpos' \in [Client -> 0 .. MaxBytes] /\ damaged' \in SUBSET Client /\ exposed' \in SUBSET Client
         /\ c \in Attached' => UNCHANGED historyVars
         /\ \A d \in Client \ {c} :
              /\ rpos'[d] = rpos[d] /\ (d \in damaged' <=> d \in damaged)
              /\ (d \in exposed' <=> d \in exposed)
         /\ c \in damaged' => c \in damaged /\ (c \in exposed' <=> c \in exposed)
<1>1. CASE loc[c].closing
  <2>1. NoLocals \in Local /\ ~ NoLocals.closing
    BY Zero DEF NoLocals, Local, Slot
  <2>2. loc' = [loc EXCEPT ![c] = NoLocals] /\ pc' = [pc EXCEPT ![c] = "done"]
    BY <1>1 DEF Resume
  <2>3. Alone(c) /\ loc'[c] = NoLocals /\ pc'[c] = "done"
    BY <2>1, <2>2, Moves, Somewhere
  <2>4. ClientLocals(c)' /\ c \notin Attached'
    BY <2>1, <2>3 DEF ClientLocals, Attached, Sending, Updating, Writing
  <2>5. rpos' = [rpos EXCEPT ![c] = 0] /\ damaged' = damaged \ {c} /\ exposed' = exposed \ {c}
    BY <1>1 DEF Resume
  <2>. QED BY <2>3, <2>4, <2>5, PlacesTyped, MaxBytesAssumption DEF Keeps
<1>2. CASE ~ loc[c].closing
  <2>. DEFINE l == [loc[c] EXCEPT !.todo = 0, !.min_pread = 0]
  <2>1. l \in Local /\ l.rd = loc[c].rd /\ l.closing = loc[c].closing
    BY PlacesTyped, Zero DEF Local
  <2>2. loc' = [loc EXCEPT ![c] = l] /\ pc' = [pc EXCEPT ![c] = "loop"] /\ UNCHANGED historyVars
    BY <1>2 DEF Resume
  <2>. HIDE DEF l
  <2>3. Alone(c) /\ loc'[c] = l /\ pc'[c] = "loop"
    BY <2>1, <2>2, Moves, Somewhere
  <2>4. ClientLocals(c)' /\ (c \in Attached' => c \in Attached)
    BY <1>2, <2>1, <2>3 DEF ClientLocals, Attached, Sending, Updating, Writing
  <2>. QED BY <2>1, <2>2, <2>3, <2>4, PlacesTyped DEF Keeps, historyVars
<1>. QED BY <1>1, <1>2

LEMMA UpdateSkipsPlaces ==
  ASSUME Places, NEW c \in Client, UpdateSkips(c) PROVE Places' /\ Keeps(c) /\ pc[c] # "minstore"
<1>1. pc[c] = "check" /\ pc[c] \in Updating /\ Resume(c) /\ UNCHANGED <<ringVars, writerVars>>
  BY DEF UpdateSkips, Updating
<1>2. Keeps(c) /\ ClientLocals(c)' /\ pc'[c] \in {"done", "loop"}
  BY <1>1, ResumePlaces
<1>3. rpos' \in [Client -> 0 .. MaxBytes] /\ damaged' \in SUBSET Client /\ exposed' \in SUBSET Client
  BY <1>1, ResumePlaces
<1>4. rb' \in ringbuffer /\ rb'.pwrite = rb.pwrite /\ UNCHANGED <<mutex, writerVars>> /\ Alone(c)
  BY <1>1, <1>2, PlacesTyped DEF Keeps, ringVars
<1>. QED BY <1>1, <1>2, <1>3, <1>4, ThreadPlaces

LEMMA UpdateNeededPlaces ==
  ASSUME Places, NEW c \in Client, UpdateNeeded(c)
  PROVE  Places' /\ Keeps(c) /\ pc'[c] = "minload" /\ UNCHANGED loc /\ pc[c] # "minstore"
<1>1. Alone(c) /\ loc'[c] = loc[c] /\ pc[c] = "check" /\ pc'[c] = "minload"
  BY Stays, Somewhere DEF UpdateNeeded
<1>2. ClientLocals(c)' /\ (c \in Attached' => c \in Attached)
  BY <1>1, PlacesTyped DEF ClientLocals, Attached, Sending, Updating, Writing
<1>. QED BY <1>1, <1>2, ThreadPlaces, PlacesTyped
         DEF Keeps, UpdateNeeded, ringVars, writerVars, historyVars

LEMMA MinLoadPlaces ==
  ASSUME Places, NEW c \in Client, MinLoad(c)
  PROVE  Places' /\ Keeps(c) /\ loc'[c].min_pread \in MinPread(rb) /\ pc'[c] = "minstore"
<1>1. PICK m \in MinPread(rb) : loc' = [loc EXCEPT ![c].min_pread = m]
  BY DEF MinLoad
<1>2. pc[c] = "minload" /\ loc[c] \in Local /\ m \in Minimum
  <2>1. rb \in ringbuffer /\ loc[c] \in Local
    BY PlacesTyped
  <2>2. MinPread(rb) \subseteq Position \cup Garbage
    BY <2>1, MinPreadTyped
  <2>. QED BY <2>1, <2>2 DEF MinLoad, Minimum
<1>. DEFINE l == [loc[c] EXCEPT !.min_pread = m]
<1>3. l \in Local /\ l.rd = loc[c].rd /\ l.closing = loc[c].closing /\ l.min_pread = m
  BY <1>2 DEF Local
<1>4. loc' = [loc EXCEPT ![c] = l] /\ pc' = [pc EXCEPT ![c] = "minstore"]
  BY <1>1 DEF MinLoad
<1>. HIDE DEF l
<1>5. Alone(c) /\ loc'[c] = l /\ pc'[c] = "minstore"
  BY <1>3, <1>4, Moves, Somewhere
<1>6. ClientLocals(c)' /\ (c \in Attached' => c \in Attached)
  BY <1>2, <1>3, <1>5, PlacesTyped DEF ClientLocals, Attached, Sending, Updating, Writing
<1>7. mutex = {} /\ mutex' = {c} /\ UNCHANGED <<rb, writerVars, historyVars>>
  BY DEF MinLoad
<1>8. Places'
  BY <1>5, <1>6, <1>7, ThreadPlaces, PlacesTyped DEF historyVars
<1>. QED BY <1>3, <1>5, <1>6, <1>8 DEF Keeps

LEMMA MinStorePlaces ==
  ASSUME Places, NEW c \in Client, MinStore(c)
  PROVE  /\ Places' /\ Keeps(c) /\ mutex = {c} /\ rb' = WithMinPread(rb, loc[c].min_pread)
         /\ loc[c].min_pread \in Minimum
<1>1. pc[c] = "minstore" /\ pc[c] \in Updating /\ Resume(c) /\ mutex' = {} /\ UNCHANGED writerVars
  BY DEF MinStore, Updating
<1>2. Keeps(c) /\ ClientLocals(c)' /\ pc'[c] \in {"done", "loop"}
  BY <1>1, ResumePlaces
<1>3. rpos' \in [Client -> 0 .. MaxBytes] /\ damaged' \in SUBSET Client /\ exposed' \in SUBSET Client
  BY <1>1, ResumePlaces
<1>4. rb' = WithMinPread(rb, loc[c].min_pread) /\ loc[c].min_pread \in Minimum /\ rb \in ringbuffer
  BY PlacesTyped DEF MinStore, WithMinPread, Local
<1>5. rb' \in ringbuffer /\ rb'.pwrite = rb.pwrite
  BY <1>4, SetMinPread
<1>6. mutex = {c}
  BY <1>1 DEF Places, Locked
<1>7. Alone(c)
  BY <1>2 DEF Keeps
<1>8. Places'
  BY <1>1, <1>2, <1>3, <1>5, <1>7, ThreadPlaces
<1>. QED BY <1>2, <1>4, <1>6, <1>8

LEMMA CloseLoadPlaces ==
  ASSUME Places, NEW c \in Client, CloseLoad(c) PROVE Places' /\ Keeps(c)
<1>1. pc[c] = "unload" /\ ~ loc[c].closing /\ loc[c] \in Local /\ rb.readers \in Bits
  BY PlacesTyped, RingTyped DEF CloseLoad, ClientLocals, Updating, Bits, Slot
<1>. DEFINE l == [loc[c] EXCEPT !.seen = rb.readers]
<1>2. l \in Local /\ l.closing = loc[c].closing
  BY <1>1 DEF Local
<1>3. loc' = [loc EXCEPT ![c] = l] /\ pc' = [pc EXCEPT ![c] = "unmark"]
  BY DEF CloseLoad
<1>. HIDE DEF l
<1>4. Alone(c) /\ loc'[c] = l /\ pc'[c] = "unmark"
  BY <1>2, <1>3, Moves, Somewhere
<1>5. ClientLocals(c)' /\ c \notin Attached'
  BY <1>1, <1>2, <1>4 DEF ClientLocals, Attached, Sending, Updating, Writing
<1>. QED BY <1>1, <1>4, <1>5, ThreadPlaces, PlacesTyped
         DEF Keeps, CloseLoad, ringVars, writerVars, historyVars

LEMMA CloseStorePlaces ==
  ASSUME Places, NEW c \in Client, CloseStore(c)
  PROVE  LET readers == ToggleBit(loc[c].seen, loc[c].rd)
         IN  Places' /\ Keeps(c) /\ readers \in Bits /\ rb' = WithReaders(rb, readers) /\ pc[c] = "unmark"
<1>. DEFINE readers == ToggleBit(loc[c].seen, loc[c].rd)
            l       == [loc[c] EXCEPT !.seen = {}, !.closing = TRUE]
<1>1. pc[c] = "unmark" /\ loc[c] \in Local /\ loc[c].seen \in Bits /\ loc[c].rd \in Slot
  BY PlacesTyped DEF CloseStore, Local
<1>2. l \in Local /\ l.closing
  BY <1>1, Zero DEF Local
<1>3. loc' = [loc EXCEPT ![c] = l] /\ pc' = [pc EXCEPT ![c] = "check"]
  BY DEF CloseStore
<1>. HIDE DEF l
<1>4. Alone(c) /\ loc'[c] = l /\ pc'[c] = "check"
  BY <1>2, <1>3, Moves, Somewhere
<1>5. ClientLocals(c)' /\ c \notin Attached'
  BY <1>1, <1>2, <1>4 DEF ClientLocals, Attached, Sending, Updating, Writing
<1>6. readers \in Bits /\ rb' = WithReaders(rb, readers) /\ rb \in ringbuffer
  BY <1>1, PlacesTyped DEF CloseStore, ToggleBit, Bits, WithReaders
<1>7. rb' \in ringbuffer /\ rb'.pwrite = rb.pwrite
  <2>. HIDE DEF readers
  <2>. QED BY <1>6, SetReaders
<1>8. exposed' \in SUBSET Client
  BY PlacesTyped DEF CloseStore, Outranked, Attached
<1>9. Places'
  BY <1>1, <1>4, <1>5, <1>7, <1>8, ThreadPlaces, PlacesTyped DEF CloseStore
<1>. QED BY <1>1, <1>4, <1>5, <1>6, <1>9 DEF Keeps
-----------------------------------------------------------------------------
(* A step of the writer changes nobody's place. *)
LEMMA WriterPlaces ==
  ASSUME Places, UNCHANGED <<mutex, clientVars, rpos, damaged>>,
         rb' \in ringbuffer, active' \in BOOLEAN, wpc' \in WriterPC,
         request' \in [todo : Int, split : 0 .. Size], written' \in 0 .. MaxBytes,
         exposed' \in SUBSET Client, WriterLocals'
  PROVE  Places'
<1>1. TypeOK'
  BY DEF Places, TypeOK, clientVars
<1>2. Locked' /\ \A c \in Client : ClientLocals(c)'
  BY DEF Places, Locked, ClientLocals, clientVars
<1>. QED BY <1>1, <1>2 DEF Places

LEMMA WriterStartPlaces == ASSUME Places, WriterStart PROVE Places'
<1>1. wpc' = "select" /\ wpc' \in WriterPC /\ UNCHANGED <<rb, request, written, exposed>>
  BY DEF WriterStart, WriterPC, ringVars, historyVars
<1>. QED BY <1>1, WriterPlaces, PlacesTyped DEF WriterStart, WriterLocals, ringVars, historyVars

LEMMA RequestPlaces ==
  ASSUME Places, Request
  PROVE  /\ Places' /\ wpc' \in Reading /\ request'.todo = ringbuffer_free(rb)
         /\ UNCHANGED <<rb, mutex, written, clientVars, historyVars>>
<1>. DEFINE todo  == ringbuffer_free(rb)
            split == Split(rb.pwrite, todo)
<1>1. todo \in Int /\ rb.pwrite \in Position
  BY PlacesTyped, FreeRoom, RingTyped
<1>2. split \in 0 .. Size /\ (split > 0 => split = Size - rb.pwrite /\ (todo >= 0 => split <= todo))
  <2>. HIDE DEF todo
  <2>. QED BY <1>1, SplitRange
<1>3. request' = [todo |-> todo, split |-> split] /\ wpc' = (IF split > 0 THEN "read1" ELSE "read2")
  BY DEF Request
<1>. HIDE DEF todo, split
<1>4. request' \in [todo : Int, split : 0 .. Size] /\ wpc' \in WriterPC
  BY <1>1, <1>2, <1>3 DEF WriterPC
<1>5. UNCHANGED <<rb, mutex, active, written, clientVars, historyVars>>
  BY DEF Request, ringVars
<1>6. WriterLocals'
  BY <1>2, <1>3, <1>5 DEF WriterLocals
<1>7. Places'
  BY <1>4, <1>5, <1>6, WriterPlaces, PlacesTyped DEF Places, TypeOK, historyVars
<1>. QED BY <1>3, <1>5, <1>7 DEF Reading, todo

LEMMA Read1Places ==
  ASSUME Places, NEW n \in Nat, Read1(n)
  PROVE  /\ Places' /\ n <= request.split /\ n <= MaxBytes - written /\ request'.todo = request.todo - n
         /\ wpc = "read1" /\ request.split = Size - rb.pwrite
<1>1. wpc = "read1" /\ request.split = Size - rb.pwrite /\ request.split \in Nat
  BY PlacesTyped DEF Read1, Places, WriterLocals
<1>2. n \in 0 .. request.split /\ written + n \in 0 .. MaxBytes
  BY <1>1, ReturnedRange DEF Read1, Places
<1>3. rb' \in ringbuffer
  <2>1. rb' = FillStep(rb, written, n) /\ rb \in ringbuffer /\ written \in Nat
    BY PlacesTyped DEF Read1
  <2>. QED BY <2>1, Filled
<1>4. request' \in [todo : Int, split : 0 .. Size] /\ request'.todo = request.todo - n
  BY PlacesTyped DEF Read1
<1>5. wpc' \in WriterPC /\ WriterLocals'
  BY DEF Read1, WriterPC, WriterLocals
<1>6. Places'
  BY <1>2, <1>3, <1>4, <1>5, WriterPlaces, PlacesTyped DEF Read1, Places, TypeOK, historyVars
<1>. QED BY <1>1, <1>2, <1>4, <1>6, PlacesTyped, MaxBytesAssumption

LEMMA Read2Places ==
  ASSUME Places, NEW n \in Nat, Read2(n)
  PROVE  Places' /\ n <= request.todo /\ n <= MaxBytes - written /\ wpc = "read2" /\ wpc' = "select"
<1>1. wpc = "read2" /\ request.todo \in Nat
  BY PlacesTyped DEF Read2
<1>2. n \in 0 .. request.todo /\ written + n \in 0 .. MaxBytes
  BY <1>1, ReturnedRange DEF Read2, Places
<1>3. rb' \in ringbuffer
  <2>1. rb' = FillStep(rb, written, n) /\ rb \in ringbuffer /\ written \in Nat
    BY PlacesTyped DEF Read2
  <2>. QED BY <2>1, Filled
<1>4. request' \in [todo : Int, split : 0 .. Size]
  BY SizeAssumption DEF Read2, NoRequest
<1>5. wpc' \in WriterPC /\ WriterLocals' /\ wpc' = "select"
  BY DEF Read2, WriterPC, WriterLocals
<1>6. exposed' \in SUBSET Client
  BY PlacesTyped DEF Read2, Attached
<1>7. Places'
  BY <1>2, <1>3, <1>4, <1>5, <1>6, WriterPlaces, PlacesTyped DEF Read2, Places, TypeOK
<1>. QED BY <1>1, <1>2, <1>5, <1>7, PlacesTyped, MaxBytesAssumption

LEMMA ReadFailsPlaces == ASSUME Places, ReadFails PROVE Places'
<1>1. wpc' = "select" /\ request' = NoRequest /\ UNCHANGED <<rb, mutex, active, written, clientVars, historyVars>>
  BY DEF ReadFails, ringVars
<1>2. wpc' \in WriterPC /\ request' \in [todo : Int, split : 0 .. Size] /\ WriterLocals'
  BY <1>1, SizeAssumption DEF WriterPC, NoRequest, WriterLocals
<1>. QED BY <1>1, <1>2, WriterPlaces, PlacesTyped DEF Places, TypeOK, historyVars
-----------------------------------------------------------------------------
(* Rooms and backlogs are numbers. *)
LEMMA PreadTyped ==
  ASSUME Places, NEW c \in Attached
  PROVE  /\ c \in Client /\ loc[c].rd \in Descriptor /\ Pread(c) \in Position /\ rb.pwrite \in Position
         /\ Room(Pread(c), rb.pwrite) \in 0 .. Size - 1 /\ Pending(c) \in 0 .. Size - 1
<1>1. c \in Client /\ loc[c].rd \in Descriptor
  BY PlacesTyped DEF Attached, Local, Slot
<1>2. Pread(c) \in Position /\ rb.pwrite \in Position
  BY <1>1, PlacesTyped, RingTyped DEF Pread
<1>3. Room(Pread(c), rb.pwrite) \in 0 .. Size - 1
  BY <1>2, RoomRange
<1>. QED BY <1>1, <1>2, <1>3, SizeAssumption DEF Pending

LEMMA AttachedKept ==
  ASSUME Places, NEW c \in Client, Keeps(c), NEW d \in Attached'
  PROVE  d \in Attached /\ loc'[d].rd = loc[d].rd /\ SharedWith(d)' \subseteq SharedWith(d)
<1>1. ASSUME NEW e \in Attached' PROVE e \in Attached /\ loc'[e].rd = loc[e].rd
  BY DEF Attached, Keeps, Alone
<1>. QED BY <1>1 DEF SharedWith

(* What keeps the writer clear of d, when a thread c does not move the writer's marks. *)
LEMMA ClearKept ==
  ASSUME Places, NEW c \in Client, Keeps(c), NEW d \in Attached', KeptClear(d),
         UNCHANGED writerVars, rb'.pwrite = rb.pwrite, rb'.min_pread = rb.min_pread,
         mutex' = mutex, pc[c] # "minstore", Decides(loc[d].rd, rb'.readers),
         Room(Pread(d)', rb.pwrite) \in Int, Room(Pread(d), rb.pwrite) <= Room(Pread(d)', rb.pwrite)
  PROVE  KeptClear(d)'
<1>1. loc'[d].rd = loc[d].rd /\ SharedWith(d)' = {}
  BY AttachedKept DEF KeptClear
<1>2. \A e \in mutex : e \in Client /\ e # c /\ loc'[e] = loc[e]
  BY DEF Places, Locked, Keeps, Alone
<1>3. /\ rb.min_pread \in Position /\ rb.pwrite \in Position
      /\ d \in Attached /\ Room(Pread(d), rb.pwrite) \in Int
      /\ Room(rb.min_pread, rb.pwrite) \in Int
  <2>1. d \in Attached /\ rb.min_pread \in Position
    BY AttachedKept DEF KeptClear
  <2>. QED BY <2>1, PreadTyped, RoomRange
<1>. DEFINE room == Room(rb.min_pread, rb.pwrite)
            old == Room(Pread(d), rb.pwrite)
            new == Room(Pread(d)', rb.pwrite)
<1>4. room <= old /\ old <= new /\ room \in Int /\ old \in Int /\ new \in Int
  BY <1>3 DEF KeptClear
<1>5. room' = room /\ Room(Pread(d), rb.pwrite)' = new
  BY DEF Room
<1>6. \A e \in mutex : /\ loc[e].min_pread \in Position
                      /\ room <= Room(loc[e].min_pread, rb.pwrite)
                      /\ Room(loc[e].min_pread, rb.pwrite) <= old
  BY DEF KeptClear
<1>7. wpc \in Reading => request.todo \in 0 .. room
  BY DEF KeptClear
<1>. HIDE DEF room, old, new
<1>8. \A e \in mutex : Room(loc[e].min_pread, rb.pwrite) \in Int
  BY <1>3, <1>6, RoomRange
<1>9. ASSUME NEW e \in mutex'
      PROVE  /\ loc'[e].min_pread \in Position
             /\ room <= Room(loc'[e].min_pread, rb'.pwrite)
             /\ Room(loc'[e].min_pread, rb'.pwrite) <= new
  <2>1. loc'[e] = loc[e] /\ rb'.pwrite = rb.pwrite /\ e \in mutex
    BY <1>2
  <2>2. Room(loc'[e].min_pread, rb'.pwrite) = Room(loc[e].min_pread, rb.pwrite)
    BY <2>1
  <2>. QED BY <1>4, <1>6, <1>8, <2>1, <2>2
<1>10. room' <= new /\ (wpc' \in Reading => request'.todo \in 0 .. room')
  BY <1>4, <1>5, <1>7 DEF writerVars
<1>11. Room(rb'.min_pread, rb'.pwrite) = room
  BY DEF room
<1>12. Room(Pread(d)', rb'.pwrite) = new
  BY DEF new
<1>. QED BY <1>1, <1>3, <1>4, <1>9, <1>10, <1>11, <1>12 DEF KeptClear, room

(* Steps of a thread that move no mark but readers. *)
LEMMA QuietStep ==
  ASSUME StreamInv, Places', NEW c \in Client, Keeps(c), pc[c] # "minstore",
         mutex' = mutex, UNCHANGED writerVars,
         rb'.pread = rb.pread, rb'.pwrite = rb.pwrite, rb'.min_pread = rb.min_pread,
         rb'.data = rb.data,
         \A d \in Attached' : rpos'[d] = rpos[d],
         LossHasCause',
         \A d \in Unexposed' : d \notin exposed /\ Decides(loc[d].rd, rb'.readers),
         c \in Unexposed' => Sends(c)'
  PROVE  StreamInv'
<1> SUFFICES ASSUME NEW d \in Unexposed' PROVE KeptClear(d)' /\ Owed(d)' /\ Sends(d)'
  BY DEF StreamInv
<1>1. d \in Attached' /\ d \in Attached /\ d \notin exposed /\ loc'[d].rd = loc[d].rd
  BY AttachedKept DEF Unexposed, StreamInv
<1>2. KeptClear(d) /\ Owed(d) /\ Sends(d) /\ Places
  BY <1>1 DEF StreamInv, Unexposed
<1>3. Pread(d)' = Pread(d) /\ Pending(d)' = Pending(d) /\ Room(Pread(d), rb.pwrite) \in Int
  BY <1>1, <1>2, PreadTyped DEF Pread, Pending, Room
<1>4. KeptClear(d)'
  BY <1>1, <1>2, <1>3, ClearKept
<1>5. Owed(d)'
  BY <1>1, <1>2, <1>3 DEF Owed, writerVars
<1>6. Sends(d)'
  <2>1. CASE d = c
    BY <2>1
  <2>2. CASE d # c
    <3>1. pc'[d] = pc[d] /\ loc'[d] = loc[d]
      BY <1>1, <2>2 DEF Keeps, Alone, Attached
    <3>. QED BY <1>2, <1>3, <3>1 DEF Sends
  <2>. QED BY <2>1, <2>2
<1>. QED BY <1>4, <1>5, <1>6

(* Steps that change nothing but the thread's own place and locals. *)
LEMMA OwnStep ==
  ASSUME StreamInv, Places', NEW c \in Client, Keeps(c), pc[c] # "minstore",
         UNCHANGED <<ringVars, writerVars, historyVars>>,
         c \in Unexposed' => Sends(c)'
  PROVE  StreamInv'
<1>1. LossHasCause'
  BY DEF StreamInv, LossHasCause, historyVars
<1>2. ASSUME NEW d \in Unexposed' PROVE d \notin exposed /\ Decides(loc[d].rd, rb'.readers)
  <2>1. d \in Attached /\ d \notin exposed
    BY AttachedKept DEF Unexposed, StreamInv, historyVars
  <2>. QED BY <2>1 DEF StreamInv, Unexposed, KeptClear, ringVars
<1>. QED BY <1>1, <1>2, QuietStep DEF ringVars, historyVars

LEMMA ConnectInv == ASSUME StreamInv, NEW c \in Client, Connect(c) PROVE StreamInv'
<1>1. Places' /\ Keeps(c) /\ pc[c] = "new" /\ UNCHANGED <<ringVars, writerVars, historyVars>>
  BY ConnectPlaces DEF StreamInv, Connect
<1>2. pc'[c] = "scan"
  BY PlacesTyped DEF StreamInv, Connect
<1>3. c \notin Unexposed'
  BY <1>2 DEF Unexposed, Attached, Sending, Updating
<1>. QED BY <1>1, <1>3, OwnStep

LEMMA ScanInv == ASSUME StreamInv, NEW c \in Client, Scan(c) PROVE StreamInv'
<1>1. Places' /\ Keeps(c) /\ pc[c] = "scan" /\ UNCHANGED <<ringVars, writerVars, historyVars>>
  BY ScanPlaces DEF StreamInv, Scan
<1>2. c \notin Unexposed'
  BY <1>1 DEF Keeps, Unexposed, Attached, Sending, Updating
<1>. QED BY <1>1, <1>2, OwnStep

LEMMA LeaveInv ==
  ASSUME StreamInv, NEW c \in Client, Inactive(c) \/ NoSlot(c) PROVE StreamInv'
<1>1. Places' /\ Keeps(c) /\ pc[c] = "loop" /\ UNCHANGED <<ringVars, writerVars, historyVars>>
  BY LeavePlaces DEF StreamInv, Inactive, NoSlot
<1>2. pc'[c] = "unload"
  BY PlacesTyped DEF StreamInv, Inactive, NoSlot
<1>3. c \notin Unexposed'
  BY <1>2 DEF Unexposed, Attached, Sending, Updating
<1>. QED BY <1>1, <1>3, OwnStep

LEMMA WriteFailsInv == ASSUME StreamInv, NEW c \in Client, WriteFails(c) PROVE StreamInv'
<1>1. /\ Places' /\ Keeps(c) /\ pc[c] # "minstore"
      /\ UNCHANGED <<ringVars, writerVars, historyVars>>
  BY WriteFailsPlaces DEF StreamInv, WriteFails
<1>2. pc'[c] = "unload"
  BY PlacesTyped DEF StreamInv, WriteFails
<1>3. c \notin Unexposed'
  BY <1>2 DEF Unexposed, Attached, Sending, Updating
<1>. QED BY <1>1, <1>3, OwnStep

LEMMA CloseLoadInv == ASSUME StreamInv, NEW c \in Client, CloseLoad(c) PROVE StreamInv'
<1>1. Places' /\ Keeps(c) /\ pc[c] = "unload" /\ UNCHANGED <<ringVars, writerVars, historyVars>>
  BY CloseLoadPlaces DEF StreamInv, CloseLoad
<1>2. pc'[c] = "unmark"
  BY PlacesTyped DEF StreamInv, CloseLoad
<1>3. c \notin Unexposed'
  BY <1>2 DEF Unexposed, Attached, Sending, Updating
<1>. QED BY <1>1, <1>3, OwnStep

LEMMA UpdateNeededInv == ASSUME StreamInv, NEW c \in Client, UpdateNeeded(c) PROVE StreamInv'
<1>1. /\ Places' /\ Keeps(c) /\ pc[c] # "minstore" /\ pc'[c] = "minload"
      /\ UNCHANGED <<ringVars, writerVars, historyVars>>
  BY UpdateNeededPlaces DEF StreamInv, UpdateNeeded
<1>2. Sends(c)'
  BY <1>1 DEF Sends, Writing
<1>. QED BY <1>1, <1>2, OwnStep

(* What ringbuffer_avail counts is the backlog. *)
LEMMA InputReadyInv == ASSUME StreamInv, NEW c \in Client, InputReady(c) PROVE StreamInv'
<1>. DEFINE rd    == loc[c].rd
            todo  == ringbuffer_avail(rb, rd)
            split == Split(rb.pread[rd], todo)
<1>1. /\ Places' /\ Keeps(c) /\ loc'[c].todo = todo /\ loc'[c].split = split
      /\ pc'[c] = (IF split > 0 THEN "write1" ELSE "write2") /\ loc'[c].rd = rd
      /\ pc[c] = "loop" /\ rd \in Descriptor
      /\ todo \in 0 .. Size - 1 /\ split \in 0 .. Size
  BY InputReadyPlaces DEF StreamInv
<1>2. UNCHANGED <<ringVars, writerVars, historyVars>>
  BY DEF InputReady
<1>3. rb \in ringbuffer /\ rb.pread[rd] \in Position /\ rb.pwrite \in Position
  BY <1>1, PlacesTyped, RingTyped DEF StreamInv
<1>4. todo = Size - 1 - Room(rb.pread[rd], rb.pwrite)
  BY <1>1, <1>3, AvailRoom
<1>5. Pending(c)' = todo /\ Pread(c)' = rb.pread[rd]
  BY <1>1, <1>2, <1>4 DEF Pending, Pread, ringVars
<1>6. /\ split > 0 => rb.pread[rd] + split = Size
      /\ split = 0 => rb.pread[rd] + todo <= Size
  <2>1. todo \in Int
    BY <1>1, SizeAssumption
  <2>. HIDE DEF todo
  <2>2. /\ split > 0 => split = Size - rb.pread[rd]
        /\ split = 0 => rb.pread[rd] + todo <= Size
    BY <1>3, <2>1, SplitRange
  <2>. QED BY <1>3, <2>2, SizeAssumption DEF Position
<1>. HIDE DEF rd, todo, split
<1>7. Sends(c)'
  BY <1>1, <1>5, <1>6, SizeAssumption DEF Sends, Writing
<1>. QED BY <1>1, <1>2, <1>7, OwnStep

(* ringbuffer_update_min has nothing to do when no descriptor is open. *)
LEMMA UpdateSkipsInv == ASSUME StreamInv, NEW c \in Client, UpdateSkips(c) PROVE StreamInv'
<1>1. Places' /\ Keeps(c) /\ pc[c] # "minstore" /\ pc[c] \in Updating /\ Resume(c)
  BY UpdateSkipsPlaces DEF StreamInv, UpdateSkips, Updating
<1>2. /\ pc'[c] \in {"done", "loop"}
      /\ c \in Attached' => UNCHANGED historyVars
      /\ \A d \in Client \ {c} :
           /\ rpos'[d] = rpos[d] /\ (d \in damaged' <=> d \in damaged)
           /\ (d \in exposed' <=> d \in exposed)
      /\ c \in damaged' => c \in damaged /\ (c \in exposed' <=> c \in exposed)
  BY <1>1, ResumePlaces DEF StreamInv
<1>3. UNCHANGED <<ringVars, writerVars>>
  BY DEF UpdateSkips
<1>4. LossHasCause'
  BY <1>1, <1>2, PlacesTyped DEF LossHasCause, StreamInv, Places, TypeOK
<1>5. ASSUME NEW d \in Unexposed' PROVE d \notin exposed /\ Decides(loc[d].rd, rb'.readers)
  <2>1. d \in Attached /\ d \notin exposed
    BY <1>1, <1>2, AttachedKept DEF Unexposed, StreamInv, historyVars, Attached
  <2>. QED BY <1>3, <2>1 DEF StreamInv, Unexposed, KeptClear, ringVars
<1>6. \A d \in Attached' : rpos'[d] = rpos[d]
  BY <1>2 DEF historyVars, Attached
<1>7. Sends(c)'
  BY <1>2 DEF Sends, Writing
<1>. QED BY <1>1, <1>3, <1>4, <1>5, <1>6, <1>7, QuietStep DEF ringVars

(* A descriptor that opens or closes exposes those it takes the decision from. *)
LEMMA ReadersInv ==
  ASSUME StreamInv, Places', NEW c \in Client, Keeps(c), pc[c] \in {"mark", "unmark"},
         UNCHANGED <<mutex, writerVars, rpos, damaged>>,
         NEW readers \in Bits,
         rb' = WithReaders(rb, readers), exposed' = exposed \cup Outranked(readers)
  PROVE  StreamInv'
<1>1. /\ rb'.readers = readers /\ rb'.pread = rb.pread /\ rb'.pwrite = rb.pwrite
      /\ rb'.min_pread = rb.min_pread /\ rb'.data = rb.data
  BY SetReaders, PlacesTyped DEF StreamInv
<1>2. LossHasCause'
  BY DEF LossHasCause, StreamInv
<1>3. \A d \in Unexposed' : d \notin exposed /\ Decides(loc[d].rd, rb'.readers)
  <2>1. \A d \in Unexposed' : d \in Attached /\ d \notin exposed'
    BY AttachedKept DEF StreamInv, Unexposed
  <2>. QED BY <1>1, <2>1 DEF Outranked
<1>4. c \notin Attached
  BY DEF Attached, Sending, Updating
<1>5. c \notin Unexposed'
  BY <1>4 DEF Keeps, Unexposed
<1>. QED BY <1>1, <1>2, <1>3, <1>5, QuietStep

LEMMA MarkInv == ASSUME StreamInv, NEW c \in Client, Mark(c) PROVE StreamInv'
<1>1. Places' /\ Keeps(c) /\ pc[c] = "mark" /\ UNCHANGED <<mutex, writerVars, rpos, damaged>>
  BY MarkPlaces DEF StreamInv, Mark
<1>2. PICK readers \in Bits :
             /\ rb' = WithReaders(rb, readers) /\ exposed' = exposed \cup Outranked(readers)
  <2>1. PICK old \in {loc[c].seen, rb.readers} :
               /\ rb' = [rb EXCEPT !.readers = old \cup {loc[c].rd}]
               /\ exposed' = exposed \cup Outranked(old \cup {loc[c].rd})
    BY DEF Mark
  <2>2. loc[c] \in Local /\ rb.readers \in Bits
    BY PlacesTyped, RingTyped DEF StreamInv, Bits, Slot
  <2>3. old \cup {loc[c].rd} \in Bits
    BY <2>2 DEF Local, Bits
  <2>. QED BY <2>1, <2>3 DEF WithReaders
<1>. QED BY <1>1, <1>2, ReadersInv

LEMMA CloseStoreInv == ASSUME StreamInv, NEW c \in Client, CloseStore(c) PROVE StreamInv'
<1>1. /\ Places' /\ Keeps(c) /\ pc[c] = "unmark" /\ ToggleBit(loc[c].seen, loc[c].rd) \in Bits
      /\ rb' = WithReaders(rb, ToggleBit(loc[c].seen, loc[c].rd))
  BY CloseStorePlaces DEF StreamInv
<1>. QED BY <1>1, ReadersInv DEF CloseStore

(* A descriptor starts with nothing pending and with the writer clear of it, unless
   OpensExposed says otherwise. *)
LEMMA PlaceInv == ASSUME StreamInv, NEW c \in Client, Place(c) PROVE StreamInv'
<1>. DEFINE rd == loc[c].rd
<1>1. /\ Places' /\ Alone(c) /\ pc'[c] = "loop" /\ UNCHANGED loc /\ pc[c] = "place"
      /\ rd \in Descriptor
  BY PlacePlaces, PlacesTyped DEF StreamInv, Place, ClientLocals
<1>2. /\ rb'.readers = rb.readers /\ rb'.pread = [rb.pread EXCEPT ![rd] = rb.pwrite]
      /\ rb'.pwrite = rb.pwrite /\ rb'.min_pread = rb.min_pread /\ rb'.data = rb.data
      /\ rb \in ringbuffer /\ rb.pwrite \in Position /\ rb.pread \in [Descriptor -> Position]
  <2>1. rb \in ringbuffer /\ rb.pwrite \in Position /\ rb.pread \in [Descriptor -> Position]
    BY PlacesTyped, RingTyped DEF StreamInv
  <2>2. rb' = WithPread(rb, rd, rb.pwrite)
    BY DEF Place, WithPread
  <2>. QED BY <1>1, <2>1, <2>2, SetPread
<1>3. UNCHANGED <<mutex, writerVars, damaged>>
  BY DEF Place
<1>4. LossHasCause'
  BY DEF LossHasCause, StreamInv, Place
<1>5. c \notin Attached
  BY <1>1 DEF Attached, Sending, Updating
<1>6. ASSUME NEW d \in Attached' PROVE d \in Client /\ (d # c => d \in Attached)
  BY <1>1 DEF Attached, Alone
<1>7. ASSUME NEW d \in Unexposed', d # c PROVE KeptClear(d)' /\ Owed(d)' /\ Sends(d)'
  <2>1. d \in Attached /\ d \notin exposed /\ d \notin SharedWith(c)
    BY <1>6, <1>7 DEF Unexposed, Place
  <2>2. KeptClear(d) /\ Owed(d) /\ Sends(d) /\ loc[d].rd # rd
    BY <1>7, <2>1 DEF StreamInv, Unexposed, SharedWith
  <2>3. SharedWith(d)' = {}
    BY <1>1, <1>6, <2>2 DEF SharedWith, KeptClear
  <2>4. loc[d].rd \in Descriptor
    BY <2>1, PreadTyped DEF StreamInv
  <2>5. Pread(d)' = Pread(d) /\ rpos'[d] = rpos[d] /\ pc'[d] = pc[d]
    BY <1>1, <1>2, <1>7, <2>1, <2>2, <2>4, PlacesTyped DEF Pread, Alone, Attached, StreamInv, Place
  <2>6. Pending(d)' = Pending(d)
    BY <1>2, <2>5 DEF Pending, Room
  <2>7. KeptClear(d)'
    BY <1>1, <1>2, <1>3, <2>2, <2>3, <2>5 DEF KeptClear, Room, writerVars
  <2>8. Owed(d)'
    BY <1>2, <1>3, <2>2, <2>5, <2>6 DEF Owed, writerVars
  <2>9. Sends(d)'
    BY <1>1, <2>2, <2>5, <2>6 DEF Sends
  <2>. QED BY <2>7, <2>8, <2>9
<1>8. ASSUME c \in Unexposed' PROVE KeptClear(c)' /\ Owed(c)' /\ Sends(c)'
  <2>1. ~ OpensExposed(c)
    BY <1>8 DEF Unexposed, Place
  <2>2. /\ Decides(rd, rb.readers) /\ SharedWith(c) = {} /\ mutex = {} /\ rb.min_pread \in Position
        /\ wpc \in Reading => request.todo \in 0 .. ringbuffer_free(rb)
    BY <2>1 DEF OpensExposed, Reading
  <2>3. SharedWith(c)' = {}
    BY <1>1, <1>6, <2>2 DEF SharedWith
  <2>4. Pread(c)' = rb.pwrite
    BY <1>1, <1>2 DEF Pread
  <2>5. Room(rb.pwrite, rb.pwrite) = Size - 1 /\ Room(rb.min_pread, rb.pwrite) \in 0 .. Size - 1
    BY <1>2, <2>2, RoomRange
  <2>6. ringbuffer_free(rb) = Room(rb.min_pread, rb.pwrite)
    <3>1. rb.readers # {}
      BY <2>2 DEF Decides, Highest
    <3>. QED BY <1>2, <3>1, FreeRoom
  <2>7. Pending(c)' = 0
    BY <1>2, <2>4, <2>5, SizeAssumption DEF Pending
  <2>8. Room(rb.min_pread, rb.pwrite) <= Room(rb.pwrite, rb.pwrite)
    BY <2>5, SizeAssumption
  <2>9. KeptClear(c)'
    BY <1>1, <1>2, <1>3, <2>2, <2>3, <2>4, <2>6, <2>8 DEF KeptClear, writerVars
  <2>10. rpos'[c] = written /\ written \in Nat
    BY PlacesTyped DEF Place, StreamInv
  <2>11. Owed(c)'
    BY <1>3, <2>7, <2>10 DEF Owed, writerVars
  <2>12. Sends(c)'
    BY <1>1 DEF Sends, Writing
  <2>. QED BY <2>9, <2>11, <2>12
<1>9. ASSUME NEW d \in Unexposed' PROVE KeptClear(d)' /\ Owed(d)' /\ Sends(d)'
  BY <1>7, <1>8
<1>. QED BY <1>1, <1>4, <1>9 DEF StreamInv
-----------------------------------------------------------------------------
LEMMA CellShift ==
  ASSUME NEW p \in Position, NEW n \in Nat, NEW i \in Nat, n + i < Size, p + n <= Size
  PROVE  (((p + n) % Size) + i) % Size = (p + (n + i)) % Size
<1>1. CASE p + n < Size
  <2>1. (p + n) % Size = p + n
    BY <1>1, WrapBelow, SizeAssumption DEF Position
  <2>2. (p + n) + i = p + (n + i)
    BY SizeAssumption DEF Position
  <2>. QED BY <2>1, <2>2
<1>2. CASE p + n = Size
  <2>1. (p + n) % Size = 0
    BY <1>2, WrapEnd
  <2>2. i \in Position /\ n + i \in Position
    BY SizeAssumption DEF Position
  <2>3. (0 + i) % Size = i
    <3>1. 0 + i = i /\ i < Size
      BY <2>2, SizeAssumption DEF Position
    <3>. QED BY <3>1, WrapBelow
  <2>4. (p + (n + i)) % Size = p + (n + i) - Size
    <3>. DEFINE j == n + i
    <3>1. j \in Position /\ p + j >= Size
      BY <1>2, <2>2, SizeAssumption DEF Position
    <3>. HIDE DEF j
    <3>2. (p + j) % Size = IF p + j < Size THEN p + j ELSE p + j - Size
      BY <3>1, Cell
    <3>3. (p + j) % Size = p + j - Size
      BY <3>1, <3>2, SizeAssumption DEF Position
    <3>. QED BY <3>3 DEF j
  <2>. QED BY <1>2, <2>1, <2>3, <2>4, SizeAssumption DEF Position
<1>. QED BY <1>1, <1>2, SizeAssumption DEF Position

(* What a client is sent is what it is owed. *)
LEMMA SendsFaithful ==
  ASSUME Places, NEW c \in Attached, Owed(c), NEW n \in Nat, n <= Pending(c), Pread(c) + n <= Size
  PROVE  Faithful(c, n) /\ Smaller(rpos[c] + n, MaxBytes) = rpos[c] + n
<1>1. Pread(c) \in Position /\ Pending(c) \in 0 .. Size - 1
  BY PreadTyped
<1>2. ASSUME NEW i \in 0 .. n - 1
      PROVE  Pread(c) + i < Size /\ rb.data[Pread(c) + i] = rpos[c] + i
  <2>1. Pread(c) + i < Size /\ Pread(c) + i \in Nat /\ i \in 0 .. Pending(c) - 1
    BY <1>1, SizeAssumption DEF Position
  <2>2. (Pread(c) + i) % Size = Pread(c) + i
    BY <2>1, WrapBelow
  <2>3. rb.data[(Pread(c) + i) % Size] = rpos[c] + i
    BY <2>1 DEF Owed
  <2>. QED BY <2>1, <2>2, <2>3
<1>3. Faithful(c, n)
  BY <1>2 DEF Faithful, Pread
<1>4. rpos[c] + n <= MaxBytes
  <2>1. rpos[c] \in Nat /\ written <= MaxBytes /\ written \in Nat
    BY PlacesTyped, MaxBytesAssumption DEF Attached
  <2>. QED BY <1>1, <2>1, SizeAssumption, MaxBytesAssumption DEF Owed
<1>. QED BY <1>3, <1>4, PlacesTyped, MaxBytesAssumption DEF Smaller, Attached

LEMMA SendInv ==
  ASSUME StreamInv, Places', NEW c \in Attached, Keeps(c), pc[c] \in Writing,
         NEW n \in Nat, NEW p, Send(c, n, p), loc'[c].rd = loc[c].rd,
         c \in Unexposed => n <= Pending(c) /\ Pread(c) + n <= Size,
         c \in Unexposed' => Sends(c)'
  PROVE  StreamInv'
<1>. DEFINE rd == loc[c].rd
<1>1. c \in Client /\ rd \in Descriptor /\ Places /\ pc[c] # "minstore"
  BY PreadTyped DEF StreamInv, Writing
<1>2. /\ rb'.readers = rb.readers /\ rb'.pread = [rb.pread EXCEPT ![rd] = (@ + n) % Size]
      /\ rb'.pwrite = rb.pwrite /\ rb'.min_pread = rb.min_pread /\ rb'.data = rb.data
      /\ rb.pread \in [Descriptor -> Position]
  <2>1. rb \in ringbuffer /\ rb' = DrainStep(rb, rd, n)
    BY <1>1, PlacesTyped DEF Send
  <2>. QED BY <1>1, <2>1, Drained, RingTyped
<1>3. UNCHANGED <<mutex, writerVars, exposed>>
  BY DEF Send
<1>4. c \in Unexposed => Faithful(c, n) /\ rpos'[c] = rpos[c] + n
  <2>1. rpos'[c] = Smaller(rpos[c] + n, MaxBytes)
    BY <1>1, PlacesTyped DEF Send
  <2>. QED BY <1>1, <2>1, SendsFaithful DEF StreamInv, Unexposed
<1>5. LossHasCause'
  BY <1>3, <1>4 DEF LossHasCause, StreamInv, Send, Unexposed
<1>6. ASSUME NEW d \in Unexposed' PROVE KeptClear(d)' /\ Owed(d)' /\ Sends(d)'
  <2>1. d \in Attached' /\ d \in Unexposed /\ d \in Attached /\ loc'[d].rd = loc[d].rd
    BY <1>1, <1>3, AttachedKept DEF Unexposed
  <2>2. KeptClear(d) /\ Owed(d) /\ Sends(d) /\ Decides(loc[d].rd, rb'.readers)
    BY <1>2, <2>1 DEF StreamInv, KeptClear
  <2>3. /\ Pread(d) \in Position /\ rb.pwrite \in Position /\ loc[d].rd \in Descriptor /\ d \in Client
        /\ Room(Pread(d), rb.pwrite) \in 0 .. Size - 1 /\ Pending(d) \in 0 .. Size - 1
    BY <1>1, <2>1, PreadTyped
  <2>4. CASE d # c
    <3>1. loc[d].rd # rd
      BY <2>2, <2>4 DEF KeptClear, SharedWith
    <3>2. Pread(d)' = Pread(d) /\ pc'[d] = pc[d] /\ loc'[d] = loc[d] /\ rpos'[d] = rpos[d]
      BY <1>1, <1>2, <2>1, <2>3, <2>4, <3>1, PlacesTyped DEF Pread, Keeps, Alone, Send
    <3>3. Pending(d)' = Pending(d)
      BY <1>2, <3>2 DEF Pending, Room
    <3>4. KeptClear(d)'
      <4>1. Room(Pread(d)', rb.pwrite) \in Int /\ Room(Pread(d), rb.pwrite) <= Room(Pread(d)', rb.pwrite)
        BY <2>3, <3>2, SizeAssumption
      <4>. QED BY <1>1, <1>2, <1>3, <2>1, <2>2, <4>1, ClearKept
    <3>5. Owed(d)' /\ Sends(d)'
      BY <1>2, <1>3, <2>2, <3>2, <3>3 DEF Owed, Sends, writerVars
    <3>. QED BY <3>4, <3>5
  <2>5. CASE d = c
    <3>1. Pread(c)' = (Pread(c) + n) % Size
      BY <1>1, <1>2, <2>1, <2>5 DEF Pread
    <3>2. n <= Pending(c) /\ Pread(c) + n <= Size /\ rpos'[c] = rpos[c] + n /\ rpos[c] \in Nat
      BY <1>1, <1>4, <2>1, <2>5, PlacesTyped
    <3>3. Room(Pread(c)', rb.pwrite) = Room(Pread(c), rb.pwrite) + n
      <4>1. n \in 0 .. Size - 1 - Room(Pread(c), rb.pwrite)
        BY <2>3, <2>5, <3>2, SizeAssumption DEF Pending
      <4>. QED BY <2>3, <2>5, <3>1, <3>2, <4>1, RoomDrained
    <3>4. Pending(c)' = Pending(c) - n
      BY <1>2, <2>3, <2>5, <3>3, SizeAssumption DEF Pending
    <3>5. KeptClear(d)'
      <4>1. Room(Pread(d)', rb.pwrite) \in Int /\ Room(Pread(d), rb.pwrite) <= Room(Pread(d)', rb.pwrite)
        BY <2>3, <2>5, <3>3, SizeAssumption
      <4>. QED BY <1>1, <1>2, <1>3, <2>1, <2>2, <4>1, ClearKept
    <3>6. ASSUME NEW i \in 0 .. Pending(c)' - 1
          PROVE  rb'.data[(Pread(c)' + i) % Size] = rpos'[c] + i
      <4>1. i \in Nat /\ n + i < Size /\ n + i \in 0 .. Pending(c) - 1
        BY <2>3, <2>5, <3>2, <3>4, SizeAssumption
      <4>2. (Pread(c)' + i) % Size = (Pread(c) + (n + i)) % Size
        BY <2>3, <2>5, <3>1, <3>2, <4>1, CellShift
      <4>3. rb.data[(Pread(c) + (n + i)) % Size] = rpos[c] + (n + i)
        BY <2>2, <2>5, <4>1 DEF Owed
      <4>4. rpos[c] + (n + i) = rpos'[c] + i
        BY <3>2, <4>1
      <4>. QED BY <1>2, <4>2, <4>3, <4>4
    <3>7. rpos'[c] + Pending(c)' = written'
      BY <1>3, <2>2, <2>3, <2>5, <3>2, <3>4, SizeAssumption DEF Owed, writerVars
    <3>8. Owed(c)'
      BY <3>6, <3>7 DEF Owed
    <3>. QED BY <2>5, <3>5, <3>8
  <2>. QED BY <2>4, <2>5
<1>. QED BY <1>5, <1>6 DEF StreamInv

LEMMA Write1Inv == ASSUME StreamInv, NEW c \in Client, NEW n \in 1 .. Size, Write1(c, n) PROVE StreamInv'
<1>1. n \in Nat /\ pc[c] = "write1" /\ n <= loc[c].split /\ n >= 1
  BY SizeAssumption, PlacesTyped DEF Write1, StreamInv, Local
<1>2. /\ Places' /\ Keeps(c) /\ loc'[c].todo = loc[c].todo - n /\ loc'[c].rd = loc[c].rd
      /\ pc'[c] = (IF n = loc[c].split THEN "write2" ELSE "check") /\ c \in Attached
  BY <1>1, Write1Places DEF StreamInv
<1>3. /\ loc[c].split \in Nat /\ loc[c].todo \in Nat /\ loc[c].split <= loc[c].todo
  BY <1>1, PlacesTyped, SizeAssumption DEF StreamInv, ClientLocals, Local
<1>4. /\ Pread(c) \in Position /\ Pending(c) \in 0 .. Size - 1 /\ rb.pwrite \in Position
      /\ Room(Pread(c), rb.pwrite) \in 0 .. Size - 1 /\ loc[c].rd \in Descriptor
  BY <1>2, PreadTyped DEF StreamInv
<1>5. ASSUME c \in Unexposed
      PROVE  n <= Pending(c) /\ Pread(c) + n <= Size /\ loc[c].todo <= Pending(c)
             /\ Pread(c) + loc[c].split = Size
  BY <1>1, <1>3, <1>4, <1>5, SizeAssumption DEF StreamInv, Sends, Writing, Position
<1>6. c \in Unexposed' => Sends(c)'
  <2> SUFFICES ASSUME c \in Unexposed' PROVE Sends(c)'
    OBVIOUS
  <2>1. c \in Unexposed
    BY <1>2 DEF Unexposed, Write1, Send
  <2>2. CASE n = loc[c].split
    <3>1. Pread(c)' = (Pread(c) + n) % Size /\ rb'.pwrite = rb.pwrite
      <4>1. rb \in ringbuffer /\ rb' = DrainStep(rb, loc[c].rd, n) /\ rb.pread \in [Descriptor -> Position]
        BY PlacesTyped, RingTyped DEF Write1, Send, StreamInv
      <4>2. rb'.pread = [rb.pread EXCEPT ![loc[c].rd] = (@ + n) % Size] /\ rb'.pwrite = rb.pwrite
        BY <1>1, <1>4, <4>1, Drained
      <4>. QED BY <1>2, <1>4, <4>1, <4>2 DEF Pread
    <3>2. Pread(c) + n = Size
      BY <1>5, <2>1, <2>2
    <3>3. Pread(c)' = 0
      BY <3>1, <3>2, WrapEnd
    <3>4. Pending(c)' = Pending(c) - n
      <4>1. n \in 0 .. Size - 1 - Room(Pread(c), rb.pwrite)
        BY <1>1, <1>4, <1>5, <2>1, SizeAssumption DEF Pending
      <4>2. Room(Pread(c)', rb.pwrite) = Room(Pread(c), rb.pwrite) + n
        BY <1>4, <1>5, <2>1, <3>1, <4>1, RoomDrained
      <4>. QED BY <1>1, <1>4, <3>1, <4>2, SizeAssumption DEF Pending
    <3>5. loc'[c].todo <= Pending(c)' /\ Pread(c)' + loc'[c].todo <= Size
      BY <1>1, <1>2, <1>3, <1>4, <1>5, <2>1, <3>3, <3>4, SizeAssumption
    <3>. QED BY <1>2, <2>2, <3>5 DEF Sends
  <2>3. CASE n # loc[c].split
    BY <1>2, <2>3 DEF Sends, Writing
  <2>. QED BY <2>2, <2>3
<1>7. Send(c, n, IF n = loc[c].split THEN "write2" ELSE "check") /\ pc[c] \in Writing
  BY <1>1 DEF Write1, Writing
<1>. QED BY <1>1, <1>2, <1>5, <1>6, <1>7, SendInv

LEMMA Write2Inv == ASSUME StreamInv, NEW c \in Client, NEW n \in 1 .. Size, Write2(c, n) PROVE StreamInv'
<1>1. n \in Nat /\ pc[c] = "write2" /\ n <= loc[c].todo /\ loc[c].todo \in Nat
  BY SizeAssumption, PlacesTyped DEF Write2, StreamInv, Local
<1>2. Places' /\ Keeps(c) /\ loc'[c].rd = loc[c].rd /\ pc'[c] = "check" /\ c \in Attached
  BY <1>1, Write2Places DEF StreamInv
<1>3. Pread(c) \in Position /\ Pending(c) \in 0 .. Size - 1
  BY <1>2, PreadTyped DEF StreamInv
<1>4. c \in Unexposed => n <= Pending(c) /\ Pread(c) + n <= Size
  BY <1>1, <1>3, SizeAssumption DEF StreamInv, Sends, Writing, Position
<1>5. Sends(c)'
  BY <1>2 DEF Sends, Writing
<1>6. Send(c, n, "check") /\ pc[c] \in Writing
  BY <1>1 DEF Write2, Writing
<1>. QED BY <1>1, <1>2, <1>4, <1>5, <1>6, SendInv
-----------------------------------------------------------------------------
(* The thread that holds the mutex has chosen the pread of the highest descriptor. *)
LEMMA MinLoadInv == ASSUME StreamInv, NEW c \in Client, MinLoad(c) PROVE StreamInv'
<1>1. /\ Places' /\ Keeps(c) /\ loc'[c].min_pread \in MinPread(rb) /\ pc'[c] = "minstore"
  BY MinLoadPlaces DEF StreamInv
<1>2. mutex = {} /\ mutex' = {c} /\ UNCHANGED <<rb, writerVars, historyVars>>
  BY DEF MinLoad
<1>3. LossHasCause'
  BY <1>2 DEF LossHasCause, StreamInv, historyVars
<1>4. ASSUME NEW d \in Unexposed' PROVE KeptClear(d)' /\ Owed(d)' /\ Sends(d)'
  <2>1. /\ d \in Attached' /\ d \in Unexposed /\ d \in Attached /\ loc'[d].rd = loc[d].rd
        /\ SharedWith(d)' \subseteq SharedWith(d)
    BY <1>1, <1>2, AttachedKept DEF Unexposed, StreamInv, historyVars
  <2>2. KeptClear(d) /\ Owed(d) /\ Sends(d)
    BY <2>1 DEF StreamInv
  <2>3. /\ Pread(d) \in Position /\ Room(Pread(d), rb.pwrite) \in Int
        /\ Pread(d)' = Pread(d) /\ Pending(d)' = Pending(d)
    BY <1>2, <2>1, PreadTyped DEF Pread, Pending, Room, StreamInv
  <2>4. loc'[c].min_pread = Pread(d)
    <3>1. loc[d].rd \in Highest(rb.readers) /\ rb \in ringbuffer
      BY <2>2, PlacesTyped DEF KeptClear, Decides, StreamInv
    <3>2. MinPread(rb) = {rb.pread[loc[d].rd]}
      BY <3>1, MinPreadTyped
    <3>. QED BY <1>1, <3>2 DEF Pread
  <2>5. KeptClear(d)'
    <3>1. \A e \in mutex' : loc'[e].min_pread = Pread(d)
      BY <1>2, <2>4
    <3>. QED BY <1>2, <2>1, <2>2, <2>3, <3>1 DEF KeptClear, Room, writerVars
  <2>6. Owed(d)'
    BY <1>2, <2>2, <2>3 DEF Owed, writerVars, historyVars
  <2>7. Sends(d)'
    <3>1. CASE d = c
      BY <1>1, <3>1 DEF Sends, Writing
    <3>2. CASE d # c
      BY <1>1, <2>1, <2>2, <2>3, <3>2 DEF Sends, Keeps, Alone, Attached
    <3>. QED BY <3>1, <3>2
  <2>. QED BY <2>5, <2>6, <2>7
<1>. QED BY <1>1, <1>3, <1>4 DEF StreamInv

(* Storing it gives the writer no more room than the client leaves. *)
LEMMA MinStoreInv == ASSUME StreamInv, NEW c \in Client, MinStore(c) PROVE StreamInv'
<1>. DEFINE m == loc[c].min_pread
<1>1. /\ Places' /\ Keeps(c) /\ mutex = {c} /\ rb' = WithMinPread(rb, m) /\ m \in Minimum
      /\ pc[c] \in Updating /\ Resume(c) /\ mutex' = {} /\ UNCHANGED writerVars
  BY MinStorePlaces DEF StreamInv, MinStore, Updating
<1>2. /\ pc'[c] \in {"done", "loop"}
      /\ c \in Attached' => UNCHANGED historyVars
      /\ \A d \in Client \ {c} :
           /\ rpos'[d] = rpos[d] /\ (d \in damaged' <=> d \in damaged)
           /\ (d \in exposed' <=> d \in exposed)
      /\ c \in damaged' => c \in damaged /\ (c \in exposed' <=> c \in exposed)
  BY <1>1, ResumePlaces DEF StreamInv
<1>3. /\ rb'.readers = rb.readers /\ rb'.pread = rb.pread /\ rb'.pwrite = rb.pwrite
      /\ rb'.min_pread = m /\ rb'.data = rb.data
  <2>1. rb \in ringbuffer
    BY PlacesTyped DEF StreamInv
  <2>. QED BY <1>1, <2>1, SetMinPread
<1>4. LossHasCause'
  BY <1>1, <1>2, PlacesTyped DEF LossHasCause, StreamInv, Places, TypeOK
<1>5. ASSUME NEW d \in Unexposed' PROVE KeptClear(d)' /\ Owed(d)' /\ Sends(d)'
  <2>1. /\ d \in Attached' /\ d \in Attached /\ loc'[d].rd = loc[d].rd
        /\ SharedWith(d)' \subseteq SharedWith(d) /\ d \in Client
    BY <1>1, AttachedKept DEF Unexposed, StreamInv, Attached
  <2>2. d \in Unexposed /\ rpos'[d] = rpos[d]
    BY <1>2, <2>1 DEF Unexposed, historyVars
  <2>3. KeptClear(d) /\ Owed(d) /\ Sends(d)
    BY <2>2 DEF StreamInv
  <2>4. Pread(d)' = Pread(d) /\ Pending(d)' = Pending(d)
    BY <1>3, <2>1 DEF Pread, Pending, Room
  <2>5. /\ rb.min_pread \in Position /\ rb.pwrite \in Position /\ m \in Position
        /\ Room(rb.min_pread, rb.pwrite) \in Int /\ Room(m, rb.pwrite) \in Int
        /\ Room(rb.min_pread, rb.pwrite) <= Room(m, rb.pwrite)
        /\ Room(m, rb.pwrite) <= Room(Pread(d), rb.pwrite)
        /\ wpc \in Reading => request.todo \in 0 .. Room(rb.min_pread, rb.pwrite)
    <3>1. /\ rb.min_pread \in Position /\ m \in Position
          /\ Room(rb.min_pread, rb.pwrite) <= Room(m, rb.pwrite)
          /\ Room(m, rb.pwrite) <= Room(Pread(d), rb.pwrite)
          /\ wpc \in Reading => request.todo \in 0 .. Room(rb.min_pread, rb.pwrite)
      BY <1>1, <2>3 DEF KeptClear
    <3>2. rb.pwrite \in Position
      BY PlacesTyped, RingTyped DEF StreamInv
    <3>3. Room(rb.min_pread, rb.pwrite) \in Int /\ Room(m, rb.pwrite) \in Int
      <4>. HIDE DEF m
      <4>. QED BY <3>1, <3>2, RoomRange
    <3>. QED BY <3>1, <3>2, <3>3
  <2>6. wpc \in Reading => request.todo \in 0 .. Room(m, rb.pwrite)
    BY <2>5
  <2>7. Room(Pread(d)', rb.pwrite) = Room(Pread(d), rb.pwrite)
    BY <2>4
  <2>8. KeptClear(d)'
    BY <1>1, <1>3, <2>1, <2>3, <2>4, <2>5, <2>6, <2>7 DEF KeptClear, writerVars
  <2>9. Owed(d)'
    BY <1>1, <1>3, <2>2, <2>3, <2>4 DEF Owed, writerVars
  <2>10. Sends(d)'
    <3>1. CASE d = c
      BY <1>2, <3>1 DEF Sends, Writing
    <3>2. CASE d # c
      BY <1>1, <2>1, <2>3, <2>4, <3>2 DEF Sends, Keeps, Alone
    <3>. QED BY <3>1, <3>2
  <2>. QED BY <2>8, <2>9, <2>10
<1>. QED BY <1>1, <1>4, <1>5 DEF StreamInv
-----------------------------------------------------------------------------
(* Storing n bytes that fit in front of p leaves what waits behind p alone. *)
LEMMA OldCell ==
  ASSUME NEW p \in Position, NEW w \in Position, NEW n \in 0 .. Room(p, w), w + n <= Size,
         NEW i \in 0 .. Size - 1 - Room(p, w) - 1
  PROVE  (p + i) % Size \in Position /\ ~ (w <= (p + i) % Size /\ (p + i) % Size < w + n)
<1>1. Room(p, w) \in 0 .. Size - 1 /\ i \in Position
  BY RoomRange, SizeAssumption DEF Position
<1>. DEFINE q == (p + i) % Size
<1>2. q = IF p + i < Size THEN p + i ELSE p + i - Size
  BY <1>1, Cell
<1>. HIDE DEF q
<1>3. q \in Position /\ ~ (w <= q /\ q < w + n)
  BY <1>1, <1>2, SizeAssumption DEF Room, Position
<1>. QED BY <1>3 DEF q

LEMMA NewCell ==
  ASSUME NEW p \in Position, NEW w \in Position, NEW n \in 0 .. Room(p, w), w + n <= Size,
         NEW i \in Nat, Size - 1 - Room(p, w) <= i, i < Size - 1 - Room(p, w) + n
  PROVE  (p + i) % Size = w + (i - (Size - 1 - Room(p, w)))
<1>1. Room(p, w) \in 0 .. Size - 1
  BY RoomRange
<1>2. i \in Position
  BY <1>1, SizeAssumption DEF Position
<1>. DEFINE q == (p + i) % Size
<1>3. q = IF p + i < Size THEN p + i ELSE p + i - Size
  BY <1>2, Cell
<1>. HIDE DEF q
<1>4. q = w + (i - (Size - 1 - Room(p, w)))
  BY <1>1, <1>2, <1>3, SizeAssumption DEF Room, Position
<1>. QED BY <1>4 DEF q

(* read() returned n. *)
LEMMA FillInv ==
  ASSUME StreamInv, Places', NEW n \in Nat, wpc \in Reading,
         rb' = FillStep(rb, written, n), written' = written + n,
         UNCHANGED <<mutex, clientVars, rpos, damaged>>, exposed \subseteq exposed',
         Unexposed' # {} => /\ n <= request.todo /\ rb.pwrite + n <= Size
                            /\ wpc' \in Reading => request'.todo = request.todo - n
  PROVE  StreamInv'
<1>1. /\ rb'.readers = rb.readers /\ rb'.pread = rb.pread /\ rb'.min_pread = rb.min_pread
      /\ rb'.pwrite = (rb.pwrite + n) % Size /\ rb'.data = Fill(rb.data, rb.pwrite, written, n)
      /\ rb.pwrite \in Position /\ written \in Nat
  <2>1. rb \in ringbuffer /\ written \in Nat
    BY PlacesTyped DEF StreamInv
  <2>. QED BY <2>1, Filled, RingTyped
<1>2. LossHasCause'
  BY DEF LossHasCause, StreamInv
<1>3. ASSUME NEW d \in Unexposed' PROVE KeptClear(d)' /\ Owed(d)' /\ Sends(d)'
  <2>. DEFINE w == rb.pwrite
              v == rb'.pwrite
              p == Pread(d)
              room == Room(rb.min_pread, w)
  <2>1. d \in Unexposed /\ d \in Attached /\ loc' = loc /\ pc' = pc /\ SharedWith(d)' = SharedWith(d)
    BY DEF Unexposed, Attached, SharedWith, clientVars
  <2>2. KeptClear(d) /\ Owed(d) /\ Sends(d)
    BY <2>1 DEF StreamInv
  <2>3. /\ n <= request.todo /\ w + n <= Size
        /\ wpc' \in Reading => request'.todo = request.todo - n
    BY <1>3
  <2>4. p \in Position /\ w \in Position /\ Room(p, w) \in 0 .. Size - 1 /\ d \in Client
    BY <2>1, PreadTyped DEF StreamInv
  <2>5. Pread(d)' = p
    BY <1>1, <2>1 DEF Pread
  <2>6. /\ rb.min_pread \in Position /\ room <= Room(p, w) /\ room \in 0 .. Size - 1
        /\ n \in 0 .. room /\ request.todo \in 0 .. room
    <3>1. rb.min_pread \in Position /\ room <= Room(p, w) /\ request.todo \in 0 .. room
      BY <2>2 DEF KeptClear
    <3>2. room \in 0 .. Size - 1
      BY <2>4, <3>1, RoomRange
    <3>. QED BY <2>3, <3>1, <3>2, SizeAssumption
  <2>7. Room(rb.min_pread, v) = room - n
    BY <1>1, <2>3, <2>4, <2>6, RoomFilled
  <2>8. Room(p, v) = Room(p, w) - n /\ n \in 0 .. Room(p, w)
    <3>1. n \in 0 .. Room(p, w)
      BY <2>4, <2>6
    <3>. HIDE DEF p
    <3>. QED BY <1>1, <2>3, <2>4, <3>1, RoomFilled
  <2>9. ASSUME NEW e \in mutex
        PROVE  /\ loc[e].min_pread \in Position
               /\ room - n <= Room(loc[e].min_pread, v)
               /\ Room(loc[e].min_pread, v) <= Room(p, w) - n
    <3>. DEFINE m == loc[e].min_pread
    <3>1. m \in Position /\ room <= Room(m, w) /\ Room(m, w) <= Room(p, w)
      BY <2>2 DEF KeptClear
    <3>. HIDE DEF m
    <3>2. Room(m, w) \in 0 .. Size - 1
      BY <2>4, <3>1, RoomRange
    <3>3. n \in 0 .. Room(m, w)
      BY <2>6, <3>1, <3>2
    <3>4. Room(m, v) = Room(m, w) - n
      BY <1>1, <2>3, <2>4, <3>1, <3>3, RoomFilled
    <3>5. m \in Position /\ room - n <= Room(m, v) /\ Room(m, v) <= Room(p, w) - n
      BY <2>4, <2>6, <3>1, <3>2, <3>4, SizeAssumption
    <3>. QED BY <3>5 DEF m
  <2>10. wpc' \in Reading => request'.todo \in 0 .. room - n
    BY <2>3, <2>6, SizeAssumption
  <2>11. KeptClear(d)'
    <3>1. Decides(loc'[d].rd, rb'.readers) /\ SharedWith(d)' = {} /\ rb'.min_pread \in Position
      BY <1>1, <2>1, <2>2 DEF KeptClear
    <3>2. Room(rb'.min_pread, rb'.pwrite) = room - n
      BY <1>1, <2>7
    <3>3. Room(Pread(d)', rb'.pwrite) = Room(p, w) - n
      BY <2>5, <2>8
    <3>4. room - n <= Room(p, w) - n
      BY <2>4, <2>6, SizeAssumption
    <3>5. ASSUME NEW e \in mutex'
          PROVE  /\ loc'[e].min_pread \in Position
                 /\ room - n <= Room(loc'[e].min_pread, rb'.pwrite)
                 /\ Room(loc'[e].min_pread, rb'.pwrite) <= Room(p, w) - n
      BY <2>1, <2>9
    <3>. HIDE DEF room, p, w, v
    <3>. QED BY <2>10, <3>1, <3>2, <3>3, <3>4, <3>5 DEF KeptClear
  <2>12. Pending(d) = Size - 1 - Room(p, w) /\ Pending(d)' = Pending(d) + n
    BY <2>4, <2>5, <2>8, SizeAssumption DEF Pending
  <2>13. rpos'[d] + Pending(d)' = written' /\ rpos[d] \in Nat /\ Pending(d) \in 0 .. Size - 1
         /\ written = rpos[d] + Pending(d)
    <3>1. rpos[d] \in Nat /\ written = rpos[d] + Pending(d) /\ Pending(d) \in 0 .. Size - 1
      BY <2>1, <2>2, <2>4, PreadTyped, PlacesTyped, MaxBytesAssumption DEF Owed, StreamInv
    <3>. QED BY <2>12, <3>1, SizeAssumption
  <2>14. ASSUME NEW i \in 0 .. Pending(d)' - 1
         PROVE  rb'.data[(Pread(d)' + i) % Size] = rpos'[d] + i
    <3>. DEFINE q == (p + i) % Size
    <3>1. i \in Nat /\ i < Pending(d) + n
      BY <2>12, <2>13, SizeAssumption
    <3>2. p + i \in Nat
      BY <2>4, <3>1, SizeAssumption DEF Position
    <3>3. q \in Position
      BY <3>2, WrapRange
    <3>4. rb'.data[q] = IF w <= q /\ q < w + n THEN written + (q - w) ELSE rb.data[q]
      <4>. HIDE DEF q
      <4>. QED BY <1>1, <3>3 DEF Fill
    <3>5. CASE i < Pending(d)
      <4>1. i \in 0 .. Size - 1 - Room(p, w) - 1 /\ i \in 0 .. Pending(d) - 1
        BY <2>4, <2>12, <2>13, <3>1, <3>5, SizeAssumption
      <4>2. ~ (w <= q /\ q < w + n)
        <5>. HIDE DEF p, w
        <5>. QED BY <2>3, <2>4, <2>8, <4>1, OldCell
      <4>3. rb.data[q] = rpos[d] + i
        BY <2>2, <4>1 DEF Owed
      <4>. QED BY <2>5, <3>4, <4>2, <4>3
    <3>6. CASE ~ (i < Pending(d))
      <4>1. q = w + (i - Pending(d))
        <5>1. Size - 1 - Room(p, w) <= i /\ i < Size - 1 - Room(p, w) + n
          BY <2>12, <2>13, <3>1, <3>6, SizeAssumption
        <5>2. q = w + (i - (Size - 1 - Room(p, w)))
          <6>. HIDE DEF p, w
          <6>. QED BY <2>3, <2>4, <2>8, <3>1, <5>1, NewCell
        <5>. QED BY <2>12, <5>2
      <4>2. w <= q /\ q < w + n /\ written + (q - w) = rpos[d] + i
        <5>. HIDE DEF q, w
        <5>. QED BY <2>4, <2>13, <3>1, <3>6, <4>1, SizeAssumption DEF Position
      <4>. QED BY <2>5, <3>4, <4>2
    <3>. QED BY <3>5, <3>6
  <2>15. Owed(d)'
    BY <2>13, <2>14 DEF Owed
  <2>16. Sends(d)'
    <3>1. pc[d] \in Writing => loc[d].todo <= Pending(d) /\ loc[d].todo \in Nat
      BY <2>2, <2>4, PlacesTyped, SizeAssumption DEF Sends, Local, StreamInv
    <3>2. pc[d] \in Writing => loc[d].todo <= Pending(d) + n
      BY <2>13, <3>1, SizeAssumption
    <3>. QED BY <2>1, <2>2, <2>5, <2>12, <3>2 DEF Sends
  <2>. QED BY <2>11, <2>15, <2>16
<1>. QED BY <1>2, <1>3 DEF StreamInv

LEMMA Read1Inv == ASSUME StreamInv, NEW n \in 0 .. MaxBytes, Read1(n) PROVE StreamInv'
<1>1. n \in Nat
  BY MaxBytesAssumption
<1>2. /\ Places' /\ n <= request.split /\ request'.todo = request.todo - n
      /\ wpc = "read1" /\ request.split = Size - rb.pwrite
  BY <1>1, Read1Places DEF StreamInv
<1>3. UNCHANGED <<mutex, clientVars, rpos, damaged>> /\ exposed' = exposed
  BY DEF Read1, historyVars
<1>4. Unexposed' # {} => n <= request.todo /\ rb.pwrite + n <= Size
  <2> SUFFICES ASSUME NEW d \in Unexposed' PROVE n <= request.todo /\ rb.pwrite + n <= Size
    OBVIOUS
  <2>1. d \in Unexposed
    BY <1>3 DEF Unexposed, Attached, clientVars
  <2>2. KeptClear(d) /\ rb.pwrite \in Position /\ request.todo \in Int /\ request.split \in Nat
    BY <2>1, PlacesTyped, RingTyped, SizeAssumption DEF StreamInv
  <2>3. request.todo >= 0
    BY <1>2, <2>2 DEF KeptClear, Reading
  <2>4. request.split <= request.todo
    BY <1>2, <2>3 DEF StreamInv, Places, WriterLocals
  <2>. QED BY <1>1, <1>2, <2>2, <2>4, SizeAssumption DEF Position
<1>. QED BY <1>1, <1>2, <1>3, <1>4, FillInv DEF Read1, Reading

LEMMA Read2Inv == ASSUME StreamInv, NEW n \in 0 .. MaxBytes, Read2(n) PROVE StreamInv'
<1>1. n \in Nat
  BY MaxBytesAssumption
<1>2. Places' /\ n <= request.todo /\ wpc = "read2" /\ wpc' = "select"
  BY <1>1, Read2Places DEF StreamInv
<1>3. UNCHANGED <<mutex, clientVars, rpos, damaged>> /\ exposed \subseteq exposed'
  BY DEF Read2
<1>4. Unexposed' # {} => rb.pwrite + n <= Size
  <2>1. Attached' = Attached
    BY <1>3 DEF Attached, clientVars
  <2>2. rb.pwrite + n > Size => Unexposed' = {}
    BY <2>1 DEF Unexposed, Read2
  <2>3. rb.pwrite \in Position
    BY PlacesTyped, RingTyped DEF StreamInv
  <2>. QED BY <1>1, <2>2, <2>3, SizeAssumption DEF Position
<1>. QED BY <1>1, <1>2, <1>3, <1>4, FillInv DEF Read2, Reading

(* Steps of the writer that store nothing. *)
LEMMA IdleStep ==
  ASSUME StreamInv, Places', UNCHANGED <<rb, mutex, written, clientVars, historyVars>>,
         \A d \in Unexposed : wpc' \in Reading => request'.todo \in 0 .. Room(rb.min_pread, rb.pwrite)
  PROVE  StreamInv'
<1>1. LossHasCause'
  BY DEF LossHasCause, StreamInv, historyVars
<1>2. ASSUME NEW d \in Unexposed' PROVE KeptClear(d)' /\ Owed(d)' /\ Sends(d)'
  <2>1. d \in Unexposed /\ SharedWith(d)' = SharedWith(d) /\ Pread(d)' = Pread(d) /\ Pending(d)' = Pending(d)
    BY DEF Unexposed, SharedWith, Attached, Pread, Pending, Room, clientVars, historyVars
  <2>2. KeptClear(d) /\ Owed(d) /\ Sends(d)
    BY <2>1 DEF StreamInv
  <2>3. KeptClear(d)'
    BY <2>1, <2>2 DEF KeptClear, Room, clientVars
  <2>4. Owed(d)' /\ Sends(d)'
    BY <2>1, <2>2 DEF Owed, Sends, clientVars, historyVars
  <2>. QED BY <2>3, <2>4
<1>. QED BY <1>1, <1>2 DEF StreamInv

LEMMA RequestInv == ASSUME StreamInv, Request PROVE StreamInv'
<1>1. /\ Places' /\ request'.todo = ringbuffer_free(rb)
      /\ UNCHANGED <<rb, mutex, written, clientVars, historyVars>>
  BY RequestPlaces DEF StreamInv
<1>2. ASSUME NEW d \in Unexposed
      PROVE  request'.todo \in 0 .. Room(rb.min_pread, rb.pwrite)
  <2>1. rb.readers # {} /\ rb.min_pread \in Position
    BY DEF StreamInv, KeptClear, Decides, Highest
  <2>2. rb \in ringbuffer /\ rb.pwrite \in Position
    BY PlacesTyped, RingTyped DEF StreamInv
  <2>3. Room(rb.min_pread, rb.pwrite) \in 0 .. Size - 1
    BY <2>1, <2>2, RoomRange
  <2>. QED BY <1>1, <2>1, <2>2, <2>3, FreeRoom
<1>. QED BY <1>1, <1>2, IdleStep

LEMMA WriterStartInv == ASSUME StreamInv, WriterStart PROVE StreamInv'
<1>1. Places' /\ wpc' \notin Reading /\ UNCHANGED <<rb, mutex, written, clientVars, historyVars>>
  BY WriterStartPlaces DEF StreamInv, WriterStart, Reading, ringVars
<1>. QED BY <1>1, IdleStep

LEMMA ReadFailsInv == ASSUME StreamInv, ReadFails PROVE StreamInv'
<1>1. Places' /\ wpc' \notin Reading /\ UNCHANGED <<rb, mutex, written, clientVars, historyVars>>
  BY ReadFailsPlaces DEF StreamInv, ReadFails, Reading, ringVars
<1>. QED BY <1>1, IdleStep
-----------------------------------------------------------------------------
LEMMA InitInv == Init => StreamInv
<1> SUFFICES ASSUME Init PROVE StreamInv
  OBVIOUS
<1>1. rb \in ringbuffer
  BY SizeAssumption DEF Init, ringbuffer_init, ringbuffer, Position, Blank
<1>2. NoLocals \in Local
  BY Zero DEF NoLocals, Local, Slot
<1>3. "new" \in ClientPC /\ "start" \in WriterPC
  BY Somewhere DEF WriterPC
<1>4. pc \in [Client -> ClientPC] /\ loc \in [Client -> Local] /\ \A c \in Client : pc[c] = "new" /\ loc[c] = NoLocals
  BY <1>2, <1>3 DEF Init
<1>5. TypeOK
  <2>1. request \in [todo : Int, split : 0 .. Size]
    BY SizeAssumption DEF Init, NoRequest
  <2>2. rpos \in [Client -> 0 .. MaxBytes] /\ written \in 0 .. MaxBytes
    BY MaxBytesAssumption DEF Init
  <2>. QED BY <1>1, <1>3, <1>4, <2>1, <2>2 DEF Init, TypeOK, Local, Slot, Bits, Minimum
<1>6. Locked /\ WriterLocals
  BY <1>4 DEF Init, Locked, WriterLocals
<1>7. ASSUME NEW c \in Client PROVE ClientLocals(c) /\ c \notin Attached
  BY <1>4 DEF ClientLocals, NoLocals, Writing, Attached, Sending, Updating
<1>8. Unexposed = {} /\ LossHasCause
  BY <1>7 DEF Unexposed, Attached, Init, LossHasCause
<1>. QED BY <1>5, <1>6, <1>7, <1>8 DEF StreamInv, Places

LEMMA StutterInv == ASSUME StreamInv, UNCHANGED vars PROVE StreamInv'
<1>. USE DEF vars, ringVars, writerVars, clientVars, historyVars
<1>1. Places'
  BY DEF StreamInv, Places, TypeOK, Locked, WriterLocals, ClientLocals
<1>2. wpc' \in Reading => \A d \in Unexposed : request'.todo \in 0 .. Room(rb.min_pread, rb.pwrite)
  BY DEF StreamInv, KeptClear
<1>. QED BY <1>1, <1>2, IdleStep

LEMMA NextInv == ASSUME StreamInv, [Next]_vars PROVE StreamInv'
<1>1. CASE Writer
  BY <1>1, WriterStartInv, RequestInv, Read1Inv, Read2Inv, ReadFailsInv DEF Writer
<1>2. ASSUME NEW c \in Client, Connect(c) PROVE StreamInv'
  BY <1>2, ConnectInv
<1>3. ASSUME NEW c \in Client, Thread(c) PROVE StreamInv'
  <2>1. CASE Scan(c) \/ Mark(c) \/ Place(c)
    BY <2>1, ScanInv, MarkInv, PlaceInv
  <2>2. CASE Inactive(c) \/ InputReady(c) \/ NoSlot(c)
    BY <2>2, LeaveInv, InputReadyInv
  <2>3. CASE \E n \in 1 .. Size : Write1(c, n) \/ Write2(c, n)
    BY <2>3, Write1Inv, Write2Inv
  <2>4. CASE WriteFails(c) \/ UpdateSkips(c) \/ UpdateNeeded(c)
    BY <2>4, WriteFailsInv, UpdateSkipsInv, UpdateNeededInv
  <2>5. CASE MinLoad(c) \/ MinStore(c) \/ CloseLoad(c) \/ CloseStore(c)
    BY <2>5, MinLoadInv, MinStoreInv, CloseLoadInv, CloseStoreInv
  <2>. QED BY <1>3, <2>1, <2>2, <2>3, <2>4, <2>5 DEF Thread
<1>. QED BY <1>1, <1>2, <1>3, StutterInv DEF Next

LEMMA StreamInvariant == Spec => []StreamInv
<1>1. StreamInv /\ [Next]_vars => StreamInv'
  BY NextInv
<1>. QED BY InitInv, <1>1, PTL DEF Spec
-----------------------------------------------------------------------------
(* The fields of the ring buffer, the locals of ringbuffer_readfd and of each
   fdstream_body keep to their types: no position leaves data, and a client sends at
   most what the buffer holds, however the threads interleave. *)
THEOREM StreamTypes == Spec => []TypeOK
<1>1. StreamInv => TypeOK
  BY DEF StreamInv, Places
<1>. QED BY <1>1, StreamInvariant, PTL

(* A client of fdstream_body that is sent anything but the input from its
   ringbuffer_open on, in order, had one of the causes in exposed apply to it. *)
THEOREM EveryLossHasCause == Spec => []LossHasCause
<1>1. StreamInv => LossHasCause
  BY DEF StreamInv
<1>. QED BY <1>1, StreamInvariant, PTL

(* Neither the rest of a ringbuffer_readfd in progress nor what ringbuffer_free would
   offer next reaches what such a client has yet to be sent, although the threads move
   min_pread and readers without the writer taking the mutex. *)
THEOREM WriterAlwaysKeepsClear == Spec => []WriterKeepsClear
<1>1. StreamInv => WriterKeepsClear
  <2> SUFFICES ASSUME StreamInv, NEW c \in Attached \ exposed
               PROVE  LET room == Size - 1 - ringbuffer_avail(rb, loc[c].rd)
                      IN  /\ ringbuffer_free(rb) <= room
                          /\ wpc \in {"read1", "read2"} => request.todo \in 0 .. room
    BY DEF WriterKeepsClear
  <2>1. /\ rb \in ringbuffer /\ loc[c].rd \in Descriptor /\ rb.pwrite \in Position
        /\ Room(Pread(c), rb.pwrite) \in 0 .. Size - 1
    BY PreadTyped, PlacesTyped DEF StreamInv
  <2>2. Size - 1 - ringbuffer_avail(rb, loc[c].rd) = Room(Pread(c), rb.pwrite)
    BY <2>1, AvailRoom, SizeAssumption DEF Pread
  <2>3. KeptClear(c)
    BY DEF StreamInv, Unexposed
  <2>4. rb.readers # {} /\ rb.min_pread \in Position
    BY <2>3 DEF KeptClear, Decides, Highest
  <2>5. ringbuffer_free(rb) = Room(rb.min_pread, rb.pwrite) /\ Room(rb.min_pread, rb.pwrite) \in 0 .. Size - 1
    BY <2>1, <2>4, FreeRoom, RoomRange
  <2>6. /\ Room(rb.min_pread, rb.pwrite) <= Room(Pread(c), rb.pwrite)
        /\ wpc \in {"read1", "read2"} => request.todo \in 0 .. Room(rb.min_pread, rb.pwrite)
    BY <2>3 DEF KeptClear, Reading
  <2>. QED BY <2>1, <2>2, <2>5, <2>6, SizeAssumption
<1>. QED BY <1>1, StreamInvariant, PTL
=============================================================================
