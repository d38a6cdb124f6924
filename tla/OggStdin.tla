------------------------------ MODULE OggStdin ------------------------------
(***************************************************************************)
(* An <OggStdin> stream.  liboggz calls oggstdin_read_page for each page   *)
(* of standard input: header pages go to a temporary file, all others to   *)
(* the ring buffer.  A client's thread, in oggstdin_body, waits until no   *)
(* headers are being collected, sends the file and goes on from the ring   *)
(* buffer.  Nothing is locked: clients come between any two accesses to    *)
(* in_headers, headers_len, the file and the fields of the ring buffer.    *)
(* Only ringbuffer_update_min goes with the step before it: what it stores *)
(* is never read here, where nobody asks for ringbuffer_free.              *)
(***************************************************************************)
EXTENDS RingBuffer, FiniteSets, Sequences

CONSTANTS
    Client,      \* bound: the connections
    Serial,      \* logical streams that a link of the input may have
    NumHeaders,  \* what oggz_stream_get_numheaders says of each stream of each link
    MaxLinks,    \* bound: links of the input
    MaxEmpty,    \* bound: pages of a link on which no packet ends
    MaxData,     \* bound: data pages of the input
    MaxPiece,    \* the length of a page's header or body, in units of the ring buffer
    MaxSignals   \* bound: interrupts, of which the first is the last

ASSUME BoundsAssumption  == /\ MaxLinks \in Nat /\ MaxEmpty \in Nat /\ MaxData \in Nat
                            /\ MaxSignals \in 0 .. 1

\* The ring buffer has 2 MiB, a page at most 65307 bytes.
ASSUME PieceAssumption   == MaxPiece \in 1 .. Size - 1

\* A stream begins with a header: its bos page.
ASSUME HeadersAssumption ==
    /\ IsFiniteSet(Serial) /\ Serial # {}
    /\ NumHeaders \in [1 .. MaxLinks -> [Serial -> Nat \ {0}]]

VARIABLES
    source,       \* the input: link, headers each stream has yet to bring, pages sent,
                  \* and which of these came before the headers were last complete
    page,         \* the page oggstdin_read_page has been given
    wpc,          \* where the thread that runs it is
    in_headers, headers_len, tracker,
    file,         \* content of headers_fd, a cell for each page
    rb, active,   \* active is an int: 1, 0, or what a client without descriptor made it
    piece,        \* locals of ringbuffer_write: bytes copied but not in pwrite, bytes left
    written,      \* bytes that pwrite has gone over
    handler,      \* where the signal handler is
    pc, loc, rpos,
    headless,     \* history: clients that went live without the headers of the link
    excused,      \* history: clients to which one of the causes for that applies
    damaged,      \* history: clients that were sent a wrong byte
    lapped,       \* history: clients that once were a whole buffer behind
    shared,       \* history: clients whose descriptor another one read from too
    overlapped,   \* history: has an update of readers begun within another one?
    late,         \* history: pages that arrived after the signal
    shifted       \* history: has a client without descriptor moved active?

sourceVars  == <<source, page>>
headerVars  == <<in_headers, headers_len, tracker, file>>
ringVars    == <<rb, piece, written>>
stopVars    == <<active, handler, late, shifted>>
clientVars  == <<pc, loc, rpos>>
historyVars == <<headless, excused, damaged, lapped, shared, overlapped>>
vars == <<sourceVars, wpc, headerVars, ringVars, stopVars, clientVars, historyVars>>

Absent   == -1                      \* a stream the link does not have
NoPage   == [link |-> 0, serial |-> CHOOSE s \in Serial : TRUE, bos |-> FALSE, packets |-> 0]
NoLocals == [rd |-> NoDescriptor, len |-> 0, got |-> <<>>, seen |-> {}, todo |-> 0, split |-> 0]
NoPiece  == [filled |-> 0, todo |-> 0]
Link     == 0 .. MaxLinks

Init ==
    /\ source = [link |-> 0, left |-> [s \in Serial |-> Absent],
                 pages |-> <<>>, lost |-> 0, open |-> FALSE, empty |-> 0, data |-> 0]
    /\ page = NoPage
    /\ wpc = "next"
    /\ in_headers = 0
    /\ headers_len = 0
    /\ tracker = [s \in Link \X Serial |-> 0]
    /\ file = <<>>
    /\ rb = ringbuffer_init
    /\ active = 1
    /\ piece = NoPiece
    /\ written = 0
    /\ handler = "idle"
    /\ pc = [c \in Client |-> "new"]
    /\ loc = [c \in Client |-> NoLocals]
    /\ rpos = [c \in Client |-> 0]
    /\ headless = {}
    /\ excused = {}
    /\ damaged = {}
    /\ lapped = {}
    /\ shared = {}
    /\ overlapped = FALSE
    /\ late = 0
    /\ shifted = FALSE

\* Clients that read through a descriptor whose pread they have set.
Reading == {c \in Client : /\ pc[c] \in {"test", "live", "avail", "write1", "write2"}
                           /\ loc[c].rd # NoDescriptor}

\* Clients between a load of readers and the store that goes with it.
Updating == {c \in Client : pc[c] \in {"mark", "unmark"}}

Alive == handler # "killed"
-----------------------------------------------------------------------------
(***************************************************************************)
(* The input, a well-formed chained Ogg stream: a link starts with the bos *)
(* pages of its streams, one header packet each; their other headers       *)
(* follow, in pages on which any number of packets ends; then come data.   *)
(***************************************************************************)
Collecting(src) == \E s \in Serial : src.left[s] > 0

\* The bos page of stream s: of the link being opened, or of a new link. A stream
\* that has no other header leaves nothing to collect before the next bos page.
BosPage(s) ==
    \/ /\ source.open
       /\ source.left[s] = Absent
       /\ source' = [source EXCEPT !.left[s] = NumHeaders[source.link][s] - 1,
                                   !.pages = Append(@, <<source.link, Len(@)>>),
                                   !.lost = IF Collecting(source) THEN @ ELSE Len(source.pages)]
       /\ page' = [link |-> source.link, serial |-> s, bos |-> TRUE, packets |-> 1]
       /\ UNCHANGED excused
    \/ /\ ~ Collecting(source)
       /\ source.link < MaxLinks
       /\ source' = [source EXCEPT
                        !.link = @ + 1, !.open = TRUE, !.empty = 0,
                        !.left = [q \in Serial |-> IF q = s THEN NumHeaders[source.link + 1][s] - 1
                                                  ELSE Absent],
                        !.pages = <<<<source.link + 1, 0>>>>, !.lost = 0]
       /\ page' = [link |-> source.link + 1, serial |-> s, bos |-> TRUE, packets |-> 1]
       /\ excused' = excused \cup {c \in Client : pc[c] \in {"load", "send", "open", "mark", "place"}}

HeaderPage(s) ==
    /\ source.left[s] > 0
    /\ \E packets \in 0 .. source.left[s] :
          /\ packets = 0 => source.empty < MaxEmpty
          /\ source' = [source EXCEPT !.left[s] = @ - packets, !.open = FALSE,
                                      !.empty = IF packets = 0 THEN @ + 1 ELSE @,
                                      !.pages = Append(@, <<source.link, Len(@)>>)]
          /\ page' = [link |-> source.link, serial |-> s, bos |-> FALSE, packets |-> packets]
    /\ UNCHANGED excused

DataPage(s) ==
    /\ source.left[s] = 0
    /\ ~ Collecting(source)
    /\ source.data < MaxData
    /\ source' = [source EXCEPT !.data = @ + 1, !.open = FALSE]
    /\ page' = [link |-> source.link, serial |-> s, bos |-> FALSE, packets |-> 1]
    /\ UNCHANGED excused

\* oggz_run reads the next page and calls oggstdin_read_page.
Arrive(s) ==
    /\ wpc = "next"
    /\ BosPage(s) \/ HeaderPage(s) \/ DataPage(s)
    /\ wpc' = IF page'.bos
              THEN IF in_headers = 0 THEN "reset" ELSE "count"
              ELSE IF in_headers # 0 THEN "store" ELSE "ringhead"
    /\ late' = IF active # 0 THEN late ELSE late + 1
    /\ UNCHANGED <<headerVars, ringVars, active, handler, shifted, clientVars,
                   headless, damaged, lapped, shared, overlapped>>

\* Standard input ends, and with it oggz_run and the thread.
EndOfInput ==
    /\ wpc = "next"
    /\ wpc' = "closed"
    /\ UNCHANGED <<sourceVars, headerVars, ringVars, stopVars, clientVars, historyVars>>
-----------------------------------------------------------------------------
\* The first bos page of a link: start the headers again.
Reset ==
    /\ wpc = "reset"
    /\ headers_len' = 0
    /\ wpc' = "count"
    /\ UNCHANGED <<sourceVars, in_headers, tracker, file, ringVars, stopVars, clientVars, historyVars>>

Count ==
    /\ wpc = "count"
    /\ in_headers' = in_headers + 1
    /\ wpc' = "store"
    /\ UNCHANGED <<sourceVars, headers_len, tracker, file, ringVars, stopVars, clientVars, historyVars>>

Stream(p) == <<p.link, p.serial>>

\* Mutant of Store: > for >=.
Store_Exceeds ==
    /\ wpc = "store"
    /\ tracker' = [tracker EXCEPT ![Stream(page)] = @ + page.packets]
    /\ file' = SubSeq(file, 1, headers_len)
                 \o <<source.pages[Len(source.pages)]>>
                 \o SubSeq(file, headers_len + 2, Len(file))
    /\ headers_len' = headers_len + 1
    /\ wpc' = IF tracker'[Stream(page)] > NumHeaders[page.link][page.serial] THEN "leave" ELSE "return"
    /\ UNCHANGED <<sourceVars, in_headers, ringVars, stopVars, clientVars, historyVars>>

\* Mutant of Store: it counts pages.
Store_CountsPages ==
    /\ wpc = "store"
    /\ tracker' = [tracker EXCEPT ![Stream(page)] = @ + 1]
    /\ file' = SubSeq(file, 1, headers_len)
                 \o <<source.pages[Len(source.pages)]>>
                 \o SubSeq(file, headers_len + 2, Len(file))
    /\ headers_len' = headers_len + 1
    /\ wpc' = IF tracker'[Stream(page)] >= NumHeaders[page.link][page.serial] THEN "leave" ELSE "return"
    /\ UNCHANGED <<sourceVars, in_headers, ringVars, stopVars, clientVars, historyVars>>

\* Count the packets that end on the page, and append the page to the file: the
\* file's own offset is where headers_len points.
Store ==
    /\ wpc = "store"
    /\ tracker' = [tracker EXCEPT ![Stream(page)] = @ + page.packets]
    /\ file' = SubSeq(file, 1, headers_len)
                 \o <<source.pages[Len(source.pages)]>>
                 \o SubSeq(file, headers_len + 2, Len(file))
    /\ headers_len' = headers_len + 1
    /\ wpc' = IF tracker'[Stream(page)] >= NumHeaders[page.link][page.serial] THEN "leave" ELSE "return"
    /\ UNCHANGED <<sourceVars, in_headers, ringVars, stopVars, clientVars, historyVars>>

Leave ==
    /\ wpc = "leave"
    /\ in_headers' = in_headers - 1
    /\ wpc' = "return"
    /\ UNCHANGED <<sourceVars, headers_len, tracker, file, ringVars, stopVars, clientVars, historyVars>>

\* ringbuffer_write for the header and then the body of a data page, without a look
\* at ringbuffer_free: a memcpy,
RingFill ==
    /\ wpc \in {"ringhead", "ringbody"}
    /\ piece.filled = 0
    /\ \E len \in IF piece.todo > 0 THEN {piece.todo} ELSE 1 .. MaxPiece :
          LET split == Split(rb.pwrite, len)
              n     == IF split > 0 THEN split ELSE len
          IN  /\ rb' = [rb EXCEPT !.data = Fill(@, rb.pwrite, written, n)]
              /\ piece' = [filled |-> n, todo |-> len - n]
              /\ lapped' = lapped \cup {c \in Reading : written + n - rpos[c] >= Size}
    /\ UNCHANGED <<sourceVars, wpc, headerVars, written, stopVars, clientVars,
                   headless, excused, damaged, shared, overlapped>>

\* the store of pwrite, and the same for what is to go to the start of data.
RingStore ==
    /\ wpc \in {"ringhead", "ringbody"}
    /\ piece.filled > 0
    /\ rb' = [rb EXCEPT !.pwrite = (@ + piece.filled) % Size]
    /\ written' = written + piece.filled
    /\ piece' = [piece EXCEPT !.filled = 0]
    /\ wpc' = IF piece.todo > 0 THEN wpc ELSE IF wpc = "ringhead" THEN "ringbody" ELSE "return"
    /\ UNCHANGED <<sourceVars, headerVars, stopVars, clientVars, historyVars>>

\* Mutant of Return: always OGGZ_CONTINUE.
Return_Continues ==
    /\ wpc = "return"
    /\ wpc' = "next"
    /\ UNCHANGED <<sourceVars, headerVars, ringVars, stopVars, clientVars, historyVars>>

\* OGGZ_CONTINUE, or OGGZ_STOP_OK, after which oggz_run returns.
Return ==
    /\ wpc = "return"
    /\ wpc' = IF active # 0 THEN "next" ELSE "closed"
    /\ UNCHANGED <<sourceVars, headerVars, ringVars, stopVars, clientVars, historyVars>>

Writer ==
    /\ Alive
    /\ \/ \E s \in Serial : Arrive(s)
       \/ EndOfInput
       \/ Reset \/ Count \/ Store \/ Leave \/ RingFill \/ RingStore \/ Return
-----------------------------------------------------------------------------
Connect(c) ==
    /\ pc[c] = "new"
    /\ handler = "idle"
    /\ pc' = [pc EXCEPT ![c] = "wait"]
    /\ UNCHANGED <<loc, rpos, historyVars>>

\* Mutant of HeadersReady: no wait.
HeadersReady_AtOnce(c) ==
    /\ pc[c] = "wait"
    /\ pc' = [pc EXCEPT ![c] = "load"]
    /\ excused' = IF headers_len = 0 \/ wpc \in {"reset", "count"}
                  THEN excused \cup {c} ELSE excused
    /\ UNCHANGED <<loc, rpos, headless, damaged, lapped, shared, overlapped>>

\* The wait ends.  Before the first page there is nothing to wait for.
HeadersReady(c) ==
    /\ pc[c] = "wait"
    /\ in_headers = 0
    /\ pc' = [pc EXCEPT ![c] = "load"]
    /\ excused' = IF headers_len = 0 \/ wpc \in {"reset", "count"}
                  THEN excused \cup {c} ELSE excused
    /\ UNCHANGED <<loc, rpos, headless, damaged, lapped, shared, overlapped>>

LoadLength(c) ==
    /\ pc[c] = "load"
    /\ loc' = [loc EXCEPT ![c].len = headers_len]
    /\ pc' = [pc EXCEPT ![c] = "send"]
    /\ UNCHANGED <<rpos, historyVars>>

Sendfile(c) ==
    /\ pc[c] = "send"
    /\ \/ /\ loc' = [loc EXCEPT ![c] = [NoLocals EXCEPT !.got = SubSeq(file, 1, loc[c].len)]]
          /\ pc' = [pc EXCEPT ![c] = "open"]
       \/ /\ loc' = [loc EXCEPT ![c] = NoLocals]
          /\ pc' = [pc EXCEPT ![c] = "done"]
    /\ UNCHANGED <<rpos, historyVars>>

\* Back from ringbuffer_open.  The client has the headers when it was sent just the
\* header pages of the link the input is in, and the link has no more of them.
GoLive(c) ==
    /\ pc' = [pc EXCEPT ![c] = "test"]
    /\ rpos' = [rpos EXCEPT ![c] = written]
    /\ loc' = [loc EXCEPT ![c] = [NoLocals EXCEPT !.rd = loc[c].rd]]
    /\ headless' = IF loc[c].got = source.pages /\ ~ Collecting(source)
                   THEN headless ELSE headless \cup {c}
    /\ excused' = IF source.lost > 0 THEN excused \cup {c} ELSE excused

\* ringbuffer_open tests the bits of readers,
Scan(c) ==
    /\ pc[c] = "open"
    /\ \E rd \in Lowest(rb.readers) :
          loc' = [loc EXCEPT ![c].rd = rd, ![c].seen = rb.readers]
    /\ pc' = [pc EXCEPT ![c] = "mark"]
    /\ overlapped' = (overlapped \/ Updating # {})
    /\ UNCHANGED <<rb, rpos, headless, excused, damaged, lapped, shared>>

ScanFails(c) ==
    /\ pc[c] = "open"
    /\ Descriptor \subseteq rb.readers
    /\ GoLive(c)
    /\ UNCHANGED <<rb, damaged, lapped, shared, overlapped>>

\* sets one, in the value tested or in a fresh load,
Mark(c) ==
    /\ pc[c] = "mark"
    /\ \E readers \in {loc[c].seen, rb.readers} :
          rb' = [rb EXCEPT !.readers = readers \cup {loc[c].rd}]
    /\ pc' = [pc EXCEPT ![c] = "place"]
    /\ loc' = [loc EXCEPT ![c].seen = {}]
    /\ UNCHANGED <<rpos, historyVars>>

\* Mutant of Place: the descriptor goes on from where it was closed.
Place_Stale(c) ==
    LET others == {d \in Reading \ {c} : loc[d].rd = loc[c].rd}
    IN  /\ pc[c] = "place"
        /\ GoLive(c)
        /\ shared' = IF others = {} THEN shared ELSE shared \cup others \cup {c}
        /\ UNCHANGED <<rb, damaged, lapped, overlapped>>

\* and starts the descriptor at pwrite, from which another client may be reading by
\* the same one.
Place(c) ==
    LET others == {d \in Reading \ {c} : loc[d].rd = loc[c].rd}
    IN  /\ pc[c] = "place"
        /\ rb' = [rb EXCEPT !.pread[loc[c].rd] = rb.pwrite]
        /\ GoLive(c)
        /\ shared' = IF others = {} THEN shared ELSE shared \cup others \cup {c}
        /\ UNCHANGED <<damaged, lapped, overlapped>>

\* while (st->active)
TestActive(c) ==
    /\ pc[c] = "test"
    /\ pc' = [pc EXCEPT ![c] = IF active # 0 THEN "live" ELSE "close"]
    /\ UNCHANGED <<loc, rpos, historyVars>>

\* The buffer as clients read it: pread[-1], of one without a descriptor, is the field
\* before rb in struct oggstdin, active.
WithActive ==
    [rb EXCEPT !.pread = [d \in Descriptor \cup {NoDescriptor} |->
                             IF d = NoDescriptor THEN active ELSE rb.pread[d]]]

InputReady(c) ==
    /\ pc[c] = "live"
    /\ ringbuffer_avail(WithActive, loc[c].rd) # 0
    /\ pc' = [pc EXCEPT ![c] = "avail"]
    /\ UNCHANGED <<loc, rpos, historyVars>>

\* ringbuffer_writefd asks again.
Avail(c) ==
    LET todo  == ringbuffer_avail(WithActive, loc[c].rd)
        split == Split(WithActive.pread[loc[c].rd], todo)
    IN  /\ pc[c] = "avail"
        /\ loc' = [loc EXCEPT ![c].todo = todo, ![c].split = split]
        /\ pc' = [pc EXCEPT ![c] = IF todo = 0 THEN "test" ELSE IF split > 0 THEN "write1" ELSE "write2"]
        /\ UNCHANGED <<rpos, historyVars>>

\* The n cells from pread hold the bytes the client must be sent next.
Faithful(c, n) ==
    LET pread == rb.pread[loc[c].rd]
    IN  \A i \in 0 .. n - 1 : pread + i < Size /\ rb.data[pread + i] = rpos[c] + i

\* A write() that returned n, and the store to pread. A client sent more than was
\* written is damaged already; its count stops there.
Moved(c, n) == IF loc[c].rd = NoDescriptor THEN rb ELSE DrainStep(rb, loc[c].rd, n)

Sent(c, n) ==
    IF loc[c].rd = NoDescriptor
    THEN /\ active' = (active + n) % Size
         /\ shifted' = TRUE
         /\ UNCHANGED <<rpos, damaged>>
    ELSE /\ rpos' = [rpos EXCEPT ![c] = Smaller(@ + n, written)]
         /\ damaged' = IF Faithful(c, n) THEN damaged ELSE damaged \cup {c}
         /\ UNCHANGED <<active, shifted>>

\* Short of the end of data: a short write() ends the call.
Write1(c) ==
    /\ pc[c] = "write1"
    /\ \E n \in 1 .. loc[c].split :
          /\ Sent(c, n)
          /\ IF n = loc[c].split
             THEN /\ rb' = Moved(c, n)
                  /\ loc' = [loc EXCEPT ![c].todo = @ - n, ![c].split = 0]
                  /\ pc' = [pc EXCEPT ![c] = "write2"]
             ELSE /\ rb' \in ringbuffer_update_min(Moved(c, n))
                  /\ loc' = [loc EXCEPT ![c].todo = 0, ![c].split = 0]
                  /\ pc' = [pc EXCEPT ![c] = "test"]
    /\ UNCHANGED <<headless, excused, lapped, shared, overlapped>>

Write2(c) ==
    /\ pc[c] = "write2"
    /\ \E n \in 1 .. loc[c].todo :
          /\ Sent(c, n)
          /\ rb' \in ringbuffer_update_min(Moved(c, n))
    /\ loc' = [loc EXCEPT ![c].todo = 0]
    /\ pc' = [pc EXCEPT ![c] = "test"]
    /\ UNCHANGED <<headless, excused, lapped, shared, overlapped>>

\* write() fails: the peer is gone.
WriteFails(c) ==
    /\ pc[c] \in {"write1", "write2"}
    /\ loc' = [loc EXCEPT ![c].todo = 0, ![c].split = 0]
    /\ pc' = [pc EXCEPT ![c] = "close"]
    /\ UNCHANGED <<rpos, historyVars>>

\* ringbuffer_close, of descriptor -1 too: readers ^= 1 << readd, a load and a store.
CloseLoad(c) ==
    /\ pc[c] = "close"
    /\ loc' = [loc EXCEPT ![c].seen = rb.readers]
    /\ pc' = [pc EXCEPT ![c] = "unmark"]
    /\ overlapped' = (overlapped \/ Updating # {})
    /\ UNCHANGED <<rpos, headless, excused, damaged, lapped, shared>>

CloseStore(c) ==
    /\ pc[c] = "unmark"
    /\ rb' \in ringbuffer_update_min([rb EXCEPT !.readers = ToggleBit(loc[c].seen, loc[c].rd)])
    /\ pc' = [pc EXCEPT ![c] = "done"]
    /\ loc' = [loc EXCEPT ![c] = NoLocals]
    /\ rpos' = [rpos EXCEPT ![c] = 0]
    /\ headless' = headless \ {c}
    /\ excused' = excused \ {c}
    /\ damaged' = damaged \ {c}
    /\ lapped' = lapped \ {c}
    /\ shared' = shared \ {c}
    /\ UNCHANGED overlapped

Opens(c) == Scan(c) \/ ScanFails(c) \/ Mark(c) \/ Place(c)
Quiet(c) == Connect(c) \/ HeadersReady(c) \/ LoadLength(c) \/ Sendfile(c) \/ TestActive(c)
            \/ InputReady(c) \/ Avail(c) \/ WriteFails(c) \/ CloseLoad(c)

Thread(c) ==
    /\ Alive
    /\ \/ Quiet(c) /\ UNCHANGED <<rb, active, shifted>>
       \/ (Opens(c) \/ CloseStore(c)) /\ UNCHANGED <<active, shifted>>
       \/ Write1(c) \/ Write2(c)
    /\ UNCHANGED <<sourceVars, wpc, headerVars, piece, written, handler, late>>
-----------------------------------------------------------------------------
\* oggstdin_sighandler, on the thread of the accept loop: active = 0, then
\* pthread_join, after which sig_handler kills the process.
Signal ==
    /\ handler = "idle"
    /\ MaxSignals > 0
    /\ active' = 0
    /\ handler' = "joining"
    /\ UNCHANGED <<sourceVars, wpc, headerVars, ringVars, late, shifted, clientVars, historyVars>>

Joined ==
    /\ handler = "joining"
    /\ wpc = "closed"
    /\ handler' = "killed"
    /\ UNCHANGED <<sourceVars, wpc, headerVars, ringVars, active, late, shifted, clientVars, historyVars>>

Next == Writer \/ Signal \/ Joined \/ \E c \in Client : Thread(c)

Spec == Init /\ [][Next]_vars
-----------------------------------------------------------------------------
TypeOK ==
    /\ source \in [link : Link, left : [Serial -> Int], pages : Seq(Link \X Nat), lost : Nat,
                   open : BOOLEAN, empty : 0 .. MaxEmpty, data : 0 .. MaxData]
    /\ wpc \in {"next", "reset", "count", "store", "leave", "ringhead", "ringbody",
                "return", "closed"}
    /\ in_headers \in 0 .. Cardinality(Serial)
    /\ headers_len \in 0 .. Len(file)
    /\ tracker \in [Link \X Serial -> Nat]
    /\ rb \in ringbuffer
    /\ active \in 0 .. Size
    /\ handler \in {"idle", "joining", "killed"}
    /\ shifted \in BOOLEAN
    /\ piece \in [filled : 0 .. MaxPiece, todo : 0 .. MaxPiece]
    /\ pc \in [Client -> {"new", "wait", "load", "send", "open", "mark", "place", "test", "live",
                         "avail", "write1", "write2", "close", "unmark", "done"}]
    /\ \A c \in Client : /\ loc[c].rd \in Descriptor \cup {NoDescriptor}
                         /\ loc[c].seen \subseteq Descriptor \cup {NoDescriptor}
                         /\ loc[c].todo \in 0 .. Size
                         /\ loc[c].split \in 0 .. Size
    /\ rpos \in [Client -> 0 .. written]
    /\ headless \cup excused \cup damaged \cup lapped \cup shared \subseteq Client

\* Between two pages in_headers counts the streams of the link whose headers are
\* not complete, and the file holds the headers of the link that have come since there
\* last was a stream to collect for: whatever the order in which the streams' headers
\* interleave and however they are cut into pages, no data page is cached and no
\* header page goes live.
HeadersTracked ==
    wpc = "next" =>
        LET missing == {s \in Serial : source.left[s] > 0}
        IN  /\ \A s \in missing :
                   tracker[<<source.link, s>>] + source.left[s] = NumHeaders[source.link][s]
            /\ in_headers = Cardinality(missing)
            /\ SubSeq(file, 1, headers_len)
                   = SubSeq(source.pages, source.lost + 1, Len(source.pages))

\* A client that goes live with other than the complete headers of the current
\* link asked before there were any, or in the middle of a change of link, or the
\* link has a stream with no header but its bos page, and another behind that.
HeadlessHasCause == headless \subseteq excused

\* A client is sent the pages from its open on, nothing lost or repeated, unless it
\* fell a whole buffer behind the input or another client read by its descriptor; and
\* that happens only once an open or a close began while another was between its load
\* of readers and its store. A client without a descriptor harms only itself.
DamageHasCause ==
    /\ damaged \subseteq lapped \cup shared
    /\ shared # {} => overlapped

\* At most the page that was being read when the signal came is still handled, unless
\* a client without a descriptor has moved active, which may undo the signal's 0.
StopsAfterOnePage == late <= 1 \/ shifted
=============================================================================
