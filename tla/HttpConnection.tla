--------------------------- MODULE HttpConnection ---------------------------
(***************************************************************************)
(* The thread of one connection: http_response reads, in whatever pieces   *)
(* the network hands out, a request line and headers, and respond answers  *)
(* them from the list of resources.                                        *)
(*                                                                         *)
(* Text is a sequence of tokens: "sp", "colon" and "eol" are the characters *)
(* that the parsers look for, the others are words.  A piece may end in a  *)
(* word or in an eol; that has the effect of one that ends next to it.     *)
(* Requests are shorter than the input buffer (8192 bytes).                *)
(***************************************************************************)
EXTENDS Integers, Sequences, FiniteSets, SequencesExt

CONSTANTS
    Method,       \* of the requests
    Path,         \* of the requests, as sequences of parts
    Headers,      \* sequences of header lines, each a sequence of tokens
    Resource,     \* what the paths configured for the resources begin with, in the list's order
    Garbage       \* what the uninitialised local n may hold

Token == {"method", "path", "version", "name", "value", "sp", "colon", "eol"}
Blank == {"sp", "colon"}

ASSUME RequestsAssumption ==
    "GET" \in Method /\ Path # {} /\ Headers # {} /\ Headers \subseteq Seq(Seq(Token))
ASSUME ResourceAssumption == Resource \in Seq(ToSet(Resource))
ASSUME GarbageAssumption  == Garbage \subseteq Int /\ Garbage # {}

VARIABLES
    request,      \* what the client asks for
    sent,         \* tokens of it that read() has returned
    first,        \* history: tokens that the first read() returned
    s,            \* the input buffer, up to its NUL: cur points there between reads
    init, n,      \* locals of http_response
    pc,           \* where the thread is
    status,       \* the status line written
    body          \* the resource whose body was written

vars == <<request, sent, first, s, init, n, pc, status, body>>

RequestLine == <<"method", "sp", "path", "sp", "version">>
Text(req)   == RequestLine \o <<"eol">> \o FlattenSeq(req.headers) \o <<"eol">>
NotFound    == 0
None        == -1

Init ==
    /\ request \in [method : Method, path : Path, headers : Headers]
    /\ sent = 0
    /\ first = 0
    /\ s = <<>>
    /\ init = FALSE
    /\ n \in Garbage
    /\ pc = "read"
    /\ status = "none"
    /\ body = None
-----------------------------------------------------------------------------
\* Mutant of http_request_parse: the end of the line is left in the buffer.
http_request_parse_Short(cur) == IF IsPrefix(RequestLine, cur) THEN Len(RequestLine) ELSE 0

\* The number of tokens consumed, 0 for failure: a request line, then at most one
\* end of line.
http_request_parse(cur) ==
    LET span == Cardinality({i \in DOMAIN cur :
                                /\ i > Len(RequestLine)
                                /\ \A j \in Len(RequestLine) + 1 .. i : cur[j] = "eol"})
    IN  IF IsPrefix(RequestLine, cur) /\ span <= 1 THEN Len(RequestLine) + span ELSE 0

(***************************************************************************)
(* memmove (s, &s[n], nread-n), which moves no NUL: behind what is moved   *)
(* the piece keeps its last n bytes, where the request line's length puts  *)
(* them.  They hold a word, as the request line is longer than separators. *)
(***************************************************************************)
Moved(piece, consumed) ==
    IF consumed = Len(piece) THEN {piece}
    ELSE {SubSeq(piece, consumed + 1, Len(piece)) \o SubSeq(piece, k, Len(piece)) :
             k \in {i \in DOMAIN piece :
                       \E j \in i .. Len(piece) : piece[j] \notin Blank \cup {"eol"}}}

\* Where headers_canonicalize finds two line ends together, if it does.
EndsAt(text) == {i \in DOMAIN text : i < Len(text) /\ text[i] = "eol" /\ text[i + 1] = "eol"}

\* A line end that is not folded into a blank.
Break(text, i) == text[i] = "eol" /\ text[i + 1] # "sp"

\* The loop of params_new_parse_delim never passes a line that begins with a
\* delimiter or has none.
Stuck(text) ==
    \E i \in DOMAIN text :
        /\ i = 1 \/ Break(text, i - 1)
        /\ \/ text[i] \in Blank \cup {"eol"}
           \/ \A d \in i + 1 .. Len(text) :
                 text[d] \in Blank \cup {"eol"} => \E b \in i + 1 .. d : Break(text, b)

\* NULL, a list, or no return at all.  Nothing before the empty line, or a line end
\* in front, makes an empty list, which is NULL too.
params_new_parse(text) ==
    IF EndsAt(text) = {} THEN "null"
    ELSE LET headers == SubSeq(text, 1, Min(EndsAt(text)) - 1)
         IN  IF headers = <<>> \/ (headers[1] = "eol" /\ Break(headers, 1)) THEN "null"
             ELSE IF Stuck(headers) THEN "never" ELSE "list"
-----------------------------------------------------------------------------
\* One round of the loop: read() returns the next piece of the request.
Read ==
    /\ pc = "read"
    /\ n # -1
    /\ \E last \in sent + 1 .. Len(Text(request)) :
          LET piece    == SubSeq(Text(request), sent + 1, last)
              consumed == IF init THEN 0 ELSE http_request_parse(piece)
              result   == params_new_parse(s')
          IN  /\ sent' = last
              /\ first' = IF sent = 0 THEN last ELSE first
              /\ IF consumed > 0 THEN s' \in Moved(piece, consumed) ELSE s' = s \o piece
              /\ init' = (init \/ consumed > 0)
              /\ pc' = CASE result = "null"  -> "read"
                         [] result = "never" -> "spin"
                         [] result = "list"  -> "respond"
              /\ n' = IF result = "null" THEN Len(s') - Len(s)
                      ELSE IF init THEN n ELSE consumed
    /\ UNCHANGED <<request, status, body>>

\* The test that should see a failed read() looks at n, before anything was stored in
\* it: what was read is lost, and n stays as it is.
ReadLost ==
    /\ pc = "read"
    /\ n = -1
    /\ \E last \in sent + 1 .. Len(Text(request)) :
          /\ sent' = last
          /\ first' = IF sent = 0 THEN last ELSE first
    /\ UNCHANGED <<request, s, init, n, pc, status, body>>

\* A read() that fails after the first one finds nothing new in the buffer.
ReadFails ==
    /\ pc = "read"
    /\ n # -1
    /\ s # <<>>
    /\ n' = 0
    /\ UNCHANGED <<request, sent, first, s, init, pc, status, body>>

\* The client closes its side.
ReadEnds ==
    /\ pc = "read"
    /\ pc' = "closed"
    /\ UNCHANGED <<request, sent, first, s, init, n, status, body>>

\* Resources are tried in order; a resource takes each path that begins with its own.
Checks(path) == {i \in DOMAIN Resource : IsPrefix(Resource[i], path)}

\* Mutant of Found: the walk goes one too far.
Found_Next(path) == IF Checks(path) = {} THEN NotFound ELSE Min(Checks(path)) + 1

Found(path) == IF Checks(path) = {} THEN NotFound ELSE Min(Checks(path))

\* The request that respond works on: what was parsed, or uninitialised memory.
Asked ==
    IF init THEN {[method |-> request.method, path |-> request.path]}
    ELSE [method : Method, path : Path \cup {<<>>}]

\* Mutant of Respond: a body for each method that is allowed.
Respond_AlwaysBody ==
    /\ pc = "respond"
    /\ \E req \in Asked :
          IF req.method \in {"GET", "HEAD"}
          THEN /\ status' = IF Found(req.path) = NotFound THEN "404" ELSE "200"
               /\ body' = Found(req.path)
          ELSE /\ status' = "405"
               /\ body' = None
    /\ pc' = "closed"
    /\ UNCHANGED <<request, sent, first, s, init, n>>

\* respond: status line and headers, and the body for a GET; then closeit.
Respond ==
    /\ pc = "respond"
    /\ \E req \in Asked :
          /\ status' = IF req.method \notin {"GET", "HEAD"} THEN "405"
                       ELSE IF Found(req.path) = NotFound THEN "404" ELSE "200"
          /\ body' = IF req.method = "GET" THEN Found(req.path) ELSE None
    /\ pc' = "closed"
    /\ UNCHANGED <<request, sent, first, s, init, n>>

Next == Read \/ ReadLost \/ ReadFails \/ ReadEnds \/ Respond

Spec == Init /\ [][Next]_vars
-----------------------------------------------------------------------------
TypeOK ==
    /\ sent \in 0 .. Len(Text(request))
    /\ first \in 0 .. sent
    /\ s \in Seq(Token)
    /\ init \in BOOLEAN
    /\ n \in Int
    /\ pc \in {"read", "spin", "respond", "closed"}
    /\ status \in {"none", "200", "404", "405"}
    /\ body \in {None, NotFound} \cup DOMAIN Resource

Whole    == sent = Len(Text(request))
Answered == status # "none"

\* What HTTP and the list of resources say the client should get.
Proper ==
    LET own == \E i \in DOMAIN Resource : IsPrefix(Resource[i], request.path)
    IN  /\ status = "405" <=> request.method \notin {"GET", "HEAD"}
        /\ status = "200" <=> request.method \in {"GET", "HEAD"} /\ own
        /\ body # None <=> request.method = "GET"
        /\ body > 0 <=> request.method = "GET" /\ own

\* The thread does not wait for more when the request is complete, never loops, and
\* answers it as it asks.
NotLost ==
    /\ pc = "read" => ~ Whole
    /\ pc # "spin"
    /\ Answered => Proper

\* Lines as HTTP has them: each begins with a word and what separates it from the rest,
\* or else with a blank, and goes on with the line in front.
Begins(u, i) == i = 1 \/ (u[i - 1] = "eol" /\ u[i] # "sp")
Lines ==
    {u \in Seq(Token) :
        /\ u # <<>> /\ u[Len(u)] = "eol"
        /\ \A i \in DOMAIN u :
              Begins(u, i) => /\ u[i] \notin Blank \cup {"eol"}
                              /\ i + 1 < Len(u) /\ u[i + 1] \in Blank}

\* A request with headers as HTTP has them, whose first piece is all of it, or
\* just its request line, is answered as it asks, when it is complete and not before,
\* whatever the pieces after that.
WellCutServed ==
    /\ n # -1
    /\ request.headers \in Seq(Lines) \ {<<>>}
    /\ first \in {Len(RequestLine), Len(RequestLine) + 1, Len(Text(request))}
    => NotLost /\ (pc = "respond" \/ Answered => Whole)

\* Wherever else the first piece of such a request ends, the thread never waits when the
\* request is complete, and what goes wrong has its cause in that piece: another request
\* is answered only if it ended in the request line, and an answer comes before the
\* request is complete, or none because the thread hangs, only if it ended in the headers.
LossHasItsCut ==
    n # -1 /\ request.headers \in Seq(Lines) \ {<<>>} =>
        LET inHeaders == first \in Len(RequestLine) + 2 .. Len(Text(request)) - 1
        IN  /\ pc = "read" => ~ Whole
            /\ pc = "respond" \/ Answered => Whole \/ inHeaders
            /\ pc = "spin" => inHeaders
            /\ Answered /\ ~ Proper => first < Len(RequestLine)
=============================================================================
