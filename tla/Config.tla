------------------------------- MODULE Config -------------------------------
(* The startup: the parser of Copa reads a file and calls the functions of CfgRead,
   then the port and the list of resources are settled. *)
EXTENDS CfgRead, Copa, ConfigGrammar

CONSTANTS Texts, \* the configuration files
          Args,  \* the ports that may be given on the command line
          BUFFER_SIZE

ASSUME TextsAssumption == \A text \in Texts : text \in Seq(0 .. 255)
ASSUME BufferAssumption == BUFFER_SIZE \in Nat \ {0}

VARIABLES
    parser,
    status,   \* parser->status, "OK" or "STOP_ERR"
    calls,    \* history: the callbacks made so far
    whole     \* and a parser that has all that is read in its buffer from the start

configVars == <<vars, parser, status, calls, whole>>

\* A text with what a short last read leaves in the buffer behind it: the characters
\* one buffer earlier, or nothing if there was no earlier piece.
Padded(text) ==
    LET over == Len(text) % BUFFER_SIZE
    IN  IF over = 0 \/ Len(text) < BUFFER_SIZE THEN text
        ELSE text \o SubSeq(text, Len(text) - BUFFER_SIZE + 1, Len(text) - over)

Larger(m, n) == IF m < n THEN n ELSE m

ConfigInit ==
    /\ Init
    /\ \E text \in Texts :
          LET read == Padded(text)
          IN  /\ parser = copa_read_fd(text, BUFFER_SIZE)
              /\ whole = copa_read_fd(read, Larger(Len(read), BUFFER_SIZE))
    /\ status = "OK"
    /\ calls = <<>>

Line(is) ==
    /\ phase = "reading"
    /\ parser.active
    /\ parser' = copa_parse_line(parser)
    /\ whole' = copa_parse_line(whole)
    /\ parser'.call.is = is

\* A comment, an empty line or one that is not understood.
NoCallback == Line("none") /\ UNCHANGED <<vars, status, calls>>

BlockStart ==
    /\ Line("start")
    /\ calls' = Append(calls, [is |-> parser'.call.is, name |-> parser'.call.name])
    /\ \/ cfg_read_block_start /\ status' = "OK"
       \/ cfg_read_block_start_nested /\ status' = "STOP_ERR"

BlockEnd ==
    /\ Line("end")
    /\ calls' = Append(calls, [is |-> parser'.call.is, name |-> parser'.call.name])
    /\ \/ cfg_read_block_end(parser'.call.name) /\ status' = "OK"
       \/ cfg_read_block_end_outside /\ status' = "STOP_ERR"

\* Only an assignment looks at the status that a block left.
Assign ==
    /\ Line("assign")
    /\ \/ /\ status = "OK"
          /\ cfg_read_assign(parser'.call.name, parser'.call.value)
          /\ calls' = Append(calls, parser'.call)
       \/ /\ status # "OK"
          /\ UNCHANGED <<vars, calls>>
    /\ UNCHANGED status

\* copa_read returns 0 whatever the status is, so main goes on.
Startup ==
    /\ ~parser.active
    /\ \/ \E arg \in Args : Override(arg)
       \/ sighttpd_init
       \/ shrecord_main
    /\ UNCHANGED <<parser, status, calls, whole>>

ConfigNext ==
    \/ NoCallback
    \/ BlockStart
    \/ BlockEnd
    \/ Assign
    \/ Startup

Spec == ConfigInit /\ [][ConfigNext]_configVars
-----------------------------------------------------------------------------
\* The types of the parser and of what the callbacks keep: the offset stays within
\* the buffer, there are at most as many encoders as shrecord_resource lets in.
TypeOK ==
    /\ parser.offset \in 0 .. BUFFER_SIZE
    /\ parser.pos \in 0 .. Len(parser.text)
    /\ parser.pushback \in 0 .. 255
    /\ pvt.nr_encoders \in 0 .. MAX_ENCODERS + 1
    /\ pvt.do_preview \in BOOLEAN
    /\ Len(origin) = Len(resources)
    /\ \A i \in DOMAIN resources : resources[i].slot \in {NULL} \cup 0 .. pvt.nr_encoders - 1

\* No escape, and no byte that looks like the end of the file.
Plain(text) == \A i \in DOMAIN text : text[i] \notin {NUL, BACKSLASH, EOF}

\* The block callback before a line, 0 if there is none.
BlockBefore(lines, i) ==
    LET blocks == {j \in 1 .. i - 1 : lines[j].is # "assign"}
    IN  IF blocks = {} THEN 0 ELSE Max(blocks)

\* A callback returns COPA_STOP_ERR for a block in a block and for an end without one.
Fails(lines, i) ==
    /\ lines[i].is # "assign"
    /\ lines[i].is = IF BlockBefore(lines, i) = 0 THEN "end" ELSE lines[BlockBefore(lines, i)].is

\* Behind such a block no assignment is handed over, until a block goes well again.
Heard(lines) ==
    LET InTime(i) ==
            lines[i].is = "assign" /\ BlockBefore(lines, i) # 0 => ~Fails(lines, BlockBefore(lines, i))
        kept == SelectSeq([i \in DOMAIN lines |-> i], InTime)
    IN  [k \in DOMAIN kept |-> lines[kept[k]]]

\* Wherever the refills fall, the calls are those for the lines of the text, in order and
\* nothing besides, all of them but the assignments behind a block that failed: of these
\* none is handed over until a block goes well. Where cfg-parse.h:53 says that parsing
\* stops it goes on; that it does is not asked for. A file longer than the buffer that
\* ends within a piece is excepted: its text goes on with what is left in the buffer.
ReadsPadded ==
    Plain(parser.text) =>
        LET heard == Heard(Meaning(Padded(parser.text)))
        IN  /\ IsPrefix(calls, heard)
            /\ parser.active \/ calls = heard \/ \E i \in DOMAIN calls : Fails(calls, i)

\* Refills are not seen, in the middle of an escape or behind a character that was put
\* back: each line is read as by a parser that has the whole text in its buffer.
RefillsUnseen == parser.call = whole.call /\ parser.active = whole.active
=============================================================================
