-------------------------------- MODULE Copa --------------------------------
(* The configuration parser, cfg-parse.c: a recursive descent over a buffer of
   BUFFER_SIZE characters that is refilled from the file. Characters are bytes;
   what copa_next returns at the end of the file, (char)-1, is also the byte 255.
   A parser is a record: the fields of struct _CopaParser, the place of the next
   read() in the file, the text and, as results of a function, the character c,
   the word (NULL if none) and the callback to be called. *)
EXTENDS Integers, Sequences, Null

NUL == 0
EOF == 255
BACKSLASH == 92

X_NONE == {}
X_NEWLINE == {10, 13}
X_WHITESPACE == 9 .. 13 \cup {32}
X_COMMENT == {35}
X_LBRACKET == {60}
X_RBRACKET == {62}
X_DQUOTE == {34}
X_SQUOTE == {39}
X_SLASH == {47}

copa_cin(c, class) == c \in class

NoCall == [is |-> "none", name |-> NULL, value |-> NULL]
-----------------------------------------------------------------------------
Size(p) == Len(p.read_buffer)

(* read() brings a whole buffer of a regular file, or what is left of it. Behind a
   short piece the characters of the one before stay, and nread is not looked at
   again. *)
Piece(p) ==
    LET left == Len(p.text) - p.pos
    IN  SubSeq(p.text, p.pos + 1, p.pos + (IF left < Size(p) THEN left ELSE Size(p)))

copa_refill_Whole(p) ==
    LET piece == Piece(p)
    IN  IF piece = <<>>
        THEN [p EXCEPT !.active = FALSE]
        ELSE [p EXCEPT !.read_buffer = [i \in 1 .. Size(p) |->
                                            IF i <= Len(piece) THEN piece[i] ELSE @[i]],
                       !.pos = @ + Size(p),
                       !.offset = 0]

copa_refill_Fresh(p) ==
    LET piece == Piece(p)
    IN  IF piece = <<>>
        THEN [p EXCEPT !.active = FALSE]
        ELSE [p EXCEPT !.read_buffer = [i \in 1 .. Size(p) |->
                                            IF i <= Len(piece) THEN piece[i] ELSE @[i]],
                       !.pos = @ + Len(piece), !.escape = FALSE,
                       !.offset = 0]

copa_refill(p) ==
    LET piece == Piece(p)
    IN  IF piece = <<>>
        THEN [p EXCEPT !.active = FALSE]
        ELSE [p EXCEPT !.read_buffer = [i \in 1 .. Size(p) |->
                                            IF i <= Len(piece) THEN piece[i] ELSE @[i]],
                       !.pos = @ + Len(piece),
                       !.offset = 0]

copa_octal(c) == IF c \in 48 .. 55 THEN c - 48 ELSE -1

copa_hex(c) ==
    CASE c \in 48 .. 57  -> c - 48
      [] c \in 97 .. 102 -> c - 87
      [] c \in 65 .. 70  -> c - 55
      [] OTHER           -> -1

\* The end of a numeric escape: c is put back, the number is the character.
EndNumber(p) ==
    IF p.c = BACKSLASH THEN [p EXCEPT !.escape = TRUE, !.c = p.numchar]
    ELSE [p EXCEPT !.pushback = p.c, !.c = p.numchar]

\* One more digit, of value num: the number is complete when none may follow.
Digit(p, base, num, more) ==
    LET number == (p.numchar * base + num) % 256
    IN  [p EXCEPT !.numchar = number, !.c = IF more = 0 THEN number ELSE NUL]

Octal(p) ==
    LET num == copa_octal(p.c)
    IN  IF num = -1 THEN EndNumber([p EXCEPT !.octal = 0])
        ELSE Digit([p EXCEPT !.octal = @ - 1], 8, num, p.octal - 1)

Hex(p) ==
    LET num == copa_hex(p.c)
    IN  IF num = -1 THEN EndNumber([p EXCEPT !.hex = 0])
        ELSE Digit([p EXCEPT !.hex = @ - 1], 16, num, p.hex - 1)

\* \a \b \f \n \r \t \v; any other letter stands for itself.
Control(c) ==
    CASE c = 97  -> 7
      [] c = 98  -> 8
      [] c = 102 -> 12
      [] c = 110 -> 10
      [] c = 114 -> 13
      [] c = 116 -> 9
      [] c = 118 -> 11
      [] OTHER   -> c

Escaped(p) ==
    LET q == [p EXCEPT !.escape = FALSE]
    IN  CASE p.c \in X_NEWLINE      -> [q EXCEPT !.c = NUL]
          [] p.c = 120              -> [q EXCEPT !.c = NUL, !.hex = 2, !.numchar = 0]
          [] copa_octal(p.c) # -1   -> [q EXCEPT !.c = NUL, !.octal = 3, !.numchar = copa_octal(p.c)]
          [] OTHER                  -> [q EXCEPT !.c = Control(p.c)]

Decode(p) ==
    IF p.octal > 0 THEN Octal(p)
    ELSE IF p.hex > 0 THEN Hex(p)
    ELSE IF p.escape THEN Escaped(p)
    ELSE IF p.c = BACKSLASH THEN [p EXCEPT !.escape = TRUE, !.c = NUL]
    ELSE p

Char(p) == Decode([p EXCEPT !.c = p.read_buffer[p.offset + 1], !.offset = @ + 1])

\* What is left to be read: in the buffer, and a buffer for each character of the file.
Left(p) == Size(p) - p.offset + Size(p) * (Len(p.text) - p.pos)

\* A loop over characters that starts with p, until one is in ends: all passes but the
\* last take a character, of which one may have been put back.
Loop(p, Pass(_), ends) ==
    LET after[passes \in 0 .. 2 * Left(p) + 1] ==
            IF passes = 0 THEN Pass(p)
            ELSE LET was == after[passes - 1] IN IF was.c \in ends THEN was ELSE Pass(was)
    IN  after[CHOOSE passes \in 0 .. 2 * Left(p) + 1 : after[passes].c \in ends]

\* The loop of copa_next: a NUL is no character.
Fetch(p) ==
    LET Pass(q) ==
            CASE q.offset < Size(q) -> Char(q)
              [] q.offset >= Size(q) /\ Piece(q) = <<>> -> [copa_refill(q) EXCEPT !.c = EOF]
              [] OTHER -> Char(copa_refill(q))
    IN  Loop(p, Pass, 1 .. 255)

copa_next(p) ==
    IF p.pushback # NUL THEN [p EXCEPT !.c = p.pushback, !.pushback = NUL] ELSE Fetch(p)

copa_peek_Takes(p) == copa_next(p)

\* What copa_next primed pushback with is overwritten.
copa_peek(p) ==
    LET Put(q) == IF q.c = EOF THEN q ELSE [q EXCEPT !.pushback = q.c]
    IN  IF p.pushback # NUL THEN [p EXCEPT !.c = p.pushback] ELSE Put(copa_next(p))

\* Characters are passed until one is in class; it is put back.
PassUntil(p, class) ==
    LET Past(q) == IF q.c # EOF /\ copa_cin(q.c, class) THEN [q EXCEPT !.pushback = q.c] ELSE q
        Pass(q) == Past(copa_next(q))
    IN  Loop(p, Pass, class \cup {EOF})

copa_skip_over(p, class) == IF p.active THEN PassUntil(p, 0 .. 255 \ class) ELSE p

copa_skip_whitespace(p) == copa_skip_over(p, X_WHITESPACE)

copa_skip_to(p, class) == IF p.active THEN PassUntil(p, class) ELSE p

Slurp(p, good_end, bad_end) ==
    LET Past(q) ==
            IF q.c = EOF THEN q
            ELSE IF copa_cin(q.c, good_end) THEN [q EXCEPT !.pushback = q.c]
            ELSE IF copa_cin(q.c, bad_end)
                 THEN [q EXCEPT !.pushback = q.c, !.active = FALSE, !.word = NULL]
            ELSE [q EXCEPT !.word = Append(@, q.c)]
        Pass(q) == Past(copa_next(q))
    IN  Loop(p, Pass, good_end \cup bad_end \cup {EOF})

copa_slurp_to(p, good_end, bad_end) ==
    IF p.active THEN Slurp([p EXCEPT !.word = <<>>], good_end, bad_end)
    ELSE [p EXCEPT !.word = NULL]

\* FALSE is the word NULL.
copa_assert_and_pass(p, class) ==
    LET Passed(q) == IF copa_cin(q.c, class) THEN q ELSE [q EXCEPT !.active = FALSE, !.word = NULL]
    IN  IF p.active THEN Passed(copa_next(p)) ELSE [p EXCEPT !.word = NULL]

copa_slurp_quoted(p) ==
    LET Close(q, quote) == IF q.word = NULL THEN q ELSE copa_assert_and_pass(q, quote)
        Quoted(q, quote) == Close(copa_slurp_to(q, quote, X_NONE), quote)
        Open(q) == Quoted(q, IF copa_cin(q.c, X_SQUOTE) THEN X_SQUOTE ELSE X_DQUOTE)
    IN  IF p.active THEN Open(copa_next(p)) ELSE [p EXCEPT !.word = NULL]

copa_slurp_lineval(p) == copa_slurp_to(p, X_COMMENT \cup X_NEWLINE, X_NONE)

copa_parse_assignment(p) ==
    LET Found(name, value) ==
            IF value.word = NULL THEN [value EXCEPT !.active = FALSE]
            ELSE [value EXCEPT !.call = [is |-> "assign", name |-> name, value |-> value.word]]
        Valued(peeked) ==
            IF copa_cin(peeked.c, X_DQUOTE \cup X_SQUOTE)
            THEN copa_slurp_quoted(peeked) ELSE copa_slurp_lineval(peeked)
        Named(q) ==
            IF q.word = NULL THEN q ELSE Found(q.word, Valued(copa_peek(copa_skip_whitespace(q))))
    IN  Named(copa_slurp_to(p, X_WHITESPACE, X_COMMENT \cup X_NEWLINE))

copa_parse_block(p) ==
    LET Found(is, block, close) ==
            IF block.word = NULL THEN block
            ELSE IF close.word = NULL THEN close
            ELSE [close EXCEPT !.call = [is |-> is, name |-> block.word, value |-> NULL]]
        Named(is, block) == Found(is, block, copa_assert_and_pass(block, X_RBRACKET))
        Tag(q) == copa_slurp_to(q, X_RBRACKET, X_COMMENT \cup X_NEWLINE)
        Inside(peeked) ==
            IF copa_cin(peeked.c, X_SLASH) THEN Named("end", Tag(copa_next(peeked)))
            ELSE Named("start", Tag(peeked))
        Opened(open) == IF open.word = NULL THEN open ELSE Inside(copa_peek(open))
    IN  Opened(copa_assert_and_pass([p EXCEPT !.word = <<>>], X_LBRACKET))

copa_parse_line(p) ==
    LET Line(peeked) ==
            CASE copa_cin(peeked.c, X_COMMENT)  -> copa_skip_to(peeked, X_NEWLINE)
              [] copa_cin(peeked.c, X_LBRACKET) -> copa_parse_block(peeked)
              [] OTHER                          -> copa_parse_assignment(peeked)
    IN  Line(copa_peek(copa_skip_whitespace([p EXCEPT !.call = NoCall])))

\* The parser behind the first refill of copa_read_fd, with a buffer of that size.
copa_read_fd(text, size) ==
    copa_refill([text |-> text, pos |-> 0, read_buffer |-> [i \in 1 .. size |-> NUL],
                 offset |-> 0, active |-> TRUE, pushback |-> NUL, escape |-> FALSE,
                 octal |-> 0, hex |-> 0, numchar |-> NUL, c |-> NUL, word |-> NULL,
                 call |-> NoCall])
=============================================================================
