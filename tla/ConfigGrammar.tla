--------------------------- MODULE ConfigGrammar ---------------------------
(* What a configuration file means, read with the whole text at hand: a line is a
   comment, <name>, </name> or a name and its value, which is quoted or ends with
   the line or at a comment. The first line that is none of these ends it. No
   escapes. This is the definition the parser of Copa is held against. *)
EXTENDS Integers, Sequences, SequencesExt

LOCAL Newline == {10, 13}
LOCAL Space == 9 .. 13 \cup {32}

\* The place of the first character of a class, 0 if there is none.
FirstIn(text, class) == LET In(c) == c \in class IN SelectInSeq(text, In)

Before(text, i) == SubSeq(text, 1, i - 1)

Behind(text, i) == SubSeq(text, i + 1, Len(text))

Skip(text) ==
    LET i == FirstIn(text, (0 .. 255) \ Space) IN IF i = 0 THEN <<>> ELSE Behind(text, i - 1)

Block(name) ==
    IF FirstIn(name, {47}) = 1
    THEN [is |-> "end", name |-> Tail(name)] ELSE [is |-> "start", name |-> name]

Assignment(name, value) == [is |-> "assign", name |-> name, value |-> value]

\* The calls that a file means: a function of how many of its characters are left.
Meaning(file) ==
    LET meaning[left \in 0 .. Len(file)] ==
            LET text == Skip(Behind(file, Len(file) - left))
                close == FirstIn(text, {62, 35} \cup Newline)
                space == FirstIn(text, Space \cup {35})
                value == Skip(Behind(text, space))
                quote == FirstIn(Tail(value), {value[1]})
                end == FirstIn(value, {35} \cup Newline)
                From(rest) == meaning[Len(rest)]
            IN  CASE text = <<>> -> <<>>
                  [] text # <<>> /\ text[1] = 35 ->
                        LET line == FirstIn(text, Newline)
                        IN  IF line = 0 THEN <<>> ELSE From(Behind(text, line))
                  [] text # <<>> /\ text[1] = 60 ->
                        IF close = 0 \/ text[close] # 62 THEN <<>>
                        ELSE <<Block(SubSeq(text, 2, close - 1))>> \o From(Behind(text, close))
                  [] OTHER ->
                        IF space = 0 \/ text[space] = 35 \/ value = <<>> THEN <<>>
                        ELSE IF value[1] \in {34, 39}
                             THEN IF quote = 0 THEN <<>>
                                  ELSE <<Assignment(Before(text, space), Before(Tail(value), quote))>>
                                       \o From(Behind(Tail(value), quote))
                             ELSE IF end = 0 THEN <<Assignment(Before(text, space), value)>>
                                  ELSE <<Assignment(Before(text, space), Before(value, end))>>
                                       \o From(Behind(value, end - 1))
    IN  meaning[Len(file)]
=============================================================================
