---------------------------- MODULE ConfigProofs ----------------------------
(***************************************************************************)
(* Proofs about the parser and the startup of Config, for any file of      *)
(* bytes and any size of the buffer: no refill is seen by the calls that   *)
(* the parser makes, and what is proved of CfgRead for any order of the    *)
(* callbacks holds for the order in which they come from a file.           *)
(***************************************************************************)
EXTENDS Config, CfgReadProofs, SequenceTheorems, FunctionTheorems, WellFoundedInduction

Byte == 0 .. 255
Word == Seq(Byte)
WordOrNull == Word \cup {NULL}

Callbacks ==
  {NoCall} \cup [is : {"assign"}, name : Word, value : Word]
           \cup [is : {"start", "end"}, name : Word, value : {NULL}]

(* The parsers whose word is one of these. *)
Parser(words) ==
  [text : Word, pos : Nat, read_buffer : Word, offset : Nat, active : BOOLEAN,
   pushback : Byte, escape : BOOLEAN, octal : 0 .. 3, hex : 0 .. 2, numchar : Byte,
   c : Byte, word : words, call : Callbacks]

(* What a buffer of that size is filled with, one piece behind the other: the text, and
   behind it what the last but one refill left there, or nothing. *)
Fills(text, size, read) ==
  /\ Len(text) <= Len(read)
  /\ Len(read) < Len(text) + size
  /\ \A i \in 1 .. Len(read) :
        read[i] = IF i <= Len(text) THEN text[i] ELSE IF i > size THEN read[i - size] ELSE NUL

(* The buffer of p holds the j-th piece of all that is read, of which there are k. *)
Piecewise(p, read, j, k) ==
  /\ Len(read) = Size(p) * k
  /\ j < k
  /\ p.pos = IF Size(p) * j + Size(p) < Len(p.text) THEN Size(p) * j + Size(p) ELSE Len(p.text)
  /\ \A i \in 1 .. Size(p) : p.read_buffer[i] = read[Size(p) * j + i]

(* Two parsers are at the same place, where q has all that is read in its buffer. *)
Abreast(p, q) ==
  /\ Size(p) = BUFFER_SIZE /\ Size(p) > 0
  /\ p.offset <= Size(p)
  /\ q.pos = Len(q.text)
  /\ Fills(p.text, Size(p), q.read_buffer)
  /\ \E j, k \in Nat : Piecewise(p, q.read_buffer, j, k) /\ q.offset = Size(p) * j + p.offset

(* And in the same state. *)
Alike(p, q) ==
  /\ p.active = q.active /\ p.pushback = q.pushback /\ p.escape = q.escape
  /\ p.octal = q.octal /\ p.hex = q.hex /\ p.numchar = q.numchar
  /\ p.c = q.c /\ p.word = q.word /\ p.call = q.call

Typed(p, q, words) == p \in Parser(words) /\ q \in Parser(words)

Related(p, q, words) == Typed(p, q, words) /\ Alike(p, q) /\ Abreast(p, q)

(* A step that leaves the buffer alone. *)
Still(p, r) ==
  r.text = p.text /\ r.pos = p.pos /\ r.read_buffer = p.read_buffer /\ r.offset = p.offset

LEMMA AbreastStill ==
  ASSUME NEW p, NEW q, NEW r, NEW s, Abreast(p, q), Still(p, r), Still(q, s)
  PROVE  Abreast(r, s)
BY DEF Abreast, Still, Piecewise, Size
-----------------------------------------------------------------------------
(* Multiples of a size. *)
LEMMA TimesNat == ASSUME NEW a \in Nat, NEW b \in Nat PROVE a * b \in Nat
OBVIOUS

LEMMA TimesNext == ASSUME NEW a \in Nat, NEW b \in Nat PROVE a * (b + 1) = a * b + a
OBVIOUS

LEMMA TimesOrder ==
  ASSUME NEW a \in Nat, NEW b \in Nat, NEW c \in Nat, b < c
  PROVE  a * b + a <= a * c
<1>. DEFINE d == c - b - 1
<1>1. d \in Nat /\ c = b + 1 + d
  OBVIOUS
<1>2. a * c = a * b + a + a * d
  BY <1>1
<1>. QED BY <1>1, <1>2, TimesNat

LEMMA TimesOne == ASSUME NEW a \in Nat \ {0}, NEW b \in Nat PROVE b <= a * b
<1>. DEFINE d == a - 1
<1>1. d \in Nat /\ a = d + 1
  OBVIOUS
<1>2. a * b = d * b + b
  BY <1>1
<1>. QED BY <1>1, <1>2, TimesNat

(* A place within a buffer, and what is left behind it. *)
LEMMA AbreastFacts ==
  ASSUME NEW words, NEW p, NEW q, Typed(p, q, words), Abreast(p, q)
  PROVE  /\ Size(p) \in Nat \ {0} /\ p.offset \in 0 .. Size(p)
         /\ Size(q) \in Nat /\ q.offset \in 0 .. Size(q)
         /\ p.pos \in 0 .. Len(p.text)
         /\ Piece(q) = <<>>
         /\ Size(q) - q.offset <= Left(p)
         /\ Left(q) = Size(q) - q.offset
<1>1. /\ p.read_buffer \in Seq(Byte) /\ q.read_buffer \in Seq(Byte)
      /\ p.text \in Seq(Byte) /\ q.text \in Seq(Byte)
      /\ p.offset \in Nat /\ q.offset \in Nat /\ p.pos \in Nat /\ q.pos \in Nat
  BY DEF Typed, Parser, Word
<1>2. /\ Size(p) \in Nat /\ Size(q) \in Nat
      /\ Len(p.text) \in Nat /\ Len(q.text) \in Nat
  BY <1>1, LenProperties DEF Size
<1>3. PICK j \in Nat, k \in Nat : Piecewise(p, q.read_buffer, j, k) /\ q.offset = Size(p) * j + p.offset
  BY DEF Abreast
<1>. DEFINE b == Size(p)
            l == Len(p.text)
            u == b * j
            v == b * k
            d == l - p.pos
<1>4. b \in Nat \ {0} /\ p.offset <= b /\ l \in Nat /\ u \in Nat /\ v \in Nat
  <2>1. Size(p) > 0 /\ p.offset <= Size(p)
    BY DEF Abreast
  <2>2. Size(p) * j \in Nat /\ Size(p) * k \in Nat
    BY <1>2, TimesNat
  <2>. QED BY <1>2, <2>1, <2>2
<1>5. u + b <= v
  <2>1. j < k /\ b \in Nat
    BY <1>3, <1>4 DEF Piecewise
  <2>. HIDE DEF b
  <2>. QED BY <1>3, <2>1, TimesOrder
<1>6. /\ Size(q) = v
      /\ p.pos = IF u + b < l THEN u + b ELSE l
      /\ q.offset = u + p.offset
      /\ l <= v /\ v < l + b
      /\ q.pos = Len(q.text)
  BY <1>3 DEF Piecewise, Abreast, Fills, Size
<1>7. Piece(q) = <<>>
  <2>1. Piece(q) = SubSeq(q.text, Len(q.text) + 1, Len(q.text))
    <3>1. Len(q.text) - q.pos = 0 /\ q.pos + 1 = Len(q.text) + 1
      BY <1>2, <1>6
    <3>2. q.pos + (IF Len(q.text) - q.pos < Size(q) THEN Len(q.text) - q.pos ELSE Size(q)) = Len(q.text)
      BY <1>2, <1>6, <3>1
    <3>. QED BY <3>1, <3>2 DEF Piece
  <2>. QED BY <1>1, <1>2, <2>1, EmptySeq, SubSeqProperties
<1>8. Left(q) = Size(q) - q.offset
  <2>1. Len(q.text) - q.pos = 0
    BY <1>2, <1>6
  <2>2. Size(q) * 0 = 0
    BY <1>2
  <2>. QED BY <1>1, <1>2, <2>1, <2>2 DEF Left
<1>. HIDE DEF b, l, u, v
<1>9. d \in Nat
  BY <1>4, <1>6
<1>10. b * d \in Nat /\ d <= b * d
  BY <1>4, <1>9, TimesNat, TimesOne
<1>11. v - u - b <= b * d
  <2>1. CASE u + b < l
    <3>1. d = l - (u + b) /\ d \in Nat /\ d > 0
      BY <1>4, <1>6, <2>1
    <3>2. v - u - b < d + b
      BY <1>4, <1>6, <3>1
    <3>3. v - u - b <= b * d
      <4>. DEFINE e == d - 1
                  a == b - 1
      <4>1. e \in Nat /\ a \in Nat /\ d = e + 1 /\ b = a + 1
        BY <1>4, <3>1
      <4>2. b * d = a * e + a + e + 1
        <5>1. b * (e + 1) = b * e + b
          BY <1>4, <4>1, TimesNext
        <5>2. (a + 1) * e = a * e + e
          BY <4>1
        <5>. HIDE DEF a, e
        <5>. QED BY <4>1, <5>1, <5>2
      <4>3. a * e \in Nat
        BY <4>1, TimesNat
      <4>. HIDE DEF e, a
      <4>. QED BY <1>4, <3>2, <4>1, <4>2, <4>3
    <3>. QED BY <3>3
  <2>2. CASE ~ (u + b < l)
    <3>1. j < k /\ (k # j + 1 => j + 1 < k)
      BY <1>3 DEF Piecewise
    <3>2. CASE k = j + 1
      <4>1. v = u + b
        BY <1>3, <1>4, <3>2, TimesNext DEF u, v
      <4>. QED BY <1>4, <1>10, <4>1
    <3>3. CASE j + 1 < k
      <4>1. j + 1 \in Nat /\ b \in Nat
        BY <1>4
      <4>2. b * (j + 1) + b <= v
        BY <1>3, <3>3, <4>1, TimesOrder DEF v
      <4>3. b * (j + 1) = u + b
        BY <1>3, <1>4, TimesNext DEF u
      <4>. QED BY <1>4, <1>6, <2>2, <4>2, <4>3
    <3>. QED BY <3>1, <3>2, <3>3
  <2>. QED BY <2>1, <2>2
<1>12. Left(p) = b - p.offset + b * d
  BY DEF Left, b, l
<1>13. Size(q) - q.offset <= Left(p)
  BY <1>1, <1>4, <1>6, <1>10, <1>11, <1>12
<1>14. q.offset \in 0 .. Size(q) /\ p.offset \in 0 .. b /\ p.pos \in 0 .. l
  BY <1>1, <1>4, <1>5, <1>6
<1>. QED BY <1>2, <1>4, <1>7, <1>8, <1>13, <1>14 DEF b, l
-----------------------------------------------------------------------------
(* Two parsers in the same state take the same step that leaves the buffer alone. *)
Steps(p, q, r, s, words) == Typed(r, s, words) /\ Alike(r, s) /\ Still(p, r) /\ Still(q, s)

LEMMA StepsChain ==
  ASSUME NEW words, NEW p, NEW q, NEW p1, NEW q1, NEW p2, NEW q2,
         Steps(p, q, p1, q1, words), Steps(p1, q1, p2, q2, words)
  PROVE  Steps(p, q, p2, q2, words)
BY DEF Steps, Still

LEMMA StepsRelated ==
  ASSUME NEW words, NEW more, NEW p, NEW q, NEW r, NEW s,
         Related(p, q, words), Steps(p, q, r, s, more)
  PROVE  Related(r, s, more)
BY AbreastStill DEF Steps, Related

LEMMA EndNumberSteps ==
  ASSUME NEW words, NEW p, NEW q, Typed(p, q, words), Alike(p, q)
  PROVE  Steps(p, q, EndNumber(p), EndNumber(q), words)
<1>1. CASE p.c = BACKSLASH
  BY <1>1 DEF Typed, Parser, Alike, EndNumber, Steps, Still
<1>2. CASE p.c # BACKSLASH
  BY <1>2 DEF Typed, Parser, Alike, EndNumber, Steps, Still
<1>. QED BY <1>1, <1>2

LEMMA DigitSteps ==
  ASSUME NEW words, NEW p, NEW q, Typed(p, q, words), Alike(p, q),
         NEW base \in {8, 16}, NEW num \in 0 .. 15, NEW more \in Int
  PROVE  Steps(p, q, Digit(p, base, num, more), Digit(q, base, num, more), words)
<1>. DEFINE number == (p.numchar * base + num) % 256
<1>1. number \in Byte
  <2>. DEFINE sum == p.numchar * base + num
  <2>1. p.numchar \in 0 .. 255
    BY DEF Typed, Parser, Byte
  <2>2. sum \in Nat
    <3>1. CASE base = 8
      BY <2>1, <3>1
    <3>2. CASE base = 16
      BY <2>1, <3>2
    <3>. QED BY <3>1, <3>2
  <2>. HIDE DEF sum
  <2>3. sum % 256 \in 0 .. 255
    BY <2>2
  <2>. QED BY <2>3 DEF Byte, sum
<1>2. number = (q.numchar * base + num) % 256
  BY DEF Alike
<1>3. NUL \in Byte
  BY DEF NUL, Byte
<1>. HIDE DEF number
<1>4. /\ Digit(p, base, num, more) = [p EXCEPT !.numchar = number, !.c = IF more = 0 THEN number ELSE NUL]
      /\ Digit(q, base, num, more) = [q EXCEPT !.numchar = number, !.c = IF more = 0 THEN number ELSE NUL]
  BY <1>2 DEF Digit, number
<1>5. CASE more = 0
  <2>1. /\ Digit(p, base, num, more) = [p EXCEPT !.numchar = number, !.c = number]
        /\ Digit(q, base, num, more) = [q EXCEPT !.numchar = number, !.c = number]
    BY <1>4, <1>5
  <2>. QED BY <1>1, <2>1 DEF Typed, Parser, Alike, Steps, Still
<1>6. CASE more # 0
  <2>1. /\ Digit(p, base, num, more) = [p EXCEPT !.numchar = number, !.c = NUL]
        /\ Digit(q, base, num, more) = [q EXCEPT !.numchar = number, !.c = NUL]
    BY <1>4, <1>6
  <2>. QED BY <1>1, <1>3, <2>1 DEF Typed, Parser, Alike, Steps, Still
<1>. QED BY <1>5, <1>6

LEMMA OctalValue == ASSUME NEW c \in Byte PROVE copa_octal(c) \in {-1} \cup 0 .. 7
BY DEF copa_octal, Byte

LEMMA HexValue == ASSUME NEW c \in Byte PROVE copa_hex(c) \in {-1} \cup 0 .. 15
BY DEF copa_hex, Byte

LEMMA ControlValue == ASSUME NEW c \in Byte PROVE Control(c) \in Byte
BY DEF Control, Byte

LEMMA OctalSteps ==
  ASSUME NEW words, NEW p, NEW q, Typed(p, q, words), Alike(p, q), p.octal > 0
  PROVE  Steps(p, q, Octal(p), Octal(q), words)
<1>. DEFINE num == copa_octal(p.c)
<1>1. num \in {-1} \cup 0 .. 7 /\ num = copa_octal(q.c) /\ p.octal - 1 = q.octal - 1 /\ p.octal - 1 \in Int
  BY OctalValue DEF Typed, Parser, Alike
<1>. HIDE DEF num
<1>2. CASE num = -1
  <2>. DEFINE r == [p EXCEPT !.octal = 0]
              s == [q EXCEPT !.octal = 0]
  <2>1. Steps(p, q, r, s, words)
    BY DEF Typed, Parser, Alike, Steps, Still
  <2>2. Octal(p) = EndNumber(r) /\ Octal(q) = EndNumber(s)
    BY <1>1, <1>2 DEF Octal, num
  <2>. HIDE DEF r, s
  <2>3. Steps(r, s, EndNumber(r), EndNumber(s), words)
    BY <2>1, EndNumberSteps DEF Steps
  <2>. QED BY <2>1, <2>2, <2>3, StepsChain
<1>3. CASE num # -1
  <2>. DEFINE r == [p EXCEPT !.octal = @ - 1]
              s == [q EXCEPT !.octal = @ - 1]
              more == p.octal - 1
  <2>1. Steps(p, q, r, s, words)
    BY DEF Typed, Parser, Alike, Steps, Still
  <2>2. Octal(p) = Digit(r, 8, num, more) /\ Octal(q) = Digit(s, 8, num, more)
    BY <1>1, <1>3 DEF Octal, num
  <2>3. more \in Int /\ num \in 0 .. 15 /\ 8 \in {8, 16}
    BY <1>1, <1>3
  <2>. HIDE DEF r, s, more
  <2>4. Steps(r, s, Digit(r, 8, num, more), Digit(s, 8, num, more), words)
    BY <2>1, <2>3, DigitSteps DEF Steps
  <2>. QED BY <2>1, <2>2, <2>4, StepsChain
<1>. QED BY <1>2, <1>3

LEMMA HexSteps ==
  ASSUME NEW words, NEW p, NEW q, Typed(p, q, words), Alike(p, q), p.hex > 0
  PROVE  Steps(p, q, Hex(p), Hex(q), words)
<1>. DEFINE num == copa_hex(p.c)
<1>1. num \in {-1} \cup 0 .. 15 /\ num = copa_hex(q.c) /\ p.hex - 1 = q.hex - 1 /\ p.hex - 1 \in Int
  BY HexValue DEF Typed, Parser, Alike
<1>. HIDE DEF num
<1>2. CASE num = -1
  <2>. DEFINE r == [p EXCEPT !.hex = 0]
              s == [q EXCEPT !.hex = 0]
  <2>1. Steps(p, q, r, s, words)
    BY DEF Typed, Parser, Alike, Steps, Still
  <2>2. Hex(p) = EndNumber(r) /\ Hex(q) = EndNumber(s)
    BY <1>1, <1>2 DEF Hex, num
  <2>. HIDE DEF r, s
  <2>3. Steps(r, s, EndNumber(r), EndNumber(s), words)
    BY <2>1, EndNumberSteps DEF Steps
  <2>. QED BY <2>1, <2>2, <2>3, StepsChain
<1>3. CASE num # -1
  <2>. DEFINE r == [p EXCEPT !.hex = @ - 1]
              s == [q EXCEPT !.hex = @ - 1]
              more == p.hex - 1
  <2>1. Steps(p, q, r, s, words)
    BY DEF Typed, Parser, Alike, Steps, Still
  <2>2. Hex(p) = Digit(r, 16, num, more) /\ Hex(q) = Digit(s, 16, num, more)
    BY <1>1, <1>3 DEF Hex, num
  <2>3. more \in Int /\ num \in 0 .. 15 /\ 16 \in {8, 16}
    BY <1>1, <1>3
  <2>. HIDE DEF r, s, more
  <2>4. Steps(r, s, Digit(r, 16, num, more), Digit(s, 16, num, more), words)
    BY <2>1, <2>3, DigitSteps DEF Steps
  <2>. QED BY <2>1, <2>2, <2>4, StepsChain
<1>. QED BY <1>2, <1>3

LEMMA EscapedSteps ==
  ASSUME NEW words, NEW p, NEW q, Typed(p, q, words), Alike(p, q)
  PROVE  Steps(p, q, Escaped(p), Escaped(q), words)
<1>. DEFINE num == copa_octal(p.c)
            char == Control(p.c)
<1>1. /\ num \in {-1} \cup 0 .. 7 /\ num = copa_octal(q.c)
      /\ char \in Byte /\ char = Control(q.c) /\ NUL \in Byte
  <2>1. p.c \in Byte /\ p.c = q.c
    BY DEF Typed, Parser, Alike
  <2>2. NUL \in Byte
    BY DEF NUL, Byte
  <2>3. num \in {-1} \cup 0 .. 7
    BY <2>1, OctalValue
  <2>4. char \in Byte
    BY <2>1, ControlValue
  <2>. QED BY <2>1, <2>2, <2>3, <2>4
<1>. HIDE DEF num, char
<1>2. CASE p.c \in X_NEWLINE
  <2>1. /\ Escaped(p) = [p EXCEPT !.escape = FALSE, !.c = NUL]
        /\ Escaped(q) = [q EXCEPT !.escape = FALSE, !.c = NUL]
    BY <1>2 DEF Escaped, X_NEWLINE, Alike, copa_octal
  <2>. QED BY <1>1, <2>1 DEF Typed, Parser, Alike, Steps, Still
<1>3. CASE p.c = 120
  <2>1. /\ Escaped(p) = [p EXCEPT !.escape = FALSE, !.c = NUL, !.hex = 2, !.numchar = 0]
        /\ Escaped(q) = [q EXCEPT !.escape = FALSE, !.c = NUL, !.hex = 2, !.numchar = 0]
    BY <1>3 DEF Escaped, X_NEWLINE, Alike, copa_octal
  <2>. DEFINE r == [p EXCEPT !.escape = FALSE, !.c = NUL]
              s == [q EXCEPT !.escape = FALSE, !.c = NUL]
  <2>2. Steps(p, q, r, s, words)
    BY <1>1 DEF Typed, Parser, Alike, Steps, Still
  <2>3. Escaped(p) = [r EXCEPT !.hex = 2, !.numchar = 0] /\ Escaped(q) = [s EXCEPT !.hex = 2, !.numchar = 0]
    BY <2>1
  <2>4. 0 \in Byte
    BY DEF Byte
  <2>. HIDE DEF r, s
  <2>5. Steps(r, s, Escaped(p), Escaped(q), words)
    <3>1. Typed(r, s, words) /\ Alike(r, s)
      BY <2>2 DEF Steps
    <3>. DEFINE x == [r EXCEPT !.hex = 2]
                y == [s EXCEPT !.hex = 2]
    <3>2. Steps(r, s, x, y, words)
      BY <3>1 DEF Typed, Parser, Alike, Steps, Still
    <3>3. Escaped(p) = [x EXCEPT !.numchar = 0] /\ Escaped(q) = [y EXCEPT !.numchar = 0]
      BY <2>3
    <3>. HIDE DEF x, y
    <3>4. Steps(x, y, Escaped(p), Escaped(q), words)
      BY <2>4, <3>2, <3>3 DEF Typed, Parser, Alike, Steps, Still
    <3>. QED BY <3>2, <3>4, StepsChain
  <2>. QED BY <2>2, <2>5, StepsChain
<1>4. CASE p.c \notin X_NEWLINE /\ p.c # 120 /\ num # -1
  <2>1. /\ Escaped(p) = [p EXCEPT !.escape = FALSE, !.c = NUL, !.octal = 3, !.numchar = num]
        /\ Escaped(q) = [q EXCEPT !.escape = FALSE, !.c = NUL, !.octal = 3, !.numchar = num]
    BY <1>1, <1>4 DEF Escaped, X_NEWLINE, Alike, num
  <2>2. num \in Byte
    BY <1>1, <1>4 DEF Byte
  <2>. DEFINE r == [p EXCEPT !.escape = FALSE, !.c = NUL]
              s == [q EXCEPT !.escape = FALSE, !.c = NUL]
  <2>3. Steps(p, q, r, s, words)
    BY <1>1 DEF Typed, Parser, Alike, Steps, Still
  <2>4. Escaped(p) = [r EXCEPT !.octal = 3, !.numchar = num] /\ Escaped(q) = [s EXCEPT !.octal = 3, !.numchar = num]
    BY <2>1
  <2>. HIDE DEF r, s
  <2>5. Steps(r, s, Escaped(p), Escaped(q), words)
    <3>1. Typed(r, s, words) /\ Alike(r, s)
      BY <2>3 DEF Steps
    <3>. DEFINE x == [r EXCEPT !.octal = 3]
                y == [s EXCEPT !.octal = 3]
    <3>2. Steps(r, s, x, y, words)
      BY <3>1 DEF Typed, Parser, Alike, Steps, Still
    <3>3. Escaped(p) = [x EXCEPT !.numchar = num] /\ Escaped(q) = [y EXCEPT !.numchar = num]
      BY <2>4
    <3>. HIDE DEF x, y
    <3>4. Steps(x, y, Escaped(p), Escaped(q), words)
      BY <2>2, <3>2, <3>3 DEF Typed, Parser, Alike, Steps, Still
    <3>. QED BY <3>2, <3>4, StepsChain
  <2>. QED BY <2>3, <2>5, StepsChain
<1>5. CASE p.c \notin X_NEWLINE /\ p.c # 120 /\ num = -1
  <2>1. /\ Escaped(p) = [p EXCEPT !.escape = FALSE, !.c = char]
        /\ Escaped(q) = [q EXCEPT !.escape = FALSE, !.c = char]
    BY <1>1, <1>5 DEF Escaped, X_NEWLINE, Alike, num, char
  <2>. QED BY <1>1, <2>1 DEF Typed, Parser, Alike, Steps, Still
<1>. QED BY <1>2, <1>3, <1>4, <1>5

LEMMA DecodeSteps ==
  ASSUME NEW words, NEW p, NEW q, Typed(p, q, words), Alike(p, q)
  PROVE  Steps(p, q, Decode(p), Decode(q), words)
<1>1. /\ p.octal \in Int /\ p.octal = q.octal /\ p.hex \in Int /\ p.hex = q.hex
      /\ p.escape \in BOOLEAN /\ p.escape = q.escape /\ p.c = q.c
  BY DEF Typed, Parser, Alike
<1>2. CASE p.octal > 0
  <2>1. Decode(p) = Octal(p) /\ Decode(q) = Octal(q)
    BY <1>1, <1>2 DEF Decode
  <2>. QED BY <1>2, <2>1, OctalSteps
<1>3. CASE ~ (p.octal > 0) /\ p.hex > 0
  <2>1. Decode(p) = Hex(p) /\ Decode(q) = Hex(q)
    BY <1>1, <1>3 DEF Decode
  <2>. QED BY <1>3, <2>1, HexSteps
<1>4. CASE ~ (p.octal > 0) /\ ~ (p.hex > 0) /\ p.escape
  <2>1. Decode(p) = Escaped(p) /\ Decode(q) = Escaped(q)
    BY <1>1, <1>4 DEF Decode
  <2>. QED BY <2>1, EscapedSteps
<1>5. CASE ~ (p.octal > 0) /\ ~ (p.hex > 0) /\ ~ p.escape /\ p.c = BACKSLASH
  <2>1. /\ Decode(p) = [p EXCEPT !.escape = TRUE, !.c = NUL]
        /\ Decode(q) = [q EXCEPT !.escape = TRUE, !.c = NUL]
    BY <1>1, <1>5 DEF Decode
  <2>2. NUL \in Byte
    BY DEF NUL, Byte
  <2>3. Typed(Decode(p), Decode(q), words)
    BY <2>1, <2>2 DEF Typed, Parser
  <2>. QED BY <2>1, <2>3 DEF Typed, Parser, Alike, Steps, Still
<1>6. CASE ~ (p.octal > 0) /\ ~ (p.hex > 0) /\ ~ p.escape /\ p.c # BACKSLASH
  <2>1. Decode(p) = p /\ Decode(q) = q
    BY <1>1, <1>6 DEF Decode
  <2>. QED BY <2>1 DEF Steps, Still
<1>. QED BY <1>2, <1>3, <1>4, <1>5, <1>6
-----------------------------------------------------------------------------
LEMMA PieceIs ==
  ASSUME NEW words, NEW p \in Parser(words), Size(p) \in Nat \ {0}, p.pos \in 0 .. Len(p.text)
  PROVE  LET n == IF Len(p.text) - p.pos < Size(p) THEN Len(p.text) - p.pos ELSE Size(p) IN
         /\ n \in 0 .. Size(p) /\ p.pos + n <= Len(p.text)
         /\ Piece(p) \in Seq(Byte) /\ Len(Piece(p)) = n
         /\ \A i \in 1 .. n : Piece(p)[i] = p.text[p.pos + i]
         /\ Piece(p) = <<>> <=> p.pos = Len(p.text)
<1>. DEFINE n == IF Len(p.text) - p.pos < Size(p) THEN Len(p.text) - p.pos ELSE Size(p)
            t == p.text
            piece == SubSeq(t, p.pos + 1, p.pos + n)
<1>1. t \in Seq(Byte) /\ Len(t) \in Nat /\ p.pos \in Nat /\ p.pos <= Len(t)
  BY LenProperties DEF Parser, Word
<1>2. n \in 0 .. Size(p) /\ n \in Nat /\ p.pos + n <= Len(t) /\ (n = 0 <=> p.pos = Len(t))
  <2>1. CASE Len(t) - p.pos < Size(p)
    <3>1. n = Len(t) - p.pos
      BY <2>1
    <3>. HIDE DEF n
    <3>. QED BY <1>1, <2>1, <3>1
  <2>2. CASE ~ (Len(t) - p.pos < Size(p))
    <3>1. n = Size(p)
      BY <2>2
    <3>. HIDE DEF n
    <3>. QED BY <1>1, <2>2, <3>1
  <2>. QED BY <2>1, <2>2
<1>3. Piece(p) = piece
  BY DEF Piece
<1>. HIDE DEF n, t
<1>4. /\ p.pos + 1 \in 1 .. Len(t) + 1 /\ p.pos + n \in p.pos + 1 - 1 .. Len(t)
      /\ (p.pos + n) - (p.pos + 1) + 1 = n
  BY <1>1, <1>2
<1>5. piece \in Seq(Byte) /\ Len(piece) = n /\ \A i \in 1 .. n : piece[i] = t[p.pos + 1 + i - 1]
  <2>. DEFINE a == p.pos + 1
              z == p.pos + n
  <2>1. a \in 1 .. Len(t) + 1 /\ z \in a - 1 .. Len(t) /\ z - a + 1 = n
    BY <1>4
  <2>. HIDE DEF a, z
  <2>2. /\ SubSeq(t, a, z) \in Seq(Byte) /\ Len(SubSeq(t, a, z)) = z - a + 1
        /\ \A i \in 1 .. z - a + 1 : SubSeq(t, a, z)[i] = t[a + i - 1]
    BY <1>1, <2>1, SubSeqProperties
  <2>. QED BY <2>1, <2>2 DEF a, z
<1>6. \A i \in 1 .. n : piece[i] = t[p.pos + i]
  <2>1. ASSUME NEW i \in 1 .. n PROVE piece[i] = t[p.pos + i]
    <3>1. p.pos + 1 + i - 1 = p.pos + i
      BY <1>1, <1>2
    <3>. QED BY <1>5, <3>1
  <2>. QED BY <2>1
<1>. HIDE DEF piece
<1>7. piece = <<>> <=> n = 0
  BY <1>5, EmptySeq
<1>. QED BY <1>2, <1>3, <1>5, <1>6, <1>7 DEF n, t

LEMMA CharRelated ==
  ASSUME NEW words, NEW p, NEW q, Related(p, q, words), p.offset < Size(p)
  PROVE  /\ Related(Char(p), Char(q), words)
         /\ q.offset < Size(q)
         /\ Char(q).offset = q.offset + 1 /\ Size(Char(q)) = Size(q)
<1>1. Typed(p, q, words) /\ Alike(p, q) /\ Abreast(p, q)
  BY DEF Related
<1>2. /\ Size(p) \in Nat \ {0} /\ p.offset \in 0 .. Size(p)
      /\ Size(q) \in Nat /\ q.offset \in 0 .. Size(q)
  BY <1>1, AbreastFacts
<1>3. PICK j \in Nat, k \in Nat : Piecewise(p, q.read_buffer, j, k) /\ q.offset = Size(p) * j + p.offset
  BY <1>1 DEF Abreast
<1>4. /\ p.read_buffer \in Seq(Byte) /\ q.read_buffer \in Seq(Byte)
      /\ Len(p.read_buffer) = Size(p) /\ Len(q.read_buffer) = Size(q)
  BY <1>1 DEF Typed, Parser, Word, Size
<1>5. q.offset < Size(q)
  <2>. DEFINE b == Size(p)
  <2>1. b \in Nat /\ j < k
    BY <1>2, <1>3 DEF Piecewise
  <2>2. b * j \in Nat /\ b * k \in Nat
    BY <2>1, TimesNat
  <2>. HIDE DEF b
  <2>3. b * j + b <= b * k
    BY <1>3, <2>1, TimesOrder
  <2>4. Size(q) = b * k /\ q.offset = b * j + p.offset
    BY <1>3 DEF Piecewise, Size, b
  <2>. QED BY <1>2, <2>1, <2>2, <2>3, <2>4 DEF b
<1>. DEFINE char == p.read_buffer[p.offset + 1]
            r == [p EXCEPT !.c = char, !.offset = @ + 1]
            s == [q EXCEPT !.c = char, !.offset = @ + 1]
<1>6. char = q.read_buffer[q.offset + 1] /\ char \in Byte
  <2>1. p.offset + 1 \in 1 .. Size(p)
    BY <1>2
  <2>2. char = q.read_buffer[Size(p) * j + (p.offset + 1)]
    BY <1>3, <2>1 DEF Piecewise
  <2>3. Size(p) * j + (p.offset + 1) = q.offset + 1
    <3>1. Size(p) * j \in Nat
      BY <1>2, TimesNat
    <3>. QED BY <1>2, <1>3, <3>1
  <2>4. char \in Byte
    BY <1>4, <2>1, ElementOfSeq
  <2>. QED BY <2>2, <2>3, <2>4
<1>7. Char(p) = Decode(r) /\ Char(q) = Decode(s)
  BY <1>6 DEF Char
<1>. HIDE DEF char
<1>8. Typed(r, s, words) /\ Alike(r, s)
  <2>1. /\ p.offset + 1 \in Nat /\ q.offset + 1 \in Nat
        /\ p \in Parser(words) /\ q \in Parser(words)
    BY <1>1, <1>2 DEF Typed
  <2>2. r \in Parser(words)
    BY <1>6, <2>1 DEF Parser
  <2>3. s \in Parser(words)
    BY <1>6, <2>1 DEF Parser
  <2>4. Alike(r, s)
    BY <1>1, <2>1 DEF Parser, Alike
  <2>. QED BY <2>2, <2>3, <2>4 DEF Typed
<1>9. /\ r.offset = p.offset + 1 /\ s.offset = q.offset + 1
      /\ r.text = p.text /\ s.text = q.text /\ r.pos = p.pos /\ s.pos = q.pos
      /\ r.read_buffer = p.read_buffer /\ s.read_buffer = q.read_buffer
  BY <1>1 DEF Typed, Parser
<1>. HIDE DEF r, s
<1>10. Abreast(r, s)
  <2>1. Piecewise(r, s.read_buffer, j, k)
    BY <1>3, <1>9 DEF Piecewise, Size
  <2>2. s.offset = Size(r) * j + r.offset
    <3>1. Size(p) * j \in Nat /\ Size(r) = Size(p)
      BY <1>2, <1>9, TimesNat DEF Size
    <3>. QED BY <1>2, <1>3, <1>9, <3>1
  <2>3. r.offset <= Size(r) /\ Size(r) > 0 /\ Size(r) = Size(p)
    BY <1>2, <1>9 DEF Size
  <2>4. s.pos = Len(s.text) /\ Fills(r.text, Size(r), s.read_buffer)
    BY <1>1, <1>9 DEF Abreast, Size
  <2>. QED BY <1>1, <2>1, <2>2, <2>3, <2>4 DEF Abreast
<1>11. Steps(r, s, Decode(r), Decode(s), words)
  BY <1>8, DecodeSteps
<1>12. Related(Decode(r), Decode(s), words)
  BY <1>8, <1>10, <1>11, StepsRelated DEF Related
<1>13. Decode(s).offset = q.offset + 1 /\ Decode(s).read_buffer = q.read_buffer
  BY <1>9, <1>11 DEF Steps, Still
<1>. QED BY <1>5, <1>7, <1>12, <1>13 DEF Size

(* A refill turns the buffer to the next piece, where q has it already. *)
LEMMA RefillRelated ==
  ASSUME NEW words, NEW p, NEW q, Related(p, q, words), ~ (p.offset < Size(p)), Piece(p) # <<>>
  PROVE  /\ Related(copa_refill(p), q, words)
         /\ copa_refill(p).offset < Size(copa_refill(p))
<1>1. Typed(p, q, words) /\ Alike(p, q) /\ Abreast(p, q)
  BY DEF Related
<1>2. /\ Size(p) \in Nat \ {0} /\ p.offset = Size(p)
      /\ Size(q) \in Nat /\ p.pos \in 0 .. Len(p.text)
  <2>1. /\ Size(p) \in Nat \ {0} /\ p.offset \in 0 .. Size(p)
        /\ Size(q) \in Nat /\ p.pos \in 0 .. Len(p.text)
    BY <1>1, AbreastFacts
  <2>. QED BY <2>1
<1>3. PICK j \in Nat, k \in Nat : Piecewise(p, q.read_buffer, j, k) /\ q.offset = Size(p) * j + p.offset
  BY <1>1 DEF Abreast
<1>. DEFINE b == Size(p)
            t == p.text
            l == Len(p.text)
            piece == Piece(p)
            n == IF l - p.pos < b THEN l - p.pos ELSE b
            read == q.read_buffer
            buffer == [i \in 1 .. b |-> IF i <= Len(piece) THEN piece[i] ELSE p.read_buffer[i]]
            r == [p EXCEPT !.read_buffer = buffer, !.pos = @ + n, !.offset = 0]
            u == b * j
<1>4. /\ n \in 0 .. b /\ p.pos + n <= l /\ piece \in Seq(Byte) /\ Len(piece) = n
      /\ \A i \in 1 .. n : piece[i] = t[p.pos + i]
      /\ p.pos # l
  <2>1. p \in Parser(words)
    BY <1>1 DEF Typed
  <2>. QED BY <1>2, <2>1, PieceIs
<1>5. copa_refill(p) = r
  <2>1. p.read_buffer = p.read_buffer /\ Size(p) = b
    OBVIOUS
  <2>. QED BY <1>4 DEF copa_refill
<1>6. /\ t \in Seq(Byte) /\ l \in Nat /\ p.pos \in Nat /\ p.read_buffer \in Seq(Byte) /\ Len(p.read_buffer) = b
      /\ read \in Seq(Byte)
  BY <1>1, LenProperties DEF Typed, Parser, Word, Size
<1>7. /\ l <= Len(read)
      /\ \A i \in 1 .. Len(read) : read[i] = IF i <= l THEN t[i] ELSE IF i > b THEN read[i - b] ELSE NUL
  BY <1>1 DEF Abreast, Fills
<1>8. u \in Nat /\ u + b < l /\ p.pos = u + b /\ q.offset = u + b /\ Len(read) = b * k
  <2>1. u \in Nat
    BY <1>2, TimesNat
  <2>2. /\ p.pos = IF b * j + b < l THEN b * j + b ELSE l
        /\ Len(read) = b * k
    BY <1>3 DEF Piecewise
  <2>. QED BY <1>2, <1>3, <1>4, <2>1, <2>2
<1>9. j + 1 \in Nat /\ b * (j + 1) = u + b
  BY <1>2, <1>3, TimesNext
<1>10. j + 1 < k
  <2>1. ASSUME ~ (j + 1 < k) PROVE FALSE
    <3>1. j < k
      BY <1>3 DEF Piecewise
    <3>2. k = j + 1
      BY <1>3, <2>1, <3>1
    <3>. QED BY <1>6, <1>7, <1>8, <1>9, <3>2, LenProperties
  <2>. QED BY <2>1
<1>11. u + b + b <= Len(read)
  <2>. HIDE DEF b, u
  <2>1. b \in Nat
    BY <1>2 DEF b
  <2>2. b * (j + 1) + b <= b * k
    BY <1>9, <1>10, <2>1, TimesOrder
  <2>. QED BY <1>8, <1>9, <2>2
<1>12. /\ r.offset = 0 /\ r.read_buffer = buffer /\ r.pos = p.pos + n /\ r.text = p.text
  BY <1>1 DEF Typed, Parser
<1>22. n = IF l - p.pos < b THEN l - p.pos ELSE b
  OBVIOUS
<1>23. b \in Nat \ {0}
  BY <1>2
<1>24. Size(p) = b /\ p.text = t /\ q.read_buffer = read /\ Len(t) = l
  OBVIOUS
<1>. HIDE DEF u, n, b, l, t, piece, read
<1>25. Len(read) \in Nat
  BY <1>6, LenProperties
<1>15. p.pos + n = IF u + b + b < l THEN u + b + b ELSE l
  BY <1>4, <1>6, <1>8, <1>22, <1>23
<1>16. p.pos + n \in Nat
  BY <1>4, <1>6, <1>23
<1>13. buffer \in Seq(Byte) /\ Len(buffer) = b
  <2>1. ASSUME NEW i \in 1 .. b PROVE buffer[i] \in Byte
    <3>1. CASE i <= Len(piece)
      BY <1>4, <3>1, ElementOfSeq
    <3>2. CASE ~ (i <= Len(piece))
      <4>1. p.read_buffer[i] \in Byte
        BY <1>6, ElementOfSeq
      <4>. QED BY <3>2, <4>1
    <3>. QED BY <3>1, <3>2
  <2>2. buffer \in [1 .. b -> Byte]
    BY <2>1
  <2>. HIDE DEF buffer
  <2>3. buffer \in Seq(Byte)
    BY <1>23, <2>2, SeqDef
  <2>. QED BY <1>23, <2>2, <2>3, LenProperties
<1>14. \A i \in 1 .. b : buffer[i] = read[u + b + i]
  <2>1. ASSUME NEW i \in 1 .. b PROVE buffer[i] = read[u + b + i]
    <3>1. u + b + i \in 1 .. Len(read) /\ u + b + i \in Int
      BY <1>6, <1>8, <1>11, <1>23, <1>25
    <3>2. read[u + b + i] = IF u + b + i <= l THEN t[u + b + i] ELSE IF u + b + i > b THEN read[(u + b + i) - b] ELSE NUL
      <4>. DEFINE m == u + b + i
      <4>1. m \in 1 .. Len(read)
        BY <3>1
      <4>. HIDE DEF m
      <4>2. read[m] = IF m <= l THEN t[m] ELSE IF m > b THEN read[m - b] ELSE NUL
        BY <1>7, <4>1
      <4>. QED BY <4>2 DEF m
    <3>3. CASE i <= n
      <4>1. u + b + i <= l
        BY <1>4, <1>6, <1>8, <1>23, <3>3
      <4>2. buffer[i] = t[u + b + i]
        BY <1>4, <1>8, <1>23, <3>3
      <4>. QED BY <3>2, <4>1, <4>2
    <3>4. CASE ~ (i <= n)
      <4>1. ~ (u + b + i <= l) /\ u + b + i > b /\ (u + b + i) - b = u + i
        BY <1>4, <1>6, <1>8, <1>15, <1>22, <1>23, <3>4
      <4>2. buffer[i] = p.read_buffer[i]
        BY <1>4, <3>4
      <4>3. p.read_buffer[i] = read[u + i]
        BY <1>3, <1>24 DEF Piecewise, u
      <4>. QED BY <3>2, <4>1, <4>2, <4>3
    <3>. QED BY <3>3, <3>4
  <2>. QED BY <2>1
<1>17. Typed(r, q, words) /\ Alike(r, q)
  <2>. HIDE DEF buffer, n
  <2>. QED BY <1>1, <1>13, <1>16 DEF Typed, Parser, Alike, Word
<1>. HIDE DEF r, buffer
<1>18. Size(r) = b
  BY <1>12, <1>13 DEF Size
<1>19. Piecewise(r, read, j + 1, k)
  BY <1>8, <1>9, <1>10, <1>12, <1>14, <1>15, <1>18, <1>24 DEF Piecewise
<1>20. q.offset = Size(r) * (j + 1) + r.offset
  BY <1>2, <1>8, <1>9, <1>12, <1>18
<1>21. Abreast(r, q)
  <2>1. q.pos = Len(q.text) /\ Fills(r.text, Size(r), q.read_buffer)
    BY <1>1, <1>12, <1>18, <1>24 DEF Abreast
  <2>2. Size(r) > 0 /\ Size(r) = BUFFER_SIZE /\ r.offset <= Size(r)
    <3>1. b = BUFFER_SIZE
      BY <1>1, <1>24 DEF Abreast
    <3>. QED BY <1>12, <1>18, <1>23, <3>1
  <2>3. \E i, m \in Nat : Piecewise(r, q.read_buffer, i, m) /\ q.offset = Size(r) * i + r.offset
    BY <1>3, <1>9, <1>19, <1>20, <1>24
  <2>. QED BY <2>1, <2>2, <2>3 DEF Abreast
<1>. QED BY <1>5, <1>12, <1>17, <1>18, <1>21, <1>23 DEF Related

(* Where the one file ends, so does the other. *)
LEMMA EndRelated ==
  ASSUME NEW words, NEW p, NEW q, Related(p, q, words), ~ (p.offset < Size(p)), Piece(p) = <<>>
  PROVE  q.offset = Size(q)
<1>1. Typed(p, q, words) /\ Alike(p, q) /\ Abreast(p, q)
  BY DEF Related
<1>2. /\ Size(p) \in Nat \ {0} /\ p.offset = Size(p)
      /\ Size(q) \in Nat /\ p.pos \in 0 .. Len(p.text) /\ q.offset \in 0 .. Size(q)
  <2>1. /\ Size(p) \in Nat \ {0} /\ p.offset \in 0 .. Size(p)
        /\ Size(q) \in Nat /\ p.pos \in 0 .. Len(p.text) /\ q.offset \in 0 .. Size(q)
    BY <1>1, AbreastFacts
  <2>. QED BY <2>1
<1>3. p.pos = Len(p.text)
  <2>1. p \in Parser(words)
    BY <1>1 DEF Typed
  <2>. QED BY <1>2, <2>1, PieceIs
<1>4. PICK j \in Nat, k \in Nat : Piecewise(p, q.read_buffer, j, k) /\ q.offset = Size(p) * j + p.offset
  BY <1>1 DEF Abreast
<1>. DEFINE b == Size(p)
            l == Len(p.text)
            u == b * j
<1>5. /\ Size(q) = b * k /\ j < k /\ l = (IF u + b < l THEN u + b ELSE l) /\ Size(q) < l + b
      /\ q.offset = u + b
  BY <1>1, <1>2, <1>3, <1>4 DEF Piecewise, Abreast, Fills, Size
<1>6. u \in Nat /\ l \in Nat
  <2>1. p.text \in Seq(Byte)
    BY <1>1 DEF Typed, Parser, Word
  <2>. QED BY <1>2, <2>1, TimesNat, LenProperties
<1>7. j + 1 \in Nat /\ b * (j + 1) = u + b
  BY <1>2, <1>4, TimesNext
<1>8. CASE k = j + 1
  BY <1>5, <1>7, <1>8
<1>9. CASE j + 1 < k
  <2>1. b \in Nat
    BY <1>2
  <2>. HIDE DEF b, u, l
  <2>2. b * (j + 1) + b <= b * k
    BY <1>7, <1>9, <2>1, TimesOrder
  <2>. QED BY <1>2, <1>5, <1>6, <1>7, <2>1, <2>2
<1>. QED BY <1>4, <1>5, <1>8, <1>9
-----------------------------------------------------------------------------
(* A set of naturals that is not empty has a least element: induction, for a
   property that is the set of its counterexamples. *)
LEMMA LeastPass ==
  ASSUME NEW S, S \subseteq Nat, S # {}
  PROVE  \E x \in S : \A y \in S : x <= y
<1>. DEFINE Less == OpToRel(<, Nat)
<1>1. IsWellFoundedOn(Less, Nat)
  BY NatLessThanWellFounded
<1>. HIDE DEF Less
<1>2. PICK x \in S : \A y \in S : ~ (<<y, x>> \in Less)
  BY <1>1, WFMin
<1>3. ASSUME NEW y \in S PROVE x <= y
  <2>1. ~ (<<y, x>> \in Less) /\ x \in Nat /\ y \in Nat
    BY <1>2
  <2>2. ~ (y < x)
    BY <2>1 DEF Less, OpToRel
  <2>. QED BY <2>1, <2>2
<1>. QED BY <1>3

(* The passes of a loop from a on, where step[x] is the pass that follows x. *)
Loops(f, n, a, step, ends) ==
  f = [i \in 0 .. n |-> IF i = 0 THEN step[a]
                        ELSE IF f[i - 1].c \in ends THEN f[i - 1] ELSE step[f[i - 1]]]

LEMMA LoopExists ==
  ASSUME NEW n \in Nat, NEW a, NEW step, NEW ends
  PROVE  \E f : Loops(f, n, a, step, ends)
<1>. DEFINE Bad == {k \in Nat : ~ \E f : Loops(f, k, a, step, ends)}
<1>1. ASSUME Bad # {} PROVE FALSE
  <2>1. PICK k \in Bad : \A i \in Bad : k <= i
    <3>1. Bad \subseteq Nat
      OBVIOUS
    <3>. HIDE DEF Bad
    <3>. QED BY <1>1, <3>1, LeastPass
  <2>2. k \in Nat /\ ~ \E f : Loops(f, k, a, step, ends)
    BY <2>1
  <2>3. CASE k = 0
    <3>. DEFINE f == [i \in 0 .. 0 |-> step[a]]
    <3>1. f = [i \in 0 .. 0 |-> IF i = 0 THEN step[a]
                               ELSE IF f[i - 1].c \in ends THEN f[i - 1] ELSE step[f[i - 1]]]
      <4>1. ASSUME NEW i \in 0 .. 0 PROVE i = 0
        OBVIOUS
      <4>. QED BY <4>1
    <3>. HIDE DEF f
    <3>2. Loops(f, 0, a, step, ends)
      BY <3>1 DEF Loops
    <3>. QED BY <2>2, <2>3, <3>2
  <2>4. CASE k # 0
    <3>1. k - 1 \in Nat /\ ~ (k <= k - 1)
      BY <2>2, <2>4
    <3>2. k - 1 \notin Bad
      BY <2>1, <3>1
    <3>3. PICK g : Loops(g, k - 1, a, step, ends)
      BY <3>1, <3>2
    <3>. DEFINE f == [i \in 0 .. k |-> IF i < k THEN g[i]
                                       ELSE IF g[k - 1].c \in ends THEN g[k - 1] ELSE step[g[k - 1]]]
                next(i) == IF i = 0 THEN step[a]
                           ELSE IF f[i - 1].c \in ends THEN f[i - 1] ELSE step[f[i - 1]]
    <3>4. ASSUME NEW i \in 0 .. k PROVE f[i] = next(i)
      <4>1. CASE i < k
        <5>1. i \in 0 .. k - 1
          BY <2>2, <4>1
        <5>2. g[i] = IF i = 0 THEN step[a] ELSE IF g[i - 1].c \in ends THEN g[i - 1] ELSE step[g[i - 1]]
          BY <3>3, <5>1 DEF Loops
        <5>3. i # 0 => f[i - 1] = g[i - 1]
          <6>1. i # 0 => i - 1 \in 0 .. k /\ i - 1 < k
            BY <2>2, <4>1
          <6>. QED BY <6>1
        <5>. QED BY <4>1, <5>2, <5>3
      <4>2. CASE ~ (i < k)
        <5>1. i = k /\ k - 1 \in 0 .. k /\ k - 1 < k /\ i # 0
          BY <2>2, <2>4, <4>2
        <5>2. f[k - 1] = g[k - 1]
          BY <5>1
        <5>3. f[i] = IF g[k - 1].c \in ends THEN g[k - 1] ELSE step[g[k - 1]]
          BY <4>2
        <5>. QED BY <5>1, <5>2, <5>3
      <4>. QED BY <4>1, <4>2
    <3>5. f = [i \in 0 .. k |-> f[i]]
      OBVIOUS
    <3>. HIDE DEF f
    <3>6. f = [i \in 0 .. k |-> next(i)]
      BY <3>4, <3>5
    <3>7. Loops(f, k, a, step, ends)
      BY <3>6 DEF Loops
    <3>. QED BY <2>2, <3>7
  <2>. QED BY <2>3, <2>4
<1>. QED BY <1>1

(* The same, but for passes that step says nothing of. *)
Walk(f, n, a, step, ends) ==
  /\ f[0] = step[a]
  /\ \A i \in 1 .. n : /\ f[i - 1].c \in ends => f[i] = f[i - 1]
                       /\ f[i - 1].c \notin ends /\ f[i - 1] \in DOMAIN step => f[i] = step[f[i - 1]]

LEMMA LoopWalks ==
  ASSUME NEW f, NEW n \in Nat, NEW a, NEW step, NEW ends, Loops(f, n, a, step, ends)
  PROVE  Walk(f, n, a, step, ends)
<1>1. ASSUME NEW i \in 0 .. n
      PROVE  f[i] = IF i = 0 THEN step[a] ELSE IF f[i - 1].c \in ends THEN f[i - 1] ELSE step[f[i - 1]]
  BY DEF Loops
<1>2. f[0] = step[a]
  BY <1>1
<1>3. ASSUME NEW i \in 1 .. n
      PROVE  f[i] = IF f[i - 1].c \in ends THEN f[i - 1] ELSE step[f[i - 1]]
  BY <1>1
<1>. QED BY <1>2, <1>3 DEF Walk

(* From its end on a loop changes nothing. *)
LEMMA WalkFreezes ==
  ASSUME NEW f, NEW n \in Nat, NEW a, NEW step, NEW ends, Walk(f, n, a, step, ends),
         NEW e \in 0 .. n, f[e].c \in ends
  PROVE  \A i \in e .. n : f[i] = f[e]
<1>. DEFINE Bad == {i \in e .. n : f[i] # f[e]}
<1>1. ASSUME Bad # {} PROVE FALSE
  <2>1. PICK k \in Bad : \A i \in Bad : k <= i
    <3>1. Bad \subseteq Nat
      OBVIOUS
    <3>. HIDE DEF Bad
    <3>. QED BY <1>1, <3>1, LeastPass
  <2>2. k \in e .. n /\ f[k] # f[e] /\ k # e
    BY <2>1
  <2>3. k \in 1 .. n /\ k - 1 \in e .. n /\ ~ (k <= k - 1)
    BY <2>2
  <2>4. f[k - 1] = f[e]
    BY <2>1, <2>3
  <2>5. f[k] = f[k - 1]
    BY <2>3, <2>4 DEF Walk
  <2>. QED BY <2>2, <2>4, <2>5
<1>. QED BY <1>1

(* Characters left in the whole text, each of which may be put back once. *)
Budget(q) == 2 * (Size(q) - q.offset) + (IF q.pushback = NUL THEN 0 ELSE 1)

(* A pass keeps two parsers related and takes a character, unless it stops. The words
   are some while the loop goes on and may be others when it ends. *)
Passes(step, going, ended, ends, stops) ==
  /\ DOMAIN step = Parser(going)
  /\ stops \subseteq ends
  /\ \A x, y : Related(x, y, going) =>
        /\ Related(step[x], step[y], ended)
        /\ step[x].c \in ends \/ Related(step[x], step[y], going)
        /\ step[y].c \in stops \/ Budget(step[y]) < Budget(y)

(* A loop ends with r. *)
EndsWith(f, n, ends, r) ==
  /\ \E i \in 0 .. n : f[i].c \in ends
  /\ \A i \in 0 .. n : f[i].c \in ends => f[i] = r

Result(q, r, s, ended, ends, stops) ==
  /\ Related(r, s, ended)
  /\ r.c \in ends
  /\ s.c \in stops \/ Budget(s) < Budget(q)

LEMMA EndChosen ==
  ASSUME NEW f, NEW n \in Nat, NEW ends, NEW r, EndsWith(f, n, ends, r)
  PROVE  f[CHOOSE i \in 0 .. n : f[i].c \in ends] = r
BY DEF EndsWith

LEMMA BudgetNat ==
  ASSUME NEW words, NEW p, NEW q, Related(p, q, words)
  PROVE  Budget(q) \in Nat /\ Budget(q) <= 2 * Left(p) + 1 /\ Budget(q) <= 2 * Left(q) + 1
         /\ 2 * Left(p) + 1 \in Nat /\ 2 * Left(q) + 1 \in Nat
<1>. DEFINE d == Size(q) - q.offset
<1>1. /\ Size(q) \in Nat /\ q.offset \in 0 .. Size(q) /\ d <= Left(p) /\ Left(q) = d
      /\ Size(p) \in Nat /\ p.offset \in 0 .. Size(p) /\ p.pos \in 0 .. Len(p.text)
  BY AbreastFacts DEF Related
<1>2. d \in Nat
  BY <1>1
<1>3. Left(p) \in Nat
  <2>1. p.text \in Seq(Byte)
    BY DEF Related, Typed, Parser, Word
  <2>2. Len(p.text) - p.pos \in Nat
    BY <1>1, <2>1, LenProperties
  <2>3. Size(p) * (Len(p.text) - p.pos) \in Nat
    BY <1>1, <2>2, TimesNat
  <2>. QED BY <1>1, <2>3 DEF Left
<1>4. Budget(q) = 2 * d + (IF q.pushback = NUL THEN 0 ELSE 1)
  BY DEF Budget
<1>. HIDE DEF d
<1>. QED BY <1>1, <1>2, <1>3, <1>4

(* Two loops of the same passes end with related parsers. *)
LEMMA WalksAgree ==
  ASSUME NEW step, NEW going, NEW ended, NEW ends, NEW stops, Passes(step, going, ended, ends, stops),
         NEW p, NEW q, Related(p, q, going),
         NEW m \in Nat, NEW n \in Nat, Budget(q) <= m, Budget(q) <= n,
         NEW f, NEW g, Walk(f, m, p, step, ends), Walk(g, n, q, step, ends)
  PROVE  /\ \E e \in 0 .. m : /\ Result(q, f[e], g[e], ended, ends, stops)
                              /\ EndsWith(f, m, ends, f[e])
                              /\ EndsWith(g, n, ends, g[e])
         /\ \A i \in 0 .. m : f[i].c \in ends \/ f[i] \in Parser(going)
         /\ \A i \in 0 .. n : g[i].c \in ends \/ g[i] \in Parser(going)
<1>. DEFINE k == IF m < n THEN m ELSE n
            Fine(i) == /\ Related(f[i], g[i], ended)
                       /\ f[i].c \in ends \/ Related(f[i], g[i], going)
                       /\ g[i].c \in stops \/ Budget(g[i]) < Budget(q)
                       /\ f[i].c \in ends \/ Budget(g[i]) + i < Budget(q)
            Bad == {i \in 0 .. k : ~ Fine(i)}
<1>1. k \in Nat /\ k <= m /\ k <= n /\ Budget(q) <= k /\ (k = m \/ k = n)
  BY BudgetNat
<1>. HIDE DEF k
<1>2. Budget(q) \in Nat
  BY BudgetNat
<1>3. Fine(0)
  <2>1. f[0] = step[p] /\ g[0] = step[q]
    BY DEF Walk
  <2>2. /\ Related(f[0], g[0], ended)
        /\ f[0].c \in ends \/ Related(f[0], g[0], going)
        /\ g[0].c \in stops \/ Budget(g[0]) < Budget(q)
    BY <2>1 DEF Passes
  <2>3. stops \subseteq ends /\ f[0].c = g[0].c
    BY <2>2 DEF Passes, Related, Alike
  <2>4. Budget(g[0]) \in Nat
    BY <2>2, BudgetNat
  <2>. QED BY <1>2, <2>2, <2>3, <2>4
<1>4. ASSUME NEW i \in 1 .. k, Fine(i - 1) PROVE Fine(i)
  <2>1. i \in 1 .. m /\ i \in 1 .. n
    BY <1>1
  <2>2. f[i - 1].c = g[i - 1].c
    BY <1>4 DEF Related, Alike
  <2>3. CASE f[i - 1].c \in ends
    <3>1. f[i] = f[i - 1] /\ g[i] = g[i - 1]
      BY <2>1, <2>2, <2>3 DEF Walk
    <3>. QED BY <1>4, <2>3, <3>1
  <2>4. CASE f[i - 1].c \notin ends
    <3>1. Related(f[i - 1], g[i - 1], going)
      BY <1>4, <2>4
    <3>2. f[i - 1] \in DOMAIN step /\ g[i - 1] \in DOMAIN step
      BY <3>1 DEF Related, Typed, Passes
    <3>3. f[i] = step[f[i - 1]] /\ g[i] = step[g[i - 1]]
      BY <2>1, <2>2, <2>4, <3>2 DEF Walk
    <3>4. /\ Related(f[i], g[i], ended)
          /\ f[i].c \in ends \/ Related(f[i], g[i], going)
          /\ g[i].c \in stops \/ Budget(g[i]) < Budget(g[i - 1])
      BY <3>1, <3>3 DEF Passes
    <3>5. stops \subseteq ends /\ f[i].c = g[i].c
      BY <3>4 DEF Passes, Related, Alike
    <3>6. Budget(g[i]) \in Nat /\ Budget(g[i - 1]) \in Nat
      BY <3>1, <3>4, BudgetNat
    <3>7. Budget(g[i - 1]) + (i - 1) < Budget(q)
      BY <1>4, <2>4
    <3>8. g[i].c \in stops \/ (Budget(g[i]) < Budget(q) /\ Budget(g[i]) + i < Budget(q))
      BY <1>2, <3>4, <3>6, <3>7
    <3>. QED BY <3>4, <3>5, <3>8
  <2>. QED BY <2>3, <2>4
<1>5. ASSUME Bad # {} PROVE FALSE
  <2>1. PICK i \in Bad : \A x \in Bad : i <= x
    <3>1. Bad \subseteq Nat
      BY <1>1
    <3>. HIDE DEF Bad
    <3>. QED BY <1>5, <3>1, LeastPass
  <2>2. i \in 0 .. k /\ ~ Fine(i)
    BY <2>1
  <2>. HIDE DEF Fine
  <2>3. i # 0
    BY <1>3, <2>2
  <2>4. i \in 1 .. k /\ i - 1 \in 0 .. k /\ ~ (i <= i - 1)
    BY <1>1, <2>2, <2>3
  <2>5. Fine(i - 1)
    BY <2>1, <2>4
  <2>. QED BY <1>4, <2>2, <2>4, <2>5
<1>6. ASSUME NEW i \in 0 .. k PROVE Fine(i)
  BY <1>5
<1>. HIDE DEF Bad
<1>7. f[k].c \in ends
  <2>1. k \in 0 .. k
    BY <1>1
  <2>2. Fine(k)
    BY <1>6, <2>1
  <2>3. Budget(g[k]) \in Nat
    BY <2>2, BudgetNat
  <2>. QED BY <1>1, <1>2, <2>2, <2>3
<1>. DEFINE Ends == {i \in 0 .. k : f[i].c \in ends}
<1>8. PICK e \in Ends : \A i \in Ends : e <= i
  <2>1. Ends \subseteq Nat /\ Ends # {}
    BY <1>1, <1>7
  <2>. HIDE DEF Ends
  <2>. QED BY <2>1, LeastPass
<1>9. /\ e \in 0 .. k /\ e \in 0 .. m /\ e \in 0 .. n /\ f[e].c \in ends
      /\ \A i \in 0 .. k : i < e => f[i].c \notin ends
  <2>1. e \in 0 .. k /\ f[e].c \in ends
    BY <1>8
  <2>2. ASSUME NEW i \in 0 .. k, i < e PROVE f[i].c \notin ends
    <3>1. ~ (e <= i)
      BY <2>1, <2>2
    <3>. QED BY <1>8, <3>1
  <2>. QED BY <1>1, <2>1, <2>2
<1>10. ASSUME NEW i \in 0 .. k PROVE f[i].c = g[i].c
  <2>1. Related(f[i], g[i], ended)
    BY <1>6
  <2>. QED BY <2>1 DEF Related, Alike
<1>11. g[e].c \in ends
  BY <1>9, <1>10
<1>12. (\A i \in e .. m : f[i] = f[e]) /\ (\A i \in e .. n : g[i] = g[e])
  BY <1>9, <1>11, WalkFreezes
<1>13. ASSUME NEW i \in 0 .. m
       PROVE  IF i < e THEN f[i].c \notin ends /\ f[i] \in Parser(going) ELSE f[i] = f[e]
  <2>1. CASE i < e
    <3>1. i \in 0 .. k
      BY <1>1, <1>9, <2>1
    <3>2. f[i].c \notin ends
      BY <1>9, <2>1, <3>1
    <3>3. Related(f[i], g[i], going)
      BY <1>6, <3>1, <3>2
    <3>. QED BY <2>1, <3>2, <3>3 DEF Related, Typed
  <2>2. CASE ~ (i < e)
    <3>1. i \in e .. m
      BY <1>9, <2>2
    <3>. QED BY <1>12, <2>2, <3>1
  <2>. QED BY <2>1, <2>2
<1>14. ASSUME NEW i \in 0 .. n
       PROVE  IF i < e THEN g[i].c \notin ends /\ g[i] \in Parser(going) ELSE g[i] = g[e]
  <2>1. CASE i < e
    <3>1. i \in 0 .. k
      BY <1>1, <1>9, <2>1
    <3>2. f[i].c \notin ends /\ g[i].c \notin ends
      BY <1>9, <1>10, <2>1, <3>1
    <3>3. Related(f[i], g[i], going)
      BY <1>6, <3>1, <3>2
    <3>. QED BY <2>1, <3>2, <3>3 DEF Related, Typed
  <2>2. CASE ~ (i < e)
    <3>1. i \in e .. n
      BY <1>9, <2>2
    <3>. QED BY <1>12, <2>2, <3>1
  <2>. QED BY <2>1, <2>2
<1>15. Result(q, f[e], g[e], ended, ends, stops)
  <2>1. Related(f[e], g[e], ended) /\ (g[e].c \in stops \/ Budget(g[e]) < Budget(q))
    BY <1>6, <1>9
  <2>. QED BY <1>9, <2>1 DEF Result
<1>16. EndsWith(f, m, ends, f[e]) /\ EndsWith(g, n, ends, g[e])
  BY <1>9, <1>11, <1>13, <1>14 DEF EndsWith
<1>. QED BY <1>9, <1>11, <1>13, <1>14, <1>15, <1>16
-----------------------------------------------------------------------------
(* The passes of copa_next. *)
FetchPass(q) ==
  CASE q.offset < Size(q) -> Char(q)
    [] q.offset >= Size(q) /\ Piece(q) = <<>> -> [copa_refill(q) EXCEPT !.c = EOF]
    [] OTHER -> Char(copa_refill(q))

FetchTo(f, n, p) ==
  f = [i \in 0 .. n |-> IF i = 0 THEN FetchPass(p)
                        ELSE IF f[i - 1].c \in 1 .. 255 THEN f[i - 1] ELSE FetchPass(f[i - 1])]

LEMMA FetchIs ==
  ASSUME NEW p
  PROVE  LET n == 2 * Left(p) + 1
             f == CHOOSE g : FetchTo(g, n, p)
         IN  Fetch(p) = f[CHOOSE i \in 0 .. n : f[i].c \in 1 .. 255]
BY DEF Fetch, Loop, FetchPass, FetchTo

LEMMA FetchPassRelated ==
  ASSUME NEW words, NEW p, NEW q, Related(p, q, words)
  PROVE  /\ Related(FetchPass(p), FetchPass(q), words)
         /\ FetchPass(q).c = EOF \/ Budget(FetchPass(q)) < Budget(q)
<1>1. Typed(p, q, words) /\ Alike(p, q) /\ Abreast(p, q)
  BY DEF Related
<1>2. /\ Size(p) \in Nat \ {0} /\ p.offset \in 0 .. Size(p)
      /\ Size(q) \in Nat /\ q.offset \in 0 .. Size(q) /\ Piece(q) = <<>>
  BY <1>1, AbreastFacts
<1>3. ASSUME NEW r, Related(r, q, words), r.offset < Size(r)
      PROVE  /\ Related(Char(r), FetchPass(q), words)
             /\ Budget(FetchPass(q)) < Budget(q)
  <2>1. /\ Related(Char(r), Char(q), words) /\ q.offset < Size(q)
        /\ Char(q).offset = q.offset + 1 /\ Size(Char(q)) = Size(q)
    BY <1>3, CharRelated
  <2>2. FetchPass(q) = Char(q)
    BY <1>2, <2>1 DEF FetchPass
  <2>3. Budget(Char(q)) < Budget(q)
    BY <1>2, <2>1 DEF Budget
  <2>. QED BY <2>1, <2>2, <2>3
<1>4. CASE p.offset < Size(p)
  <2>1. FetchPass(p) = Char(p)
    BY <1>2, <1>4 DEF FetchPass
  <2>. QED BY <1>3, <1>4, <2>1
<1>5. CASE ~ (p.offset < Size(p)) /\ Piece(p) # <<>>
  <2>1. Related(copa_refill(p), q, words) /\ copa_refill(p).offset < Size(copa_refill(p))
    BY <1>5, RefillRelated
  <2>2. FetchPass(p) = Char(copa_refill(p))
    BY <1>2, <1>5 DEF FetchPass
  <2>3. /\ Related(Char(copa_refill(p)), FetchPass(q), words)
        /\ Budget(FetchPass(q)) < Budget(q)
    BY <1>3, <2>1
  <2>. QED BY <2>2, <2>3
<1>6. CASE ~ (p.offset < Size(p)) /\ Piece(p) = <<>>
  <2>1. q.offset = Size(q)
    BY <1>6, EndRelated
  <2>2. p.offset >= Size(p) /\ q.offset >= Size(q) /\ ~ (q.offset < Size(q))
    BY <1>2, <1>6, <2>1
  <2>3. /\ FetchPass(p) = [copa_refill(p) EXCEPT !.c = EOF]
        /\ FetchPass(q) = [copa_refill(q) EXCEPT !.c = EOF]
    BY <1>2, <1>6, <2>2 DEF FetchPass
  <2>4. /\ copa_refill(p) = [p EXCEPT !.active = FALSE]
        /\ copa_refill(q) = [q EXCEPT !.active = FALSE]
    BY <1>2, <1>6 DEF copa_refill
  <2>. DEFINE r == [p EXCEPT !.active = FALSE]
              s == [q EXCEPT !.active = FALSE]
  <2>5. Steps(p, q, r, s, words)
    BY <1>1 DEF Typed, Parser, Alike, Steps, Still
  <2>6. FetchPass(p) = [r EXCEPT !.c = EOF] /\ FetchPass(q) = [s EXCEPT !.c = EOF]
    BY <2>3, <2>4
  <2>7. EOF \in Byte
    BY DEF EOF, Byte
  <2>. HIDE DEF r, s
  <2>8. Steps(r, s, FetchPass(p), FetchPass(q), words) /\ FetchPass(q).c = EOF
    BY <2>5, <2>6, <2>7 DEF Typed, Parser, Alike, Steps, Still
  <2>9. Steps(p, q, FetchPass(p), FetchPass(q), words)
    BY <2>5, <2>8, StepsChain
  <2>. QED BY <2>8, <2>9, StepsRelated
<1>. QED BY <1>4, <1>5, <1>6

LEMMA FetchRelated ==
  ASSUME NEW words, NEW p, NEW q, Related(p, q, words)
  PROVE  Result(q, Fetch(p), Fetch(q), words, 1 .. 255, {EOF})
<1>. DEFINE step == [x \in Parser(words) |-> FetchPass(x)]
            ends == 1 .. 255
            stops == {EOF}
            m == 2 * Left(p) + 1
            n == 2 * Left(q) + 1
            f == CHOOSE x : FetchTo(x, m, p)
            g == CHOOSE x : FetchTo(x, n, q)
<1>1. Passes(step, words, words, ends, stops)
  <2>1. stops \subseteq ends
    BY DEF EOF
  <2>2. ASSUME NEW x, NEW y, Related(x, y, words)
        PROVE  /\ Related(step[x], step[y], words)
               /\ step[y].c \in stops \/ Budget(step[y]) < Budget(y)
    <3>1. step[x] = FetchPass(x) /\ step[y] = FetchPass(y)
      BY <2>2 DEF Related, Typed
    <3>. QED BY <2>2, <3>1, FetchPassRelated
  <2>. HIDE DEF ends, stops
  <2>. QED BY <2>1, <2>2 DEF Passes
<1>2. m \in Nat /\ n \in Nat /\ Budget(q) <= m /\ Budget(q) <= n
  BY BudgetNat
<1>3. p \in Parser(words) /\ q \in Parser(words)
  BY DEF Related, Typed
<1>4. \A x \in Parser(words) : step[x] = FetchPass(x)
  OBVIOUS
<1>5. DOMAIN step = Parser(words)
  OBVIOUS
<1>. HIDE DEF step, m, n, ends, stops
<1>6. PICK x : Loops(x, m, p, step, ends)
  BY <1>2, LoopExists
<1>7. PICK y : Loops(y, n, q, step, ends)
  BY <1>2, LoopExists
<1>8. /\ \A i \in 0 .. m : x[i].c \in ends \/ x[i] \in Parser(words)
      /\ \A i \in 0 .. n : y[i].c \in ends \/ y[i] \in Parser(words)
  <2>1. Walk(x, m, p, step, ends) /\ Walk(y, n, q, step, ends)
    BY <1>2, <1>6, <1>7, LoopWalks
  <2>. QED BY <1>1, <1>2, <2>1, WalksAgree
<1>9. FetchTo(x, m, p)
  <2>1. x = [i \in 0 .. m |-> IF i = 0 THEN step[p] ELSE IF x[i - 1].c \in ends THEN x[i - 1] ELSE step[x[i - 1]]]
    BY <1>6 DEF Loops
  <2>2. ASSUME NEW i \in 0 .. m, i # 0 PROVE x[i - 1].c \in ends \/ step[x[i - 1]] = FetchPass(x[i - 1])
    <3>1. i - 1 \in 0 .. m
      BY <1>2, <2>2
    <3>. QED BY <1>4, <1>8, <3>1
  <2>3. step[p] = FetchPass(p)
    BY <1>3, <1>4
  <2>4. x = [i \in 0 .. m |-> IF i = 0 THEN FetchPass(p) ELSE IF x[i - 1].c \in ends THEN x[i - 1] ELSE FetchPass(x[i - 1])]
    BY <2>1, <2>2, <2>3
  <2>. QED BY <2>4 DEF FetchTo, ends
<1>10. FetchTo(y, n, q)
  <2>1. y = [i \in 0 .. n |-> IF i = 0 THEN step[q] ELSE IF y[i - 1].c \in ends THEN y[i - 1] ELSE step[y[i - 1]]]
    BY <1>7 DEF Loops
  <2>2. ASSUME NEW i \in 0 .. n, i # 0 PROVE y[i - 1].c \in ends \/ step[y[i - 1]] = FetchPass(y[i - 1])
    <3>1. i - 1 \in 0 .. n
      BY <1>2, <2>2
    <3>. QED BY <1>4, <1>8, <3>1
  <2>3. step[q] = FetchPass(q)
    BY <1>3, <1>4
  <2>4. y = [i \in 0 .. n |-> IF i = 0 THEN FetchPass(q) ELSE IF y[i - 1].c \in ends THEN y[i - 1] ELSE FetchPass(y[i - 1])]
    BY <2>1, <2>2, <2>3
  <2>. QED BY <2>4 DEF FetchTo, ends
<1>11. FetchTo(f, m, p) /\ FetchTo(g, n, q)
  BY <1>9, <1>10
<1>12. Fetch(p) = f[CHOOSE i \in 0 .. m : f[i].c \in ends] /\ Fetch(q) = g[CHOOSE i \in 0 .. n : g[i].c \in ends]
  BY FetchIs DEF m, n, ends
<1>. HIDE DEF f, g
<1>13. ASSUME NEW h, NEW k \in Nat, NEW z \in Parser(words), FetchTo(h, k, z)
       PROVE  Walk(h, k, z, step, ends)
  <2>1. ASSUME NEW i \in 0 .. k
        PROVE  h[i] = IF i = 0 THEN FetchPass(z) ELSE IF h[i - 1].c \in ends THEN h[i - 1] ELSE FetchPass(h[i - 1])
    BY <1>13 DEF FetchTo, ends
  <2>2. h[0] = step[z]
    BY <1>4, <2>1
  <2>3. ASSUME NEW i \in 1 .. k
        PROVE  h[i] = IF h[i - 1].c \in ends THEN h[i - 1] ELSE FetchPass(h[i - 1])
    BY <2>1
  <2>. QED BY <1>4, <1>5, <2>2, <2>3 DEF Walk
<1>14. Walk(f, m, p, step, ends) /\ Walk(g, n, q, step, ends)
  BY <1>2, <1>3, <1>11, <1>13
<1>15. PICK e \in 0 .. m : /\ Result(q, f[e], g[e], words, ends, stops)
                           /\ EndsWith(f, m, ends, f[e])
                           /\ EndsWith(g, n, ends, g[e])
  BY <1>1, <1>2, <1>14, WalksAgree
<1>16. Fetch(p) = f[e] /\ Fetch(q) = g[e]
  BY <1>2, <1>12, <1>15, EndChosen
<1>. QED BY <1>15, <1>16 DEF ends, stops
-----------------------------------------------------------------------------
LEMMA RelatedMore ==
  ASSUME NEW some, NEW more, some \subseteq more, NEW p, NEW q, Related(p, q, some)
  PROVE  Related(p, q, more)
BY DEF Related, Typed, Parser

LEMMA PutBackRelated ==
  ASSUME NEW words, NEW p, NEW q, Related(p, q, words)
  PROVE  Related([p EXCEPT !.pushback = p.c], [q EXCEPT !.pushback = q.c], words)
<1>. DEFINE r == [p EXCEPT !.pushback = p.c]
            s == [q EXCEPT !.pushback = q.c]
<1>1. Typed(p, q, words) /\ Alike(p, q)
  BY DEF Related
<1>2. p.c \in Byte /\ q.c = p.c
  BY <1>1 DEF Typed, Parser, Alike
<1>3. Steps(p, q, r, s, words)
  BY <1>1, <1>2 DEF Typed, Parser, Alike, Steps, Still
<1>. HIDE DEF r, s
<1>4. Related(r, s, words)
  BY <1>3, StepsRelated
<1>. QED BY <1>4 DEF r, s

LEMMA FailRelated ==
  ASSUME NEW words, NEW p, NEW q, Related(p, q, words), NULL \in words
  PROVE  Related([p EXCEPT !.active = FALSE, !.word = NULL], [q EXCEPT !.active = FALSE, !.word = NULL], words)
<1>. DEFINE r == [p EXCEPT !.active = FALSE, !.word = NULL]
            s == [q EXCEPT !.active = FALSE, !.word = NULL]
<1>1. Typed(p, q, words) /\ Alike(p, q)
  BY DEF Related
<1>2. Steps(p, q, r, s, words)
  BY <1>1 DEF Typed, Parser, Alike, Steps, Still
<1>. HIDE DEF r, s
<1>3. Related(r, s, words)
  BY <1>2, StepsRelated
<1>. QED BY <1>3 DEF r, s

(* copa_next takes the character that was put back, or fetches one. *)
LEMMA NextRelated ==
  ASSUME NEW words, NEW p, NEW q, Related(p, q, words)
  PROVE  /\ Related(copa_next(p), copa_next(q), words)
         /\ copa_next(q).c = EOF \/ Budget(copa_next(q)) < Budget(q)
<1>1. Typed(p, q, words) /\ Alike(p, q) /\ Abreast(p, q)
  BY DEF Related
<1>2. p.pushback = q.pushback /\ p.pushback \in Byte /\ NUL \in Byte
  BY <1>1 DEF Typed, Parser, Alike, NUL, Byte
<1>3. CASE p.pushback # NUL
  <2>. DEFINE r == [p EXCEPT !.c = p.pushback, !.pushback = NUL]
              s == [q EXCEPT !.c = p.pushback, !.pushback = NUL]
  <2>1. Steps(p, q, r, s, words)
    BY <1>1, <1>2 DEF Typed, Parser, Alike, Steps, Still
  <2>2. copa_next(p) = r /\ copa_next(q) = s
    BY <1>2, <1>3 DEF copa_next
  <2>3. s.pushback = NUL /\ s.offset = q.offset /\ Size(s) = Size(q)
    BY <1>1 DEF Typed, Parser, Size
  <2>. HIDE DEF r, s
  <2>4. Budget(s) < Budget(q)
    <3>1. Size(q) \in Nat /\ q.offset \in 0 .. Size(q)
      BY <1>1, AbreastFacts
    <3>. QED BY <1>2, <1>3, <2>3, <3>1 DEF Budget
  <2>. QED BY <2>1, <2>2, <2>4, StepsRelated
<1>4. CASE p.pushback = NUL
  <2>1. copa_next(p) = Fetch(p) /\ copa_next(q) = Fetch(q)
    BY <1>2, <1>4 DEF copa_next
  <2>2. Result(q, Fetch(p), Fetch(q), words, 1 .. 255, {EOF})
    BY FetchRelated
  <2>. QED BY <2>1, <2>2 DEF Result
<1>. QED BY <1>3, <1>4

LEMMA PeekRelated ==
  ASSUME NEW words, NEW p, NEW q, Related(p, q, words)
  PROVE  Related(copa_peek(p), copa_peek(q), words)
<1>1. Typed(p, q, words) /\ Alike(p, q)
  BY DEF Related
<1>2. p.pushback = q.pushback /\ p.pushback \in Byte
  BY <1>1 DEF Typed, Parser, Alike
<1>3. CASE p.pushback # NUL
  <2>. DEFINE r == [p EXCEPT !.c = p.pushback]
              s == [q EXCEPT !.c = p.pushback]
  <2>1. Steps(p, q, r, s, words)
    BY <1>1, <1>2 DEF Typed, Parser, Alike, Steps, Still
  <2>2. copa_peek(p) = r /\ copa_peek(q) = s
    BY <1>2, <1>3 DEF copa_peek
  <2>. HIDE DEF r, s
  <2>. QED BY <2>1, <2>2, StepsRelated
<1>4. CASE p.pushback = NUL
  <2>. DEFINE x == copa_next(p)
              y == copa_next(q)
  <2>1. Related(x, y, words) /\ x.c = y.c
    <3>1. Related(x, y, words)
      BY NextRelated
    <3>. QED BY <3>1 DEF Related, Alike
  <2>2. /\ copa_peek(p) = IF x.c = EOF THEN x ELSE [x EXCEPT !.pushback = x.c]
        /\ copa_peek(q) = IF y.c = EOF THEN y ELSE [y EXCEPT !.pushback = y.c]
    BY <1>2, <1>4 DEF copa_peek
  <2>. HIDE DEF x, y
  <2>3. Related([x EXCEPT !.pushback = x.c], [y EXCEPT !.pushback = y.c], words)
    BY <2>1, PutBackRelated
  <2>. QED BY <2>1, <2>2, <2>3
<1>. QED BY <1>3, <1>4
-----------------------------------------------------------------------------
(* The passes of copa_skip_to and copa_skip_over, and those of copa_slurp_to, which
   keep what they pass. *)
CharsPass(q, good, bad, slurps) ==
  LET x == copa_next(q)
  IN  IF x.c = EOF THEN x
      ELSE IF x.c \in good THEN [x EXCEPT !.pushback = x.c]
      ELSE IF x.c \in bad THEN [x EXCEPT !.pushback = x.c, !.active = FALSE, !.word = NULL]
      ELSE IF slurps THEN [x EXCEPT !.word = Append(@, x.c)]
      ELSE x

CharsTo(f, n, p, good, bad, slurps) ==
  f = [i \in 0 .. n |-> IF i = 0 THEN CharsPass(p, good, bad, slurps)
                        ELSE IF f[i - 1].c \in good \cup bad \cup {EOF} THEN f[i - 1]
                        ELSE CharsPass(f[i - 1], good, bad, slurps)]

CharsEnd(p, good, bad, slurps) ==
  LET n == 2 * Left(p) + 1
      f == CHOOSE g : CharsTo(g, n, p, good, bad, slurps)
  IN  f[CHOOSE i \in 0 .. n : f[i].c \in good \cup bad \cup {EOF}]

LEMMA SlurpIs ==
  ASSUME NEW p, NEW good, NEW bad PROVE Slurp(p, good, bad) = CharsEnd(p, good, bad, TRUE)
BY DEF Slurp, Loop, CharsPass, CharsTo, CharsEnd, copa_cin

UntilPass(q, class) ==
  LET x == copa_next(q)
  IN  IF x.c # EOF /\ copa_cin(x.c, class) THEN [x EXCEPT !.pushback = x.c] ELSE x

UntilTo(f, n, p, class) ==
  f = [i \in 0 .. n |-> IF i = 0 THEN UntilPass(p, class)
                        ELSE IF f[i - 1].c \in class \cup {EOF} THEN f[i - 1]
                        ELSE UntilPass(f[i - 1], class)]

LEMMA PassUntilIs ==
  ASSUME NEW p, NEW class PROVE PassUntil(p, class) = CharsEnd(p, class, {}, FALSE)
<1>. DEFINE n == 2 * Left(p) + 1
            f == CHOOSE g : UntilTo(g, n, p, class)
            h == CHOOSE g : CharsTo(g, n, p, class, {}, FALSE)
<1>1. PassUntil(p, class) = f[CHOOSE i \in 0 .. n : f[i].c \in class \cup {EOF}]
  BY DEF PassUntil, Loop, UntilPass, UntilTo
<1>2. CharsEnd(p, class, {}, FALSE) = h[CHOOSE i \in 0 .. n : h[i].c \in class \cup {} \cup {EOF}]
  BY DEF CharsEnd
<1>3. class \cup {} \cup {EOF} = class \cup {EOF}
  OBVIOUS
<1>4. ASSUME NEW q PROVE CharsPass(q, class, {}, FALSE) = UntilPass(q, class)
  <2>. DEFINE x == copa_next(q)
  <2>1. CharsPass(q, class, {}, FALSE)
        = IF x.c = EOF THEN x ELSE IF x.c \in class THEN [x EXCEPT !.pushback = x.c] ELSE x
    BY DEF CharsPass
  <2>2. UntilPass(q, class) = IF x.c # EOF /\ x.c \in class THEN [x EXCEPT !.pushback = x.c] ELSE x
    BY DEF UntilPass, copa_cin
  <2>. HIDE DEF x
  <2>3. CASE x.c = EOF
    BY <2>1, <2>2, <2>3
  <2>4. CASE x.c # EOF /\ x.c \in class
    BY <2>1, <2>2, <2>4
  <2>5. CASE x.c # EOF /\ x.c \notin class
    BY <2>1, <2>2, <2>5
  <2>. QED BY <2>3, <2>4, <2>5
<1>. HIDE DEF n
<1>5. ASSUME NEW g PROVE CharsTo(g, n, p, class, {}, FALSE) <=> UntilTo(g, n, p, class)
  <2>. DEFINE one == [i \in 0 .. n |-> IF i = 0 THEN CharsPass(p, class, {}, FALSE)
                                       ELSE IF g[i - 1].c \in class \cup {} \cup {EOF} THEN g[i - 1]
                                       ELSE CharsPass(g[i - 1], class, {}, FALSE)]
              two == [i \in 0 .. n |-> IF i = 0 THEN UntilPass(p, class)
                                       ELSE IF g[i - 1].c \in class \cup {EOF} THEN g[i - 1]
                                       ELSE UntilPass(g[i - 1], class)]
  <2>1. one = two
    <3>1. ASSUME NEW i \in 0 .. n PROVE one[i] = two[i]
      <4>1. g[i - 1].c \in class \cup {} \cup {EOF} <=> g[i - 1].c \in class \cup {EOF}
        OBVIOUS
      <4>. QED BY <1>4, <4>1
    <3>2. one = [i \in 0 .. n |-> one[i]] /\ two = [i \in 0 .. n |-> two[i]]
      OBVIOUS
    <3>. HIDE DEF one, two
    <3>. QED BY <3>1, <3>2
  <2>2. (CharsTo(g, n, p, class, {}, FALSE) <=> g = one) /\ (UntilTo(g, n, p, class) <=> g = two)
    BY DEF CharsTo, UntilTo
  <2>. HIDE DEF one, two
  <2>. QED BY <2>1, <2>2
<1>6. h = f
  BY <1>5
<1>. HIDE DEF f, h
<1>. QED BY <1>1, <1>2, <1>3, <1>6

LEMMA CharsPassRelated ==
  ASSUME NEW good, NEW bad, NEW slurps \in BOOLEAN, NEW going, NEW ended,
         \/ slurps /\ going = Word /\ ended = WordOrNull
         \/ ~ slurps /\ going = ended /\ bad = {},
         NEW p, NEW q, Related(p, q, going)
  PROVE  LET r == CharsPass(p, good, bad, slurps)
             s == CharsPass(q, good, bad, slurps)
             ends == good \cup bad \cup {EOF}
         IN  /\ Related(r, s, ended)
             /\ r.c \in ends \/ Related(r, s, going)
             /\ s.c \in ends \/ Budget(s) < Budget(q)
<1>. DEFINE x == copa_next(p)
            y == copa_next(q)
            r == CharsPass(p, good, bad, slurps)
            s == CharsPass(q, good, bad, slurps)
            ends == good \cup bad \cup {EOF}
<1>1. Related(x, y, going) /\ x.c = y.c /\ (y.c = EOF \/ Budget(y) < Budget(q))
  <2>1. Related(x, y, going) /\ (y.c = EOF \/ Budget(y) < Budget(q))
    BY NextRelated
  <2>. QED BY <2>1 DEF Related, Alike
<1>2. going \subseteq ended
  BY DEF WordOrNull
<1>3. Typed(x, y, going) /\ Alike(x, y)
  BY <1>1 DEF Related
<1>4. x.c \in Byte
  BY <1>3 DEF Typed, Parser
<1>5. CASE x.c = EOF
  <2>1. r = x /\ s = y
    BY <1>1, <1>5 DEF CharsPass
  <2>2. x.c \in ends
    BY <1>5
  <2>. HIDE DEF x, y, r, s, ends
  <2>3. Related(r, s, going) /\ r.c \in ends /\ s.c \in ends
    BY <1>1, <2>1, <2>2
  <2>4. Related(r, s, ended)
    BY <1>2, <2>3, RelatedMore
  <2>. QED BY <2>3, <2>4 DEF r, s, ends
<1>6. CASE x.c # EOF /\ x.c \in good
  <2>1. r = [x EXCEPT !.pushback = x.c] /\ s = [y EXCEPT !.pushback = y.c]
    BY <1>1, <1>6 DEF CharsPass
  <2>2. r.c = x.c /\ s.c = x.c
    BY <1>1, <1>3, <2>1 DEF Typed, Parser
  <2>. HIDE DEF x, y, r, s
  <2>3. Related([x EXCEPT !.pushback = x.c], [y EXCEPT !.pushback = y.c], going)
    BY <1>1, PutBackRelated
  <2>4. Related(r, s, going)
    BY <2>1, <2>3
  <2>5. Related(r, s, ended)
    BY <1>2, <2>4, RelatedMore
  <2>. QED BY <1>6, <2>2, <2>4, <2>5 DEF r, s
<1>7. CASE x.c # EOF /\ x.c \notin good /\ x.c \in bad
  <2>1. /\ r = [x EXCEPT !.pushback = x.c, !.active = FALSE, !.word = NULL]
        /\ s = [y EXCEPT !.pushback = y.c, !.active = FALSE, !.word = NULL]
    BY <1>1, <1>7 DEF CharsPass
  <2>2. r.c = x.c /\ s.c = x.c
    BY <1>1, <1>3, <2>1 DEF Typed, Parser
  <2>. HIDE DEF x, y
  <2>3. ended = WordOrNull /\ NULL \in ended
    BY <1>7 DEF WordOrNull
  <2>. DEFINE v == [x EXCEPT !.pushback = x.c]
              w == [y EXCEPT !.pushback = y.c]
  <2>4. Related(v, w, going)
    BY <1>1, PutBackRelated
  <2>5. r = [v EXCEPT !.active = FALSE, !.word = NULL] /\ s = [w EXCEPT !.active = FALSE, !.word = NULL]
    BY <2>1
  <2>. HIDE DEF v, w, r, s
  <2>6. Related(v, w, ended)
    BY <1>2, <2>4, RelatedMore
  <2>7. Related([v EXCEPT !.active = FALSE, !.word = NULL], [w EXCEPT !.active = FALSE, !.word = NULL], ended)
    BY <2>3, <2>6, FailRelated
  <2>8. Related(r, s, ended)
    BY <2>5, <2>7
  <2>. QED BY <1>7, <2>2, <2>8 DEF r, s
<1>8. CASE x.c \notin ends /\ slurps
  <2>1. r = [x EXCEPT !.word = Append(@, x.c)] /\ s = [y EXCEPT !.word = Append(@, y.c)]
    BY <1>1, <1>8 DEF CharsPass
  <2>2. going = Word /\ ended = WordOrNull
    BY <1>8
  <2>3. x.word \in Word /\ x.word = y.word
    BY <1>3, <2>2 DEF Typed, Parser, Alike
  <2>4. Append(x.word, x.c) \in Word /\ Append(x.word, x.c) = Append(y.word, y.c)
    BY <1>1, <1>4, <2>3, AppendProperties DEF Word
  <2>5. Steps(x, y, r, s, going)
    <3>. DEFINE more == Append(x.word, x.c)
    <3>1. r = [x EXCEPT !.word = more] /\ s = [y EXCEPT !.word = more] /\ more \in going
      BY <2>1, <2>2, <2>4
    <3>. HIDE DEF more, x, y, r, s
    <3>. QED BY <1>3, <3>1 DEF Typed, Parser, Alike, Steps, Still
  <2>6. /\ s.pushback = y.pushback /\ s.offset = y.offset /\ s.read_buffer = y.read_buffer
        /\ s.c = y.c
    <3>. HIDE DEF x, y
    <3>. QED BY <1>3, <2>1 DEF Typed, Parser
  <2>. HIDE DEF x, y, r, s
  <2>7. Related(r, s, going)
    BY <1>1, <2>5, StepsRelated
  <2>8. Related(r, s, ended)
    BY <1>2, <2>7, RelatedMore
  <2>9. Budget(s) = Budget(y)
    BY <2>6 DEF Budget, Size
  <2>. QED BY <1>1, <1>8, <2>7, <2>8, <2>9 DEF r, s
<1>9. CASE x.c \notin ends /\ ~ slurps
  <2>1. r = x /\ s = y
    BY <1>1, <1>9 DEF CharsPass
  <2>2. Related(x, y, ended)
    BY <1>1, <1>2, RelatedMore
  <2>. QED BY <1>1, <1>9, <2>1, <2>2
<1>. QED BY <1>5, <1>6, <1>7, <1>8, <1>9

LEMMA CharsEndRelated ==
  ASSUME NEW good, NEW bad, NEW slurps \in BOOLEAN, NEW going, NEW ended,
         \/ slurps /\ going = Word /\ ended = WordOrNull
         \/ ~ slurps /\ going = ended /\ bad = {},
         NEW p, NEW q, Related(p, q, going)
  PROVE  Related(CharsEnd(p, good, bad, slurps), CharsEnd(q, good, bad, slurps), ended)
<1>. DEFINE Pass(x) == CharsPass(x, good, bad, slurps)
            step == [x \in Parser(going) |-> Pass(x)]
            ends == good \cup bad \cup {EOF}
            m == 2 * Left(p) + 1
            n == 2 * Left(q) + 1
            f == CHOOSE x : CharsTo(x, m, p, good, bad, slurps)
            g == CHOOSE x : CharsTo(x, n, q, good, bad, slurps)
<1>1. Passes(step, going, ended, ends, ends)
  <2>1. ASSUME NEW x, NEW y, Related(x, y, going)
        PROVE  /\ Related(step[x], step[y], ended)
               /\ step[x].c \in ends \/ Related(step[x], step[y], going)
               /\ step[y].c \in ends \/ Budget(step[y]) < Budget(y)
    <3>1. step[x] = Pass(x) /\ step[y] = Pass(y)
      BY <2>1 DEF Related, Typed
    <3>. HIDE DEF step
    <3>. QED BY <2>1, <3>1, CharsPassRelated
  <2>. HIDE DEF ends, Pass
  <2>. QED BY <2>1 DEF Passes
<1>2. m \in Nat /\ n \in Nat /\ Budget(q) <= m /\ Budget(q) <= n
  BY BudgetNat
<1>3. p \in Parser(going) /\ q \in Parser(going)
  BY DEF Related, Typed
<1>4. \A x \in Parser(going) : step[x] = Pass(x)
  OBVIOUS
<1>5. DOMAIN step = Parser(going)
  OBVIOUS
<1>6. CharsEnd(p, good, bad, slurps) = f[CHOOSE i \in 0 .. m : f[i].c \in ends]
  BY DEF CharsEnd
<1>7. CharsEnd(q, good, bad, slurps) = g[CHOOSE i \in 0 .. n : g[i].c \in ends]
  BY DEF CharsEnd
<1>. HIDE DEF step, m, n
<1>8. PICK x : Loops(x, m, p, step, ends)
  BY <1>2, LoopExists
<1>9. PICK y : Loops(y, n, q, step, ends)
  BY <1>2, LoopExists
<1>10. /\ \A i \in 0 .. m : x[i].c \in ends \/ x[i] \in Parser(going)
       /\ \A i \in 0 .. n : y[i].c \in ends \/ y[i] \in Parser(going)
  <2>1. Walk(x, m, p, step, ends) /\ Walk(y, n, q, step, ends)
    BY <1>2, <1>8, <1>9, LoopWalks
  <2>. HIDE DEF ends
  <2>. QED BY <1>1, <1>2, <2>1, WalksAgree
<1>11. CharsTo(x, m, p, good, bad, slurps)
  <2>1. x = [i \in 0 .. m |-> IF i = 0 THEN step[p] ELSE IF x[i - 1].c \in ends THEN x[i - 1] ELSE step[x[i - 1]]]
    BY <1>8 DEF Loops
  <2>. HIDE DEF ends, Pass
  <2>2. ASSUME NEW i \in 0 .. m, i # 0 PROVE x[i - 1].c \in ends \/ step[x[i - 1]] = Pass(x[i - 1])
    <3>1. i - 1 \in 0 .. m
      BY <1>2, <2>2
    <3>. QED BY <1>4, <1>10, <3>1
  <2>3. step[p] = Pass(p)
    BY <1>3, <1>4
  <2>4. x = [i \in 0 .. m |-> IF i = 0 THEN Pass(p) ELSE IF x[i - 1].c \in ends THEN x[i - 1] ELSE Pass(x[i - 1])]
    BY <2>1, <2>2, <2>3
  <2>. QED BY <2>4 DEF CharsTo, ends, Pass
<1>12. CharsTo(y, n, q, good, bad, slurps)
  <2>1. y = [i \in 0 .. n |-> IF i = 0 THEN step[q] ELSE IF y[i - 1].c \in ends THEN y[i - 1] ELSE step[y[i - 1]]]
    BY <1>9 DEF Loops
  <2>. HIDE DEF ends, Pass
  <2>2. ASSUME NEW i \in 0 .. n, i # 0 PROVE y[i - 1].c \in ends \/ step[y[i - 1]] = Pass(y[i - 1])
    <3>1. i - 1 \in 0 .. n
      BY <1>2, <2>2
    <3>. QED BY <1>4, <1>10, <3>1
  <2>3. step[q] = Pass(q)
    BY <1>3, <1>4
  <2>4. y = [i \in 0 .. n |-> IF i = 0 THEN Pass(q) ELSE IF y[i - 1].c \in ends THEN y[i - 1] ELSE Pass(y[i - 1])]
    BY <2>1, <2>2, <2>3
  <2>. QED BY <2>4 DEF CharsTo, ends, Pass
<1>13. CharsTo(f, m, p, good, bad, slurps) /\ CharsTo(g, n, q, good, bad, slurps)
  BY <1>11, <1>12
<1>. HIDE DEF f, g
<1>14. ASSUME NEW h, NEW k \in Nat, NEW z \in Parser(going), CharsTo(h, k, z, good, bad, slurps)
       PROVE  Walk(h, k, z, step, ends)
  <2>1. h = [i \in 0 .. k |-> IF i = 0 THEN Pass(z) ELSE IF h[i - 1].c \in ends THEN h[i - 1] ELSE Pass(h[i - 1])]
    BY <1>14 DEF CharsTo
  <2>. HIDE DEF ends, Pass
  <2>2. ASSUME NEW i \in 0 .. k
        PROVE  h[i] = IF i = 0 THEN Pass(z) ELSE IF h[i - 1].c \in ends THEN h[i - 1] ELSE Pass(h[i - 1])
    BY <2>1
  <2>3. h[0] = step[z]
    BY <1>4, <2>2
  <2>4. ASSUME NEW i \in 1 .. k
        PROVE  h[i] = IF h[i - 1].c \in ends THEN h[i - 1] ELSE Pass(h[i - 1])
    BY <2>2
  <2>. QED BY <1>4, <1>5, <2>3, <2>4 DEF Walk
<1>15. Walk(f, m, p, step, ends) /\ Walk(g, n, q, step, ends)
  <2>. HIDE DEF ends
  <2>. QED BY <1>2, <1>3, <1>13, <1>14
<1>. HIDE DEF ends
<1>16. PICK e \in 0 .. m : /\ Result(q, f[e], g[e], ended, ends, ends)
                           /\ EndsWith(f, m, ends, f[e])
                           /\ EndsWith(g, n, ends, g[e])
  BY <1>1, <1>2, <1>15, WalksAgree
<1>17. CharsEnd(p, good, bad, slurps) = f[e] /\ CharsEnd(q, good, bad, slurps) = g[e]
  BY <1>2, <1>6, <1>7, <1>16, EndChosen
<1>. QED BY <1>16, <1>17 DEF Result

LEMMA PassUntilRelated ==
  ASSUME NEW words, NEW class, NEW p, NEW q, Related(p, q, words)
  PROVE  Related(PassUntil(p, class), PassUntil(q, class), words)
<1>1. Related(CharsEnd(p, class, {}, FALSE), CharsEnd(q, class, {}, FALSE), words)
  BY CharsEndRelated
<1>. QED BY <1>1, PassUntilIs

LEMMA SlurpRelated ==
  ASSUME NEW good, NEW bad, NEW p, NEW q, Related(p, q, Word)
  PROVE  Related(Slurp(p, good, bad), Slurp(q, good, bad), WordOrNull)
<1>1. Related(CharsEnd(p, good, bad, TRUE), CharsEnd(q, good, bad, TRUE), WordOrNull)
  BY CharsEndRelated
<1>. QED BY <1>1, SlurpIs
-----------------------------------------------------------------------------
(* What the functions of the parser set. *)
LEMMA WordSet ==
  ASSUME NEW words, NEW more, NEW word \in more, NEW p, NEW q, Related(p, q, words)
  PROVE  Related([p EXCEPT !.word = word], [q EXCEPT !.word = word], more)
<1>. DEFINE r == [p EXCEPT !.word = word]
            s == [q EXCEPT !.word = word]
<1>1. Typed(p, q, words) /\ Alike(p, q)
  BY DEF Related
<1>2. Steps(p, q, r, s, more)
  BY <1>1 DEF Typed, Parser, Alike, Steps, Still
<1>. HIDE DEF r, s
<1>3. Related(r, s, more)
  BY <1>2, StepsRelated
<1>. QED BY <1>3 DEF r, s

LEMMA CallSet ==
  ASSUME NEW words, NEW call \in Callbacks, NEW p, NEW q, Related(p, q, words)
  PROVE  Related([p EXCEPT !.call = call], [q EXCEPT !.call = call], words)
<1>. DEFINE r == [p EXCEPT !.call = call]
            s == [q EXCEPT !.call = call]
<1>1. Typed(p, q, words) /\ Alike(p, q)
  BY DEF Related
<1>2. Steps(p, q, r, s, words)
  BY <1>1 DEF Typed, Parser, Alike, Steps, Still
<1>. HIDE DEF r, s
<1>3. Related(r, s, words)
  BY <1>2, StepsRelated
<1>. QED BY <1>3 DEF r, s

LEMMA StopSet ==
  ASSUME NEW words, NEW p, NEW q, Related(p, q, words)
  PROVE  Related([p EXCEPT !.active = FALSE], [q EXCEPT !.active = FALSE], words)
<1>. DEFINE r == [p EXCEPT !.active = FALSE]
            s == [q EXCEPT !.active = FALSE]
<1>1. Typed(p, q, words) /\ Alike(p, q)
  BY DEF Related
<1>2. Steps(p, q, r, s, words)
  BY <1>1 DEF Typed, Parser, Alike, Steps, Still
<1>. HIDE DEF r, s
<1>3. Related(r, s, words)
  BY <1>2, StepsRelated
<1>. QED BY <1>3 DEF r, s

(* A parser with a word or none. *)
Twins(p, q) == Related(p, q, WordOrNull)

LEMMA TwinFacts ==
  ASSUME NEW p, NEW q, Twins(p, q)
  PROVE  /\ p.active = q.active /\ p.active \in BOOLEAN
         /\ p.c = q.c /\ p.c \in Byte
         /\ p.word = q.word /\ p.word \in WordOrNull
         /\ p.call = q.call /\ p.call \in Callbacks
BY DEF Twins, Related, Typed, Parser, Alike

LEMMA EmptyWord == <<>> \in Word
BY DEF Word

LEMMA SkipOverTwins ==
  ASSUME NEW class, NEW p, NEW q, Twins(p, q)
  PROVE  Twins(copa_skip_over(p, class), copa_skip_over(q, class))
<1>1. Twins(PassUntil(p, 0 .. 255 \ class), PassUntil(q, 0 .. 255 \ class))
  BY PassUntilRelated DEF Twins
<1>2. p.active = q.active
  BY TwinFacts
<1>. QED BY <1>1, <1>2 DEF copa_skip_over

LEMMA SkipToTwins ==
  ASSUME NEW class, NEW p, NEW q, Twins(p, q)
  PROVE  Twins(copa_skip_to(p, class), copa_skip_to(q, class))
<1>1. Twins(PassUntil(p, class), PassUntil(q, class))
  BY PassUntilRelated DEF Twins
<1>2. p.active = q.active
  BY TwinFacts
<1>. QED BY <1>1, <1>2 DEF copa_skip_to

LEMMA SlurpToTwins ==
  ASSUME NEW good, NEW bad, NEW p, NEW q, Twins(p, q)
  PROVE  Twins(copa_slurp_to(p, good, bad), copa_slurp_to(q, good, bad))
<1>1. p.active = q.active
  BY TwinFacts
<1>2. Related([p EXCEPT !.word = <<>>], [q EXCEPT !.word = <<>>], Word)
  BY WordSet, EmptyWord DEF Twins
<1>3. Twins(Slurp([p EXCEPT !.word = <<>>], good, bad), Slurp([q EXCEPT !.word = <<>>], good, bad))
  BY <1>2, SlurpRelated DEF Twins
<1>4. NULL \in WordOrNull
  BY DEF WordOrNull
<1>5. Twins([p EXCEPT !.word = NULL], [q EXCEPT !.word = NULL])
  BY <1>4, WordSet DEF Twins
<1>. QED BY <1>1, <1>3, <1>5 DEF copa_slurp_to

LEMMA AssertTwins ==
  ASSUME NEW class, NEW p, NEW q, Twins(p, q)
  PROVE  Twins(copa_assert_and_pass(p, class), copa_assert_and_pass(q, class))
<1>. DEFINE x == copa_next(p)
            y == copa_next(q)
<1>1. p.active = q.active
  BY TwinFacts
<1>2. Twins(x, y)
  BY NextRelated DEF Twins
<1>3. x.c = y.c
  BY <1>2, TwinFacts
<1>4. NULL \in WordOrNull
  BY DEF WordOrNull
<1>5. Twins([p EXCEPT !.word = NULL], [q EXCEPT !.word = NULL])
  BY <1>4, WordSet DEF Twins
<1>. HIDE DEF x, y
<1>6. Twins([x EXCEPT !.active = FALSE, !.word = NULL], [y EXCEPT !.active = FALSE, !.word = NULL])
  BY <1>2, <1>4, FailRelated DEF Twins
<1>7. /\ copa_assert_and_pass(p, class)
         = IF p.active THEN IF x.c \in class THEN x ELSE [x EXCEPT !.active = FALSE, !.word = NULL]
           ELSE [p EXCEPT !.word = NULL]
      /\ copa_assert_and_pass(q, class)
         = IF q.active THEN IF y.c \in class THEN y ELSE [y EXCEPT !.active = FALSE, !.word = NULL]
           ELSE [q EXCEPT !.word = NULL]
  BY DEF copa_assert_and_pass, copa_cin, x, y
<1>8. CASE ~ p.active
  BY <1>1, <1>5, <1>7, <1>8
<1>9. CASE p.active /\ x.c \in class
  BY <1>1, <1>2, <1>3, <1>7, <1>9
<1>10. CASE p.active /\ x.c \notin class
  BY <1>1, <1>3, <1>6, <1>7, <1>10
<1>. QED BY <1>8, <1>9, <1>10

LEMMA QuotedTwins ==
  ASSUME NEW p, NEW q, Twins(p, q)
  PROVE  Twins(copa_slurp_quoted(p), copa_slurp_quoted(q))
<1>. DEFINE x == copa_next(p)
            y == copa_next(q)
            quote == IF x.c \in X_SQUOTE THEN X_SQUOTE ELSE X_DQUOTE
            v == copa_slurp_to(x, quote, X_NONE)
            w == copa_slurp_to(y, quote, X_NONE)
<1>1. p.active = q.active
  BY TwinFacts
<1>2. Twins(x, y)
  BY NextRelated DEF Twins
<1>3. x.c = y.c
  BY <1>2, TwinFacts
<1>4. NULL \in WordOrNull
  BY DEF WordOrNull
<1>5. Twins([p EXCEPT !.word = NULL], [q EXCEPT !.word = NULL])
  BY <1>4, WordSet DEF Twins
<1>6. Twins(v, w)
  BY <1>2, SlurpToTwins
<1>7. v.word = w.word
  BY <1>6, TwinFacts
<1>8. Twins(copa_assert_and_pass(v, quote), copa_assert_and_pass(w, quote))
  BY <1>6, AssertTwins
<1>9. copa_slurp_quoted(p)
        = IF p.active THEN IF v.word = NULL THEN v ELSE copa_assert_and_pass(v, quote)
          ELSE [p EXCEPT !.word = NULL]
  BY DEF copa_slurp_quoted, copa_cin
<1>10. copa_slurp_quoted(q)
        = IF q.active THEN IF w.word = NULL THEN w ELSE copa_assert_and_pass(w, quote)
          ELSE [q EXCEPT !.word = NULL]
  BY <1>3 DEF copa_slurp_quoted, copa_cin
<1>. HIDE DEF v, w
<1>11. CASE ~ p.active
  BY <1>1, <1>5, <1>9, <1>10, <1>11
<1>12. CASE p.active /\ v.word = NULL
  BY <1>1, <1>6, <1>7, <1>9, <1>10, <1>12
<1>13. CASE p.active /\ v.word # NULL
  BY <1>1, <1>7, <1>8, <1>9, <1>10, <1>13
<1>. QED BY <1>11, <1>12, <1>13

LEMMA AssignmentTwins ==
  ASSUME NEW p, NEW q, Twins(p, q)
  PROVE  Twins(copa_parse_assignment(p), copa_parse_assignment(q))
<1>. DEFINE a == copa_slurp_to(p, X_WHITESPACE, X_COMMENT \cup X_NEWLINE)
            b == copa_slurp_to(q, X_WHITESPACE, X_COMMENT \cup X_NEWLINE)
            x == copa_peek(copa_skip_whitespace(a))
            y == copa_peek(copa_skip_whitespace(b))
            v == IF x.c \in X_DQUOTE \cup X_SQUOTE THEN copa_slurp_quoted(x) ELSE copa_slurp_lineval(x)
            w == IF y.c \in X_DQUOTE \cup X_SQUOTE THEN copa_slurp_quoted(y) ELSE copa_slurp_lineval(y)
            call == [is |-> "assign", name |-> a.word, value |-> v.word]
<1>1. Twins(a, b)
  BY SlurpToTwins
<1>2. a.word = b.word /\ a.word \in WordOrNull
  BY <1>1, TwinFacts
<1>3. Twins(x, y)
  <2>. HIDE DEF a, b
  <2>1. Twins(copa_skip_whitespace(a), copa_skip_whitespace(b))
    BY <1>1, SkipOverTwins DEF copa_skip_whitespace
  <2>. QED BY <2>1, PeekRelated DEF Twins
<1>4. x.c = y.c
  BY <1>3, TwinFacts
<1>5. Twins(v, w)
  <2>. HIDE DEF x, y
  <2>1. Twins(copa_slurp_quoted(x), copa_slurp_quoted(y))
    BY <1>3, QuotedTwins
  <2>2. Twins(copa_slurp_lineval(x), copa_slurp_lineval(y))
    BY <1>3, SlurpToTwins DEF copa_slurp_lineval
  <2>. QED BY <1>4, <2>1, <2>2
<1>6. v.word = w.word /\ v.word \in WordOrNull
  BY <1>5, TwinFacts
<1>7. copa_parse_assignment(p)
        = IF a.word = NULL THEN a
          ELSE IF v.word = NULL THEN [v EXCEPT !.active = FALSE]
          ELSE [v EXCEPT !.call = [is |-> "assign", name |-> a.word, value |-> v.word]]
  BY DEF copa_parse_assignment, copa_cin
<1>8. copa_parse_assignment(q)
        = IF b.word = NULL THEN b
          ELSE IF w.word = NULL THEN [w EXCEPT !.active = FALSE]
          ELSE [w EXCEPT !.call = [is |-> "assign", name |-> b.word, value |-> w.word]]
  BY DEF copa_parse_assignment, copa_cin
<1>. HIDE DEF a, b, v, w
<1>9. CASE a.word = NULL
  BY <1>1, <1>2, <1>7, <1>8, <1>9
<1>10. CASE a.word # NULL /\ v.word = NULL
  <2>1. Twins([v EXCEPT !.active = FALSE], [w EXCEPT !.active = FALSE])
    BY <1>5, StopSet DEF Twins
  <2>. QED BY <1>2, <1>6, <1>7, <1>8, <1>10, <2>1
<1>11. CASE a.word # NULL /\ v.word # NULL
  <2>1. a.word \in Word /\ v.word \in Word
    BY <1>2, <1>6, <1>11 DEF WordOrNull
  <2>2. call \in Callbacks /\ call = [is |-> "assign", name |-> b.word, value |-> w.word]
    BY <1>2, <1>6, <2>1 DEF Callbacks
  <2>3. copa_parse_assignment(p) = [v EXCEPT !.call = call]
    BY <1>7, <1>11
  <2>4. copa_parse_assignment(q) = [w EXCEPT !.call = call]
    BY <1>2, <1>6, <1>8, <1>11, <2>2
  <2>. HIDE DEF call
  <2>5. Twins([v EXCEPT !.call = call], [w EXCEPT !.call = call])
    BY <1>5, <2>2, CallSet DEF Twins
  <2>. QED BY <2>3, <2>4, <2>5
<1>. QED BY <1>9, <1>10, <1>11

(* The rest of a block's line behind its name. *)
LEMMA NamedTwins ==
  ASSUME NEW is \in {"start", "end"}, NEW p, NEW q, Twins(p, q)
  PROVE  LET x == copa_assert_and_pass(p, X_RBRACKET)
             y == copa_assert_and_pass(q, X_RBRACKET)
         IN  Twins(IF p.word = NULL THEN p ELSE IF x.word = NULL THEN x
                   ELSE [x EXCEPT !.call = [is |-> is, name |-> p.word, value |-> NULL]],
                   IF q.word = NULL THEN q ELSE IF y.word = NULL THEN y
                   ELSE [y EXCEPT !.call = [is |-> is, name |-> q.word, value |-> NULL]])
<1>. DEFINE x == copa_assert_and_pass(p, X_RBRACKET)
            y == copa_assert_and_pass(q, X_RBRACKET)
            call == [is |-> is, name |-> p.word, value |-> NULL]
<1>1. p.word = q.word /\ p.word \in WordOrNull
  BY TwinFacts
<1>2. Twins(x, y)
  BY AssertTwins
<1>3. x.word = y.word
  BY <1>2, TwinFacts
<1>. SUFFICES Twins(IF p.word = NULL THEN p ELSE IF x.word = NULL THEN x
                    ELSE [x EXCEPT !.call = [is |-> is, name |-> p.word, value |-> NULL]],
                    IF q.word = NULL THEN q ELSE IF y.word = NULL THEN y
                    ELSE [y EXCEPT !.call = [is |-> is, name |-> q.word, value |-> NULL]])
  OBVIOUS
<1>. HIDE DEF x, y
<1>4. CASE p.word = NULL
  BY <1>1, <1>4
<1>5. CASE p.word # NULL /\ x.word = NULL
  BY <1>1, <1>2, <1>3, <1>5
<1>6. CASE p.word # NULL /\ x.word # NULL
  <2>1. call \in Callbacks /\ call = [is |-> is, name |-> q.word, value |-> NULL]
    BY <1>1, <1>6 DEF Callbacks, WordOrNull
  <2>. HIDE DEF call
  <2>2. Twins([x EXCEPT !.call = call], [y EXCEPT !.call = call])
    BY <1>2, <2>1, CallSet DEF Twins
  <2>. QED BY <1>1, <1>3, <1>6, <2>1, <2>2 DEF call
<1>. QED BY <1>4, <1>5, <1>6

LEMMA BlockTwins ==
  ASSUME NEW p, NEW q, Twins(p, q)
  PROVE  Twins(copa_parse_block(p), copa_parse_block(q))
<1>. DEFINE Tag(z) == copa_slurp_to(z, X_RBRACKET, X_COMMENT \cup X_NEWLINE)
            Named(is, z) == LET x == copa_assert_and_pass(z, X_RBRACKET)
                            IN  IF z.word = NULL THEN z ELSE IF x.word = NULL THEN x
                                ELSE [x EXCEPT !.call = [is |-> is, name |-> z.word, value |-> NULL]]
            a == copa_assert_and_pass([p EXCEPT !.word = <<>>], X_LBRACKET)
            b == copa_assert_and_pass([q EXCEPT !.word = <<>>], X_LBRACKET)
            v == copa_peek(a)
            w == copa_peek(b)
<1>1. Twins(a, b)
  <2>1. <<>> \in WordOrNull
    BY EmptyWord DEF WordOrNull
  <2>2. Twins([p EXCEPT !.word = <<>>], [q EXCEPT !.word = <<>>])
    BY <2>1, WordSet DEF Twins
  <2>. QED BY <2>2, AssertTwins
<1>2. a.word = b.word
  BY <1>1, TwinFacts
<1>3. copa_parse_block(p)
        = IF a.word = NULL THEN a
          ELSE IF v.c \in X_SLASH THEN Named("end", Tag(copa_next(v))) ELSE Named("start", Tag(v))
  BY DEF copa_parse_block, copa_cin
<1>4. copa_parse_block(q)
        = IF b.word = NULL THEN b
          ELSE IF w.c \in X_SLASH THEN Named("end", Tag(copa_next(w))) ELSE Named("start", Tag(w))
  BY DEF copa_parse_block, copa_cin
<1>. HIDE DEF a, b
<1>5. Twins(v, w)
  BY <1>1, PeekRelated DEF Twins
<1>6. v.c = w.c
  BY <1>5, TwinFacts
<1>. HIDE DEF v, w
<1>7. Twins(copa_next(v), copa_next(w))
  BY <1>5, NextRelated DEF Twins
<1>8. Twins(Tag(copa_next(v)), Tag(copa_next(w))) /\ Twins(Tag(v), Tag(w))
  BY <1>5, <1>7, SlurpToTwins
<1>. HIDE DEF Tag
<1>9. /\ Twins(Named("end", Tag(copa_next(v))), Named("end", Tag(copa_next(w))))
      /\ Twins(Named("start", Tag(v)), Named("start", Tag(w)))
  BY <1>8, NamedTwins
<1>. HIDE DEF Named
<1>10. CASE a.word = NULL
  BY <1>1, <1>2, <1>3, <1>4, <1>10
<1>11. CASE a.word # NULL /\ v.c \in X_SLASH
  BY <1>2, <1>3, <1>4, <1>6, <1>9, <1>11
<1>12. CASE a.word # NULL /\ v.c \notin X_SLASH
  BY <1>2, <1>3, <1>4, <1>6, <1>9, <1>12
<1>. QED BY <1>10, <1>11, <1>12

(* A line is read alike. *)
LEMMA LineTwins ==
  ASSUME NEW p, NEW q, Twins(p, q)
  PROVE  Twins(copa_parse_line(p), copa_parse_line(q))
<1>. DEFINE a == [p EXCEPT !.call = NoCall]
            b == [q EXCEPT !.call = NoCall]
            x == copa_peek(copa_skip_whitespace(a))
            y == copa_peek(copa_skip_whitespace(b))
<1>1. Twins(a, b)
  <2>1. NoCall \in Callbacks
    BY DEF Callbacks
  <2>. QED BY <2>1, CallSet DEF Twins
<1>2. /\ copa_parse_line(p) = CASE x.c \in X_COMMENT -> copa_skip_to(x, X_NEWLINE)
                                [] x.c \in X_LBRACKET -> copa_parse_block(x)
                                [] OTHER -> copa_parse_assignment(x)
      /\ copa_parse_line(q) = CASE y.c \in X_COMMENT -> copa_skip_to(y, X_NEWLINE)
                                [] y.c \in X_LBRACKET -> copa_parse_block(y)
                                [] OTHER -> copa_parse_assignment(y)
  BY DEF copa_parse_line, copa_cin
<1>3. Twins(x, y)
  <2>. HIDE DEF a, b
  <2>1. Twins(copa_skip_whitespace(a), copa_skip_whitespace(b))
    BY <1>1, SkipOverTwins DEF copa_skip_whitespace
  <2>. QED BY <2>1, PeekRelated DEF Twins
<1>4. x.c = y.c
  BY <1>3, TwinFacts
<1>. HIDE DEF x, y
<1>5. /\ Twins(copa_skip_to(x, X_NEWLINE), copa_skip_to(y, X_NEWLINE))
      /\ Twins(copa_parse_block(x), copa_parse_block(y))
      /\ Twins(copa_parse_assignment(x), copa_parse_assignment(y))
  BY <1>3, SkipToTwins, BlockTwins, AssignmentTwins
<1>6. ~ (x.c \in X_COMMENT /\ x.c \in X_LBRACKET)
  BY DEF X_COMMENT, X_LBRACKET
<1>7. CASE x.c \in X_COMMENT
  BY <1>2, <1>4, <1>5, <1>6, <1>7
<1>8. CASE x.c \in X_LBRACKET
  BY <1>2, <1>4, <1>5, <1>6, <1>8
<1>9. CASE x.c \notin X_COMMENT /\ x.c \notin X_LBRACKET
  BY <1>2, <1>4, <1>5, <1>9
<1>. QED BY <1>7, <1>8, <1>9
-----------------------------------------------------------------------------
(* The first refill: an empty file leaves the parser inactive. *)
LEMMA StartEmpty ==
  ASSUME NEW size \in Nat \ {0}
  PROVE  LET p == copa_read_fd(<<>>, size) IN
         /\ ~ p.active /\ p.call = NoCall /\ p.offset = 0 /\ p.pos = 0 /\ p.pushback = NUL /\ p.text = <<>>
<1>. DEFINE z == [text |-> <<>>, pos |-> 0, read_buffer |-> [i \in 1 .. size |-> NUL],
                 offset |-> 0, active |-> TRUE, pushback |-> NUL, escape |-> FALSE,
                 octal |-> 0, hex |-> 0, numchar |-> NUL, c |-> NUL, word |-> NULL,
                 call |-> NoCall]
<1>1. copa_read_fd(<<>>, size) = copa_refill(z)
  BY DEF copa_read_fd
<1>2. Piece(z) = <<>>
  <2>1. Size(z) = size
    BY DEF Size
  <2>2. z.text = <<>> /\ z.pos = 0 /\ Len(<<>>) = 0
    OBVIOUS
  <2>. HIDE DEF z
  <2>3. Piece(z) = SubSeq(<<>>, 1, 0)
    BY <2>1, <2>2 DEF Piece
  <2>. QED BY <2>3, SubSeqEmpty
<1>3. copa_refill(z) = [z EXCEPT !.active = FALSE]
  BY <1>2 DEF copa_refill
<1>. QED BY <1>1, <1>3

(* And otherwise brings the first piece. *)
LEMMA StartIs ==
  ASSUME NEW text \in Word, text # <<>>, NEW size \in Nat \ {0}
  PROVE  LET n == IF Len(text) < size THEN Len(text) ELSE size
             p == copa_read_fd(text, size)
         IN  /\ p \in Parser(WordOrNull)
             /\ p = [text |-> text, pos |-> n,
                     read_buffer |-> [i \in 1 .. size |-> IF i <= n THEN text[i] ELSE NUL],
                     offset |-> 0, active |-> TRUE, pushback |-> NUL, escape |-> FALSE,
                     octal |-> 0, hex |-> 0, numchar |-> NUL, c |-> NUL, word |-> NULL,
                     call |-> NoCall]
             /\ p.read_buffer \in Word /\ Len(p.read_buffer) = size
<1>. DEFINE zeros == [i \in 1 .. size |-> NUL]
            z == [text |-> text, pos |-> 0, read_buffer |-> zeros,
                 offset |-> 0, active |-> TRUE, pushback |-> NUL, escape |-> FALSE,
                 octal |-> 0, hex |-> 0, numchar |-> NUL, c |-> NUL, word |-> NULL,
                 call |-> NoCall]
            n == IF Len(text) < size THEN Len(text) ELSE size
            buffer == [i \in 1 .. size |-> IF i <= n THEN text[i] ELSE NUL]
            r == [text |-> text, pos |-> n, read_buffer |-> buffer,
                 offset |-> 0, active |-> TRUE, pushback |-> NUL, escape |-> FALSE,
                 octal |-> 0, hex |-> 0, numchar |-> NUL, c |-> NUL, word |-> NULL,
                 call |-> NoCall]
            piece == Piece(z)
<1>1. text \in Seq(Byte) /\ Len(text) \in Nat \ {0}
  BY EmptySeq, LenProperties DEF Word
<1>2. n \in 1 .. size /\ n <= Len(text)
  BY <1>1
<1>3. NUL \in Byte /\ NULL \in WordOrNull /\ NoCall \in Callbacks
  BY DEF NUL, Byte, WordOrNull, Callbacks
<1>4. zeros \in Word /\ Len(zeros) = size
  <2>1. zeros \in [1 .. size -> Byte]
    BY <1>3
  <2>. HIDE DEF zeros
  <2>2. zeros \in Seq(Byte)
    BY <2>1, SeqDef
  <2>. QED BY <2>1, <2>2, LenProperties DEF Word
<1>5. buffer \in Word /\ Len(buffer) = size
  <2>1. ASSUME NEW i \in 1 .. size PROVE (IF i <= n THEN text[i] ELSE NUL) \in Byte
    <3>1. CASE i <= n
      <4>1. i \in 1 .. Len(text)
        BY <1>1, <1>2, <3>1
      <4>. QED BY <1>1, <3>1, <4>1, ElementOfSeq
    <3>2. CASE ~ (i <= n)
      BY <1>3, <3>2
    <3>. QED BY <3>1, <3>2
  <2>2. buffer \in [1 .. size -> Byte]
    BY <2>1
  <2>. HIDE DEF buffer
  <2>3. buffer \in Seq(Byte)
    BY <2>2, SeqDef
  <2>. QED BY <2>2, <2>3, LenProperties DEF Word
<1>6. copa_read_fd(text, size) = copa_refill(z)
  BY DEF copa_read_fd
<1>7. z.text = text /\ z.pos = 0 /\ z.read_buffer = zeros
  OBVIOUS
<1>8. z \in Parser(WordOrNull)
  <2>. HIDE DEF zeros
  <2>. QED BY <1>3, <1>4 DEF Parser, NUL
<1>9. Size(z) = size
  <2>. HIDE DEF zeros, z
  <2>. QED BY <1>4, <1>7 DEF Size
<1>10. /\ Len(piece) = n /\ piece # <<>>
       /\ \A i \in 1 .. n : piece[i] = text[i]
  <2>. HIDE DEF z
  <2>1. Size(z) \in Nat \ {0} /\ z.pos \in 0 .. Len(z.text)
    BY <1>1, <1>7, <1>9
  <2>2. Len(z.text) - z.pos = Len(text)
    BY <1>1, <1>7
  <2>3. n = IF Len(z.text) - z.pos < Size(z) THEN Len(z.text) - z.pos ELSE Size(z)
    BY <1>9, <2>2
  <2>. HIDE DEF n
  <2>4. /\ Len(piece) = n /\ (piece = <<>> <=> z.pos = Len(z.text))
        /\ \A i \in 1 .. n : piece[i] = z.text[z.pos + i]
    BY <1>8, <2>1, <2>3, PieceIs
  <2>. QED BY <1>1, <1>7, <2>4
<1>11. copa_refill(z) = r
  <2>. HIDE DEF piece, n
  <2>1. copa_refill(z) = [z EXCEPT !.read_buffer = [i \in 1 .. Size(z) |-> IF i <= Len(piece) THEN piece[i] ELSE z.read_buffer[i]],
                                   !.pos = z.pos + Len(piece), !.offset = 0]
    BY <1>10 DEF copa_refill, piece
  <2>2. [i \in 1 .. Size(z) |-> IF i <= Len(piece) THEN piece[i] ELSE z.read_buffer[i]] = buffer
    <3>1. ASSUME NEW i \in 1 .. size
          PROVE  (IF i <= Len(piece) THEN piece[i] ELSE zeros[i]) = (IF i <= n THEN text[i] ELSE NUL)
      BY <1>2, <1>10
    <3>2. [i \in 1 .. size |-> IF i <= Len(piece) THEN piece[i] ELSE zeros[i]] = buffer
      BY <3>1
    <3>. QED BY <1>7, <1>9, <3>2
  <2>3. z.pos + Len(piece) = n
    BY <1>2, <1>7, <1>10
  <2>. HIDE DEF buffer
  <2>4. copa_refill(z) = [z EXCEPT !.read_buffer = buffer, !.pos = n, !.offset = 0]
    BY <2>1, <2>2, <2>3
  <2>. QED BY <2>4
<1>12. r \in Parser(WordOrNull) /\ r.read_buffer = buffer
  <2>1. n \in Nat
    BY <1>2
  <2>. HIDE DEF n, buffer
  <2>. QED BY <1>3, <1>5, <2>1 DEF Parser, NUL
<1>. HIDE DEF z
<1>. QED BY <1>5, <1>6, <1>11, <1>12

LEMMA StretchIs ==
  ASSUME NEW t, NEW a \in Int, NEW e \in Int, a <= e, \A i \in a .. e : t[i] \in Byte
  PROVE  /\ SubSeq(t, a, e) \in Seq(Byte)
         /\ Len(SubSeq(t, a, e)) = e - a + 1
         /\ \A i \in 1 .. e - a + 1 : SubSeq(t, a, e)[i] = t[a + i - 1]
BY SubSeqProperties

LEMMA PaddedIs ==
  ASSUME NEW text \in Word, text # <<>>
  PROVE  LET read == Padded(text)
             size == Larger(Len(read), BUFFER_SIZE)
         IN  /\ read \in Word /\ read # <<>> /\ Len(read) <= size /\ size \in Nat \ {0}
             /\ \E k \in Nat : k > 0 /\ size = BUFFER_SIZE * k
             /\ Len(text) <= size /\ size < Len(text) + BUFFER_SIZE
             /\ \A i \in 1 .. size :
                   (IF i <= Len(read) THEN read[i] ELSE NUL)
                   = IF i <= Len(text) THEN text[i]
                     ELSE IF i > BUFFER_SIZE THEN IF i - BUFFER_SIZE <= Len(read) THEN read[i - BUFFER_SIZE] ELSE NUL
                     ELSE NUL
<1>. DEFINE read == Padded(text)
            size == Larger(Len(read), BUFFER_SIZE)
            b == BUFFER_SIZE
            l == Len(text)
            over == l % b
            k == l \div b
<1>1. b \in Nat \ {0} /\ text \in Seq(Byte) /\ l \in Nat \ {0}
  BY BufferAssumption, EmptySeq, LenProperties DEF Word
<1>2. over \in Nat /\ over < b /\ k \in Nat /\ l = b * k + over
  <2>. HIDE DEF b, l
  <2>. QED BY <1>1
<1>3. CASE l < b
  <2>1. read = text
    BY <1>3 DEF Padded
  <2>2. size = b
    BY <1>1, <1>3, <2>1 DEF Larger
  <2>3. size = BUFFER_SIZE * 1
    BY <1>1, <2>2
  <2>. HIDE DEF read, size
  <2>. QED BY <1>1, <1>3, <2>1, <2>2, <2>3 DEF Word, read, size
<1>4. CASE ~ (l < b) /\ over = 0
  <2>1. read = text
    BY <1>4 DEF Padded
  <2>2. size = l
    BY <1>1, <1>4, <2>1 DEF Larger
  <2>3. l = b * k /\ k > 0
    <3>1. l = b * k
      <4>. HIDE DEF b, k, l, over
      <4>1. b * k \in Nat
        BY <1>1, <1>2, TimesNat
      <4>. QED BY <1>1, <1>2, <1>4, <4>1
    <3>2. k # 0
      <4>1. k = 0 => b * k = 0
        <5>. HIDE DEF k
        <5>. QED BY <1>1
      <4>. HIDE DEF k
      <4>. QED BY <1>1, <3>1, <4>1
    <3>. QED BY <1>2, <3>1, <3>2
  <2>. HIDE DEF k, b
  <2>4. \E m \in Nat : m > 0 /\ size = b * m
    BY <1>2, <2>2, <2>3
  <2>. HIDE DEF read, size
  <2>. QED BY <1>1, <1>4, <2>1, <2>2, <2>4 DEF Word, read, size, b
<1>5. CASE ~ (l < b) /\ over # 0
  <2>. DEFINE tail == SubSeq(text, l - b + 1, l - over)
  <2>1. read = text \o tail
    BY <1>5 DEF Padded
  <2>. DEFINE n == b - over
  <2>2. n \in Nat /\ 0 < n /\ n < b
    BY <1>1, <1>2, <1>5
  <2>. HIDE DEF over, b, k
  <2>3. tail \in Seq(Byte) /\ Len(tail) = n /\ \A i \in 1 .. n : tail[i] = text[l - b + i]
    <3>. DEFINE a == l - b + 1
                e == l - over
    <3>1. /\ a \in Int /\ e \in Int /\ a \in 1 .. l /\ e \in a - 1 .. l /\ (e - a) + 1 = n
          /\ \A i \in Int : a + i - 1 = l - b + i
      BY <1>1, <1>2, <1>5, <2>2
    <3>. HIDE DEF a, e, n, l
    <3>2. \A i \in a .. e : text[i] \in Byte
      <4>1. ASSUME NEW i \in a .. e PROVE text[i] \in Byte
        <5>1. i \in 1 .. Len(text)
          BY <3>1 DEF l
        <5>. QED BY <1>1, <5>1, ElementOfSeq
      <4>. QED BY <4>1
    <3>3. /\ SubSeq(text, a, e) \in Seq(Byte)
          /\ Len(SubSeq(text, a, e)) = e - a + 1
          /\ \A i \in 1 .. e - a + 1 : SubSeq(text, a, e)[i] = text[a + i - 1]
      <4>1. a \in Int /\ e \in Int /\ a <= e
        BY <2>2, <3>1
      <4>. QED BY <3>2, <4>1, StretchIs
    <3>4. Len(SubSeq(text, a, e)) = n
      BY <1>1, <2>2, <3>1, <3>3
    <3>5. tail = SubSeq(text, a, e)
      BY DEF a, e
    <3>. HIDE DEF tail
    <3>6. ASSUME NEW i \in 1 .. n PROVE tail[i] = text[l - b + i]
      <4>1. i \in Int /\ i \in 1 .. (e - a) + 1
        BY <2>2, <3>1
      <4>2. tail[i] = text[a + i - 1]
        BY <3>3, <3>5, <4>1
      <4>. QED BY <3>1, <4>1, <4>2
    <3>. QED BY <3>3, <3>4, <3>5, <3>6
  <2>. HIDE DEF tail, n, l
  <2>4. /\ text \o tail \in Seq(Byte) /\ Len(text \o tail) = l + n
        /\ \A i \in 1 .. l + n : (text \o tail)[i] = IF i <= l THEN text[i] ELSE tail[i - l]
    BY <1>1, <2>3, ConcatProperties DEF l
  <2>. HIDE DEF read
  <2>5. /\ read \in Seq(Byte) /\ Len(read) = l + n
        /\ \A i \in 1 .. l + n : read[i] = IF i <= l THEN text[i] ELSE tail[i - l]
    BY <2>1, <2>4
  <2>6. size = l + n
    BY <1>1, <1>5, <2>2, <2>5 DEF Larger, b
  <2>7. size = b * (k + 1) /\ k + 1 > 0 /\ k + 1 \in Nat
    <3>1. b * k \in Nat /\ b * (k + 1) = b * k + b
      BY <1>1, <1>2, TimesNat, TimesNext
    <3>. QED BY <1>1, <1>2, <2>6, <3>1 DEF n
  <2>8. \E m \in Nat : m > 0 /\ size = b * m
    BY <2>7
  <2>9. ASSUME NEW i \in 1 .. size
        PROVE  (IF i <= Len(read) THEN read[i] ELSE NUL)
               = IF i <= l THEN text[i]
                 ELSE IF i > b THEN IF i - b <= Len(read) THEN read[i - b] ELSE NUL
                 ELSE NUL
    <3>1. i \in 1 .. l + n /\ i <= Len(read)
      BY <1>1, <2>2, <2>5, <2>6
    <3>2. CASE i <= l
      BY <2>5, <3>1, <3>2
    <3>3. CASE ~ (i <= l)
      <4>1. i - l \in 1 .. n /\ i > b /\ i - b \in 1 .. l + n /\ i - b <= l /\ i - b <= Len(read) /\ l - b + (i - l) = i - b
        BY <1>1, <1>5, <2>2, <2>5, <3>1, <3>3
      <4>2. read[i] = tail[i - l]
        BY <2>5, <3>1, <3>3
      <4>3. tail[i - l] = text[i - b]
        BY <2>3, <4>1
      <4>4. read[i - b] = text[i - b]
        BY <2>5, <4>1
      <4>. QED BY <3>1, <3>3, <4>1, <4>2, <4>3, <4>4
    <3>. QED BY <3>2, <3>3
  <2>10. read # <<>> /\ Len(read) <= size /\ size \in Nat \ {0} /\ l <= size /\ size < l + b
    BY <1>1, <2>2, <2>5, <2>6, EmptySeq
  <2>. HIDE DEF size
  <2>. QED BY <2>5, <2>8, <2>9, <2>10 DEF Word, read, size, b, l
<1>. QED BY <1>3, <1>4, <1>5

(* So the parser of the file and the one that has all of it start as twins. *)
LEMMA StartTwins ==
  ASSUME NEW text \in Word, text # <<>>
  PROVE  Twins(copa_read_fd(text, BUFFER_SIZE),
               copa_read_fd(Padded(text), Larger(Len(Padded(text)), BUFFER_SIZE)))
<1>. DEFINE b == BUFFER_SIZE
            read == Padded(text)
            size == Larger(Len(read), b)
            l == Len(text)
            p == copa_read_fd(text, b)
            q == copa_read_fd(read, size)
            n == IF l < b THEN l ELSE b
            m == IF Len(read) < size THEN Len(read) ELSE size
<1>1. b \in Nat \ {0} /\ l \in Nat
  BY BufferAssumption, LenProperties DEF Word
<1>2. /\ read \in Word /\ read # <<>> /\ Len(read) <= size /\ size \in Nat \ {0}
      /\ \E k \in Nat : k > 0 /\ size = b * k
      /\ l <= size /\ size < l + b
      /\ \A i \in 1 .. size :
            (IF i <= Len(read) THEN read[i] ELSE NUL)
            = IF i <= l THEN text[i]
              ELSE IF i > b THEN IF i - b <= Len(read) THEN read[i - b] ELSE NUL
              ELSE NUL
  BY PaddedIs
<1>. HIDE DEF read, size
<1>3. Len(read) \in Nat
  BY <1>2, LenProperties DEF Word
<1>4. /\ p \in Parser(WordOrNull)
      /\ p = [text |-> text, pos |-> n,
              read_buffer |-> [i \in 1 .. b |-> IF i <= n THEN text[i] ELSE NUL],
              offset |-> 0, active |-> TRUE, pushback |-> NUL, escape |-> FALSE,
              octal |-> 0, hex |-> 0, numchar |-> NUL, c |-> NUL, word |-> NULL,
              call |-> NoCall]
      /\ p.read_buffer \in Word /\ Len(p.read_buffer) = b
  BY <1>1, StartIs
<1>5. /\ q \in Parser(WordOrNull)
      /\ q = [text |-> read, pos |-> m,
              read_buffer |-> [i \in 1 .. size |-> IF i <= m THEN read[i] ELSE NUL],
              offset |-> 0, active |-> TRUE, pushback |-> NUL, escape |-> FALSE,
              octal |-> 0, hex |-> 0, numchar |-> NUL, c |-> NUL, word |-> NULL,
              call |-> NoCall]
      /\ q.read_buffer \in Word /\ Len(q.read_buffer) = size
  BY <1>2, StartIs
<1>6. m = Len(read)
  BY <1>2, <1>3
<1>7. Alike(p, q)
  BY <1>4, <1>5 DEF Alike
<1>8. /\ p.pos = n /\ p.offset = 0 /\ p.text = text
      /\ \A i \in 1 .. b : p.read_buffer[i] = IF i <= n THEN text[i] ELSE NUL
  BY <1>4
<1>9. /\ q.pos = Len(read) /\ q.offset = 0 /\ q.text = read
      /\ \A i \in 1 .. size : q.read_buffer[i] = IF i <= Len(read) THEN read[i] ELSE NUL
  BY <1>5, <1>6
<1>10. Typed(p, q, WordOrNull) /\ Size(p) = b /\ Len(q.read_buffer) = size
  BY <1>4, <1>5 DEF Typed, Size
<1>. HIDE DEF p, q
<1>11. Fills(text, b, q.read_buffer)
  <2>1. ASSUME NEW i \in 1 .. size
        PROVE  q.read_buffer[i] = IF i <= l THEN text[i] ELSE IF i > b THEN q.read_buffer[i - b] ELSE NUL
    <3>1. q.read_buffer[i] = IF i <= l THEN text[i]
                             ELSE IF i > b THEN IF i - b <= Len(read) THEN read[i - b] ELSE NUL
                             ELSE NUL
      BY <1>2, <1>9
    <3>2. CASE i > b
      <4>1. i - b \in 1 .. size
        BY <1>1, <1>2, <3>2
      <4>2. q.read_buffer[i - b] = IF i - b <= Len(read) THEN read[i - b] ELSE NUL
        BY <1>9, <4>1
      <4>. QED BY <3>1, <3>2, <4>2
    <3>3. CASE ~ (i > b)
      BY <3>1, <3>3
    <3>. QED BY <3>2, <3>3
  <2>. QED BY <1>2, <1>10, <2>1 DEF Fills
<1>12. PICK k \in Nat : k > 0 /\ size = b * k
  BY <1>2
<1>13. b * 0 = 0
  BY <1>1
<1>14. b <= size
  <2>. HIDE DEF b
  <2>1. b * 0 + b <= b * k
    BY <1>1, <1>12, TimesOrder
  <2>. QED BY <1>1, <1>12, <1>13, <2>1
<1>15. Piecewise(p, q.read_buffer, 0, k)
  <2>1. Len(q.read_buffer) = Size(p) * k /\ 0 < k
    BY <1>10, <1>12
  <2>2. p.pos = IF 0 + b < l THEN 0 + b ELSE l
    BY <1>1, <1>8
  <2>3. ASSUME NEW i \in 1 .. b PROVE p.read_buffer[i] = q.read_buffer[0 + i]
    <3>1. i \in 1 .. size /\ ~ (i > b) /\ (i <= n <=> i <= l) /\ 0 + i = i
      BY <1>1, <1>2, <1>14
    <3>2. q.read_buffer[i] = IF i <= l THEN text[i] ELSE NUL
      BY <1>2, <1>9, <3>1
    <3>. QED BY <1>8, <3>1, <3>2
  <2>4. Size(p) * 0 = 0
    BY <1>10, <1>13
  <2>. QED BY <1>8, <1>10, <2>1, <2>2, <2>3, <2>4 DEF Piecewise
<1>16. Abreast(p, q)
  <2>1. q.offset = Size(p) * 0 + p.offset
    BY <1>8, <1>9, <1>10, <1>13
  <2>2. 0 \in Nat /\ b > 0 /\ p.offset <= b
    BY <1>1, <1>8
  <2>3. Fills(p.text, Size(p), q.read_buffer) /\ q.pos = Len(q.text)
    BY <1>8, <1>9, <1>10, <1>11
  <2>. QED BY <1>10, <1>12, <1>15, <2>1, <2>2, <2>3 DEF Abreast
<1>. QED BY <1>7, <1>10, <1>16 DEF Twins, Related, p, q, read, size
-----------------------------------------------------------------------------
(* The invariant: the two parsers are twins, or the file is empty. *)
Empty ==
  /\ ~ parser.active /\ ~ whole.active
  /\ parser.call = NoCall /\ whole.call = NoCall
  /\ parser.offset = 0 /\ parser.pos = 0 /\ parser.pushback = NUL /\ parser.text = <<>>

Reads == Twins(parser, whole) \/ Empty

LEMMA ReadsInit == ConfigInit => Reads
<1>. SUFFICES ASSUME ConfigInit PROVE Reads
  OBVIOUS
<1>1. PICK text \in Texts :
         /\ parser = copa_read_fd(text, BUFFER_SIZE)
         /\ whole = copa_read_fd(Padded(text), Larger(Len(Padded(text)), BUFFER_SIZE))
  BY DEF ConfigInit
<1>2. text \in Word
  BY TextsAssumption DEF Word, Byte
<1>3. CASE text # <<>>
  BY <1>1, <1>2, <1>3, StartTwins DEF Reads
<1>4. CASE text = <<>>
  <2>1. BUFFER_SIZE \in Nat \ {0}
    BY BufferAssumption
  <2>2. Len(text) = 0
    BY <1>4
  <2>3. Padded(text) = <<>>
    BY <1>4, <2>1, <2>2 DEF Padded
  <2>4. Larger(Len(Padded(text)), BUFFER_SIZE) = BUFFER_SIZE
    BY <1>4, <2>1, <2>2, <2>3 DEF Larger
  <2>5. parser = copa_read_fd(<<>>, BUFFER_SIZE) /\ whole = copa_read_fd(<<>>, BUFFER_SIZE)
    BY <1>1, <1>4, <2>3, <2>4
  <2>6. Empty
    BY <2>1, <2>5, StartEmpty DEF Empty
  <2>. QED BY <2>6 DEF Reads
<1>. QED BY <1>3, <1>4

LEMMA ReadsStep == Reads /\ [ConfigNext]_configVars => Reads'
<1>. SUFFICES ASSUME Reads, [ConfigNext]_configVars PROVE Reads'
  OBVIOUS
<1>1. ASSUME NEW is, Line(is) PROVE Reads'
  <2>1. Twins(parser, whole)
    BY <1>1 DEF Line, Reads, Empty
  <2>2. Twins(copa_parse_line(parser), copa_parse_line(whole))
    BY <2>1, LineTwins
  <2>3. Twins(parser', whole')
    BY <1>1, <2>2 DEF Line
  <2>. QED BY <2>3 DEF Reads
<1>2. CASE NoCallback
  BY <1>1, <1>2 DEF NoCallback
<1>3. CASE BlockStart
  BY <1>1, <1>3 DEF BlockStart
<1>4. CASE BlockEnd
  BY <1>1, <1>4 DEF BlockEnd
<1>5. CASE Assign
  BY <1>1, <1>5 DEF Assign
<1>6. CASE UNCHANGED <<parser, whole>>
  BY <1>6 DEF Reads, Empty
<1>7. CASE Startup
  BY <1>6, <1>7 DEF Startup
<1>8. CASE UNCHANGED configVars
  BY <1>6, <1>8 DEF configVars
<1>. QED BY <1>2, <1>3, <1>4, <1>5, <1>7, <1>8 DEF ConfigNext

LEMMA AlwaysReads == Spec => []Reads
BY ReadsInit, ReadsStep, PTL DEF Spec

(* Each line of a file is read as by a parser that has the whole file in its buffer:
   what copa_refill does in the middle of a word, of an escape or of a number, or behind
   a character that was put back, is not seen by the callbacks, for any file and any
   size of the buffer. *)
THEOREM RefillsAlwaysUnseen == Spec => []RefillsUnseen
<1>1. Reads => RefillsUnseen
  <2>1. CASE Twins(parser, whole)
    BY <2>1, TwinFacts DEF RefillsUnseen
  <2>2. CASE Empty
    <3>1. parser.active = FALSE /\ whole.active = FALSE
      BY <2>2 DEF Empty
    <3>. QED BY <2>2, <3>1 DEF Empty, RefillsUnseen
  <2>. QED BY <2>1, <2>2 DEF Reads
<1>. QED BY <1>1, AlwaysReads, PTL
-----------------------------------------------------------------------------
(* What the parser and the command line hand over are names and values. *)
HandsOver == Word \subseteq Name /\ Word \subseteq Value /\ Args \subseteq Value

LEMMA ReaderStep ==
  ASSUME HandsOver, Reads', [ConfigNext]_configVars
  PROVE  [Next]_vars
<1>1. /\ parser'.call.is = "assign" => parser'.call.name \in Name /\ parser'.call.value \in Value
      /\ parser'.call.is \in {"start", "end"} => parser'.call.name \in Name
  <2>1. \/ Twins(parser', whole')
        \/ parser'.call = NoCall
    BY DEF Reads, Empty
  <2>2. parser'.call \in Callbacks
    BY <2>1, TwinFacts DEF Callbacks
  <2>. QED BY <2>2 DEF Callbacks, NoCall, HandsOver
<1>2. CASE NoCallback
  BY <1>2 DEF NoCallback
<1>3. CASE BlockStart
  BY <1>3 DEF BlockStart, Line, Next, Callback
<1>4. CASE BlockEnd
  BY <1>1, <1>4 DEF BlockEnd, Line, Next, Callback
<1>5. CASE Assign
  BY <1>1, <1>5 DEF Assign, Line, Next, Callback
<1>6. CASE Startup
  BY <1>6 DEF Startup, Next, HandsOver
<1>7. CASE UNCHANGED configVars
  BY <1>7 DEF configVars
<1>. QED BY <1>2, <1>3, <1>4, <1>5, <1>6, <1>7 DEF ConfigNext

(* A file read by the parser makes the callbacks of cfg-read.c in an order that CfgRead
   allows, and main then starts the server as CfgRead has it: Config implements CfgRead. *)
THEOREM ReaderImplemented ==
  ASSUME HandsOver
  PROVE  Spec => CfgReadSpec
<1>1. ConfigInit => Init
  BY DEF ConfigInit
<1>2. Reads' /\ [ConfigNext]_configVars => [Next]_vars
  BY ReaderStep
<1>. QED BY <1>1, <1>2, AlwaysReads, PTL DEF Spec, CfgReadSpec

(* The offset of the parser stays within its buffer and its place within the file; no
   resource has an encoder that shrecord_resource did not let in. *)
THEOREM ConfigTypes ==
  ASSUME HandsOver
  PROVE  Spec => []TypeOK
<1>1. Spec => [](Types /\ Answered)
  BY ReaderImplemented, AlwaysAnswered, PTL
<1>2. Reads => /\ parser.offset \in 0 .. BUFFER_SIZE
               /\ parser.pos \in 0 .. Len(parser.text)
               /\ parser.pushback \in 0 .. 255
  <2>. SUFFICES ASSUME Reads
                PROVE  /\ parser.offset \in 0 .. BUFFER_SIZE
                       /\ parser.pos \in 0 .. Len(parser.text)
                       /\ parser.pushback \in 0 .. 255
    OBVIOUS
  <2>1. CASE Twins(parser, whole)
    <3>1. Typed(parser, whole, WordOrNull) /\ Abreast(parser, whole)
      BY <2>1 DEF Twins, Related
    <3>2. Size(parser) = BUFFER_SIZE /\ parser.pushback \in 0 .. 255
      BY <3>1 DEF Abreast, Typed, Parser, Byte
    <3>. QED BY <3>1, <3>2, AbreastFacts
  <2>2. CASE Empty
    <3>1. Len(parser.text) = 0
      BY <2>2 DEF Empty
    <3>. QED BY <2>2, <3>1, BufferAssumption DEF Empty, NUL
  <2>. QED BY <2>1, <2>2 DEF Reads
<1>3. Types => /\ pvt.nr_encoders \in 0 .. MAX_ENCODERS + 1
               /\ pvt.do_preview \in BOOLEAN
               /\ Len(origin) = Len(resources)
               /\ \A i \in DOMAIN resources : resources[i].slot \in {NULL} \cup 0 .. pvt.nr_encoders - 1
  <2>. SUFFICES ASSUME Types
                PROVE  /\ pvt.nr_encoders \in 0 .. MAX_ENCODERS + 1
                       /\ pvt.do_preview \in BOOLEAN
                       /\ Len(origin) = Len(resources)
                       /\ \A i \in DOMAIN resources : resources[i].slot \in {NULL} \cup 0 .. pvt.nr_encoders - 1
    OBVIOUS
  <2>1. pvt.nr_encoders \in 0 .. MAX_ENCODERS + 1 /\ pvt.do_preview \in BOOLEAN /\ Len(origin) = Len(resources)
    BY DEF Types, Private
  <2>2. ASSUME NEW i \in DOMAIN resources
        PROVE  resources[i].slot \in {NULL} \cup 0 .. pvt.nr_encoders - 1
    <3>1. resources[i] \in Resources
      BY DEF Types
    <3>2. CASE resources[i].kind = "SHRecord"
      <4>1. resources[i].slot \in 0 .. MAX_ENCODERS /\ resources[i].slot < pvt.nr_encoders
        BY <3>2 DEF Types
      <4>. QED BY <2>1, <4>1, EncodersAssumption
    <3>3. CASE resources[i].kind # "SHRecord"
      BY <3>1, <3>3 DEF Resources
    <3>. QED BY <3>2, <3>3
  <2>. QED BY <2>1, <2>2
<1>4. Reads /\ Types => TypeOK
  BY <1>2, <1>3 DEF TypeOK
<1>. QED BY <1>1, <1>4, AlwaysReads, PTL

(* What is proved of the reader for every order of the callbacks holds for the order in
   which a file makes them: a lookup is never stale, a name alone in its bucket is found
   and stays found, the buckets are trees, and the resources and the port are those that
   the file and the command line give. *)
THEOREM FileServed ==
  ASSUME HandsOver
  PROVE  Spec => /\ [](LookupNeverStale /\ LookupFindsAlone /\ TreesShaped)
                 /\ [](ServedAsConfigured /\ PortAsConfigured)
                 /\ FoundStaysFound
<1>1. Spec => CfgReadSpec
  BY ReaderImplemented
<1>. QED
  BY <1>1, NeverStaleAlways, AloneFoundAlways, ShapedAlways, ServedAlways, PortAlways, FoundStaysFoundAlways, PTL
=============================================================================
