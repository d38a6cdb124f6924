----------------------------- MODULE HttpProofs -----------------------------
(***************************************************************************)
(* Proofs about HttpConnection, for any requests, resources and pieces:    *)
(* the types, and that a request whose first piece is cut where the parser *)
(* wants it is answered as it asks.                                        *)
(***************************************************************************)
EXTENDS HttpConnection, FiniteSetTheorems, SequenceTheorems, WellFoundedInduction, TLAPS

(* A set of naturals that is not empty has a least element: induction, for a
   property that is the set of its counterexamples. *)
LEMMA LeastNatural ==
  ASSUME NEW S, S \subseteq Nat, S # {}
  PROVE  \E x \in S : \A y \in S : x <= y
<1>. DEFINE Less == OpToRel(<, Nat)
<1>1. IsWellFoundedOn(Less, Nat)
  BY NatLessThanWellFounded
<1>. HIDE DEF Less
<1>2. PICK x \in S : \A y \in S : ~ (<<y, x>> \in Less)
  BY <1>1, WFMin
<1>3. ASSUME NEW y \in S PROVE x <= y
  <2>1. ~ (<<y, x>> \in Less) /\ x \in Nat /\ y \in Nat
    BY <1>2
  <2>2. ~ (y < x)
    BY <2>1 DEF Less, OpToRel
  <2>. QED BY <2>1, <2>2
<1>. QED BY <1>2, <1>3

LEMMA MinLeast ==
  ASSUME NEW S, S \subseteq Nat, S # {} PROVE Min(S) \in S /\ \A y \in S : Min(S) <= y
BY LeastNatural DEF Min

(* Found is the first of the resources whose path the request's begins with. *)
LEMMA FoundFirst ==
  ASSUME NEW path
  PROVE  /\ Found(path) \in {NotFound} \cup DOMAIN Resource
         /\ Found(path) \in Nat
         /\ Found(path) > 0 <=> \E i \in DOMAIN Resource : IsPrefix(Resource[i], path)
         /\ Found(path) = NotFound <=> ~ \E i \in DOMAIN Resource : IsPrefix(Resource[i], path)
<1>1. Checks(path) \subseteq DOMAIN Resource /\ DOMAIN Resource \subseteq Nat \ {0}
  BY ResourceAssumption DEF Checks
<1>2. Checks(path) # {} => Min(Checks(path)) \in Checks(path)
  BY <1>1, MinLeast
<1>. QED BY <1>1, <1>2 DEF Found, Checks, NotFound
-----------------------------------------------------------------------------
(* What the parsers return. *)
LEMMA LineConsumed == ASSUME NEW cur \in Seq(Token) PROVE http_request_parse(cur) \in Nat
<1>. DEFINE after == {i \in DOMAIN cur : /\ i > Len(RequestLine)
                                         /\ \A j \in Len(RequestLine) + 1 .. i : cur[j] = "eol"}
<1>1. IsFiniteSet(DOMAIN cur)
  BY FS_Interval
<1>2. Cardinality(after) \in Nat
  BY <1>1, FS_Subset, FS_CardinalityType
<1>. HIDE DEF after
<1>3. Len(RequestLine) = 5
  BY DEF RequestLine
<1>4. http_request_parse(cur) = IF IsPrefix(RequestLine, cur) /\ Cardinality(after) <= 1
                                THEN Len(RequestLine) + Cardinality(after) ELSE 0
  BY DEF http_request_parse, after
<1>. QED BY <1>2, <1>3, <1>4

LEMMA ParsedOne == ASSUME NEW text PROVE params_new_parse(text) \in {"null", "never", "list"}
BY DEF params_new_parse

LEMMA MovedTyped ==
  ASSUME NEW piece \in Seq(Token), NEW consumed \in Nat, NEW t \in Moved(piece, consumed)
  PROVE  t \in Seq(Token)
<1>1. CASE t = piece
  BY <1>1
<1>2. ASSUME NEW k \in DOMAIN piece, t = SubSeq(piece, consumed + 1, Len(piece)) \o SubSeq(piece, k, Len(piece))
      PROVE  t \in Seq(Token)
  <2>1. SubSeq(piece, consumed + 1, Len(piece)) \in Seq(Token) /\ SubSeq(piece, k, Len(piece)) \in Seq(Token)
    OBVIOUS
  <2>. QED BY <1>2, <2>1
<1>. QED BY <1>1, <1>2 DEF Moved
-----------------------------------------------------------------------------
(* FlattenSeq stays within a set that is closed under concatenation: the function that it
   defines recursively exists, and each of its values is in the set. *)
Closed(S) == \A a, b \in S : a \o b \in S
Flattens(ss, f, i) == f[i] = IF i = 1 THEN ss[i] ELSE f[i - 1] \o ss[i]

LEMMA FlattenExists ==
  ASSUME NEW S, Closed(S), NEW ss \in Seq(S), NEW count \in Nat \ {0}, count <= Len(ss)
  PROVE  \E f \in [1 .. count -> S] : \A i \in 1 .. count : Flattens(ss, f, i)
<1>. DEFINE Exists(m) == \E f \in [1 .. m -> S] : \A i \in 1 .. m : Flattens(ss, f, i)
            Bad == {m \in 1 .. count : ~ Exists(m)}
<1>. HIDE DEF Exists
<1>1. SUFFICES ASSUME Bad # {} PROVE FALSE
  <2>1. count \in 1 .. count
    OBVIOUS
  <2>. QED BY <2>1 DEF Exists
<1>2. PICK m \in Bad : \A k \in Bad : m <= k
  <2>1. Bad \subseteq Nat
    OBVIOUS
  <2>. QED BY <1>1, <2>1, LeastNatural
<1>3. m \in 1 .. count /\ m \in Nat /\ ~ Exists(m) /\ ss[m] \in S
  <2>1. m \in 1 .. count /\ ~ Exists(m)
    OBVIOUS
  <2>2. m \in 1 .. Len(ss)
    BY <2>1
  <2>. QED BY <2>1, <2>2
<1>4. CASE m = 1
  <2>. DEFINE f == [i \in 1 .. 1 |-> ss[1]]
  <2>1. f \in [1 .. 1 -> S] /\ f[1] = ss[1]
    BY <1>3, <1>4
  <2>. HIDE DEF f
  <2>2. \A i \in 1 .. 1 : Flattens(ss, f, i)
    BY <2>1 DEF Flattens
  <2>3. Exists(1)
    BY <2>1, <2>2 DEF Exists
  <2>. QED BY <1>3, <1>4, <2>3
<1>5. CASE m # 1
  <2>1. m - 1 \in 1 .. count /\ m - 1 \in Nat /\ ~ (m <= m - 1)
    BY <1>3, <1>5
  <2>2. Exists(m - 1)
    BY <1>2, <2>1
  <2>3. PICK f \in [1 .. m - 1 -> S] : \A i \in 1 .. m - 1 : Flattens(ss, f, i)
    BY <2>2 DEF Exists
  <2>. DEFINE last == f[m - 1] \o ss[m]
  <2>4. last \in S
    <3>1. f[m - 1] \in S
      BY <2>1, <2>3
    <3>. QED BY <1>3, <3>1 DEF Closed
  <2>. HIDE DEF last
  <2>. DEFINE g == [i \in 1 .. m |-> IF i < m THEN f[i] ELSE last]
  <2>5. g \in [1 .. m -> S]
    <3>1. ASSUME NEW i \in 1 .. m PROVE (IF i < m THEN f[i] ELSE last) \in S
      <4>1. CASE i < m
        <5>1. i \in 1 .. m - 1
          BY <1>3, <4>1
        <5>. QED BY <2>3, <4>1, <5>1
      <4>2. CASE ~ (i < m)
        BY <2>4, <4>2
      <4>. QED BY <4>1, <4>2
    <3>. QED BY <3>1
  <2>6. g[m] = last /\ \A i \in 1 .. m - 1 : g[i] = f[i]
    BY <1>3
  <2>. HIDE DEF g
  <2>7. ASSUME NEW i \in 1 .. m PROVE Flattens(ss, g, i)
    <3>1. CASE i = m
      <4>1. m - 1 \in 1 .. m - 1 /\ g[m - 1] = f[m - 1]
        BY <1>3, <2>1, <2>6
      <4>. QED BY <1>5, <2>6, <3>1, <4>1 DEF Flattens, last
    <3>2. CASE i # m
      <4>1. i \in 1 .. m - 1 /\ (i # 1 => i - 1 \in 1 .. m - 1)
        BY <1>3, <3>2
      <4>2. Flattens(ss, f, i)
        BY <2>3, <4>1
      <4>. QED BY <2>6, <4>1, <4>2 DEF Flattens
    <3>. QED BY <3>1, <3>2
  <2>8. Exists(m)
    BY <2>5, <2>7 DEF Exists
  <2>. QED BY <1>3, <2>8
<1>. QED BY <1>4, <1>5

LEMMA FlattenClosed ==
  ASSUME NEW S, Closed(S), NEW ss \in Seq(S), ss # <<>> PROVE FlattenSeq(ss) \in S
<1>. DEFINE count == Len(ss)
            Flat(f) == f = [i \in 1 .. count |-> IF i = 1 THEN ss[i] ELSE f[i - 1] \o ss[i]]
            flatten == CHOOSE f : Flat(f)
<1>0. count \in Nat \ {0} /\ count <= Len(ss)
  BY EmptySeq
<1>1. FlattenSeq(ss) = flatten[count]
  BY <1>0 DEF FlattenSeq
<1>2. PICK f \in [1 .. count -> S] : \A i \in 1 .. count : Flattens(ss, f, i)
  <2>. HIDE DEF count
  <2>. QED BY <1>0, FlattenExists
<1>3. Flat(f)
  BY <1>2 DEF Flattens
<1>4. Flat(flatten)
  BY <1>3
<1>. HIDE DEF flatten
<1>. DEFINE Bad == {i \in 1 .. count : flatten[i] \notin S}
<1>5. ASSUME Bad # {} PROVE FALSE
  <2>1. PICK m \in Bad : \A k \in Bad : m <= k
    <3>1. Bad \subseteq Nat
      BY <1>0
    <3>. QED BY <1>5, <3>1, LeastNatural
  <2>2. m \in 1 .. count /\ m \in Nat /\ flatten[m] \notin S /\ ss[m] \in S
    BY <1>0
  <2>3. flatten[m] = IF m = 1 THEN ss[m] ELSE flatten[m - 1] \o ss[m]
    BY <1>4, <2>2
  <2>4. m # 1 /\ m - 1 \in 1 .. count /\ ~ (m <= m - 1)
    BY <1>0, <2>2, <2>3
  <2>5. flatten[m - 1] \in S
    BY <2>1, <2>4
  <2>6. flatten[m - 1] \o ss[m] \in S
    BY <2>2, <2>5 DEF Closed
  <2>. QED BY <2>2, <2>3, <2>4, <2>6
<1>6. flatten[count] \in S
  BY <1>0, <1>5
<1>. QED BY <1>1, <1>6

LEMMA FlattenTyped == ASSUME NEW T, NEW ss \in Seq(Seq(T)) PROVE FlattenSeq(ss) \in Seq(T)
<1>1. CASE ss = <<>>
  BY <1>1 DEF FlattenSeq
<1>2. CASE ss # <<>>
  <2>1. Closed(Seq(T))
    BY ConcatProperties DEF Closed
  <2>. QED BY <1>2, <2>1, FlattenClosed
<1>. QED BY <1>1, <1>2
-----------------------------------------------------------------------------
(* Lines as HTTP has them, and what the parsers make of them. *)
LEMMA LinesFacts ==
  ASSUME NEW u \in Lines
  PROVE  /\ u \in Seq(Token) /\ Len(u) \in Nat /\ Len(u) > 2 /\ u[Len(u)] = "eol"
         /\ u[1] \notin Blank \cup {"eol"} /\ u[2] \in Blank
         /\ \A i \in 1 .. Len(u) - 1 : ~ (u[i] = "eol" /\ u[i + 1] = "eol")
<1>1. u \in Seq(Token) /\ Len(u) \in Nat /\ Len(u) > 0 /\ DOMAIN u = 1 .. Len(u) /\ u[Len(u)] = "eol"
  BY EmptySeq DEF Lines
<1>2. \A i \in 1 .. Len(u) : Begins(u, i) => /\ u[i] \notin Blank \cup {"eol"}
                                            /\ i + 1 < Len(u) /\ u[i + 1] \in Blank
  BY <1>1 DEF Lines
<1>3. 1 \in 1 .. Len(u) /\ Begins(u, 1)
  BY <1>1 DEF Begins
<1>4. ASSUME NEW i \in 1 .. Len(u) - 1, u[i] = "eol", u[i + 1] = "eol" PROVE FALSE
  <2>1. i + 1 \in 1 .. Len(u) /\ (i + 1) - 1 = i
    BY <1>1
  <2>2. Begins(u, i + 1)
    BY <1>4, <2>1 DEF Begins
  <2>. QED BY <1>2, <1>4, <2>1, <2>2
<1>. QED BY <1>1, <1>2, <1>3, <1>4

LEMMA LinesClosed == Closed(Lines)
<1>. SUFFICES ASSUME NEW a \in Lines, NEW b \in Lines PROVE a \o b \in Lines
  BY DEF Closed
<1>. DEFINE u == a \o b
<1>1. /\ a \in Seq(Token) /\ b \in Seq(Token) /\ Len(a) \in Nat /\ Len(b) \in Nat /\ Len(a) > 2 /\ Len(b) > 2
      /\ a[Len(a)] = "eol" /\ b[Len(b)] = "eol"
  BY LinesFacts
<1>2. /\ u \in Seq(Token) /\ Len(u) = Len(a) + Len(b) /\ DOMAIN u = 1 .. Len(a) + Len(b)
      /\ \A i \in 1 .. Len(a) : u[i] = a[i]
      /\ \A i \in 1 .. Len(b) : u[Len(a) + i] = b[i]
  <2>1. /\ u \in Seq(Token) /\ Len(u) = Len(a) + Len(b)
        /\ \A i \in 1 .. Len(a) + Len(b) : u[i] = IF i <= Len(a) THEN a[i] ELSE b[i - Len(a)]
    BY <1>1, ConcatProperties
  <2>. HIDE DEF u
  <2>2. ASSUME NEW i \in 1 .. Len(a) PROVE u[i] = a[i]
    BY <1>1, <2>1
  <2>3. ASSUME NEW i \in 1 .. Len(b) PROVE u[Len(a) + i] = b[i]
    <3>1. Len(a) + i \in 1 .. Len(a) + Len(b) /\ ~ (Len(a) + i <= Len(a)) /\ (Len(a) + i) - Len(a) = i
      BY <1>1
    <3>. QED BY <2>1, <3>1
  <2>. QED BY <1>1, <2>1, <2>2, <2>3
<1>. HIDE DEF u
<1>3. u # <<>> /\ u[Len(u)] = "eol"
  BY <1>1, <1>2, EmptySeq
<1>4. ASSUME NEW i \in 1 .. Len(a) + Len(b), Begins(u, i)
      PROVE  u[i] \notin Blank \cup {"eol"} /\ i + 1 < Len(u) /\ u[i + 1] \in Blank
  <2>1. CASE i <= Len(a)
    <3>1. i \in 1 .. Len(a) /\ i \in DOMAIN a /\ u[i] = a[i] /\ (i # 1 => i - 1 \in 1 .. Len(a))
      BY <1>1, <1>2, <2>1
    <3>2. Begins(a, i)
      BY <1>2, <1>4, <3>1 DEF Begins
    <3>3. a[i] \notin Blank \cup {"eol"} /\ i + 1 < Len(a) /\ a[i + 1] \in Blank
      BY <3>1, <3>2 DEF Lines
    <3>4. i + 1 \in 1 .. Len(a)
      BY <1>1, <3>1, <3>3
    <3>. QED BY <1>1, <1>2, <3>1, <3>3, <3>4
  <2>2. CASE ~ (i <= Len(a))
    <3>. DEFINE k == i - Len(a)
    <3>1. k \in 1 .. Len(b) /\ k \in DOMAIN b /\ i = Len(a) + k
      BY <1>1, <2>2
    <3>. HIDE DEF k
    <3>2. u[i] = b[k] /\ (k # 1 => k - 1 \in 1 .. Len(b) /\ i - 1 = Len(a) + (k - 1))
      BY <1>1, <1>2, <3>1
    <3>3. i # 1
      BY <1>1, <3>1
    <3>4. Begins(b, k)
      BY <1>2, <1>4, <3>1, <3>2, <3>3 DEF Begins
    <3>5. b[k] \notin Blank \cup {"eol"} /\ k + 1 < Len(b) /\ b[k + 1] \in Blank
      BY <3>1, <3>4 DEF Lines
    <3>6. k + 1 \in 1 .. Len(b) /\ i + 1 = Len(a) + (k + 1)
      BY <1>1, <3>1, <3>5
    <3>7. u[i + 1] = b[k + 1]
      <4>1. u[Len(a) + (k + 1)] = b[k + 1]
        BY <1>2, <3>6
      <4>. QED BY <3>6, <4>1
    <3>8. i + 1 < Len(u)
      BY <1>1, <1>2, <3>1, <3>5, <3>6
    <3>. QED BY <3>2, <3>5, <3>7, <3>8
  <2>. QED BY <2>1, <2>2
<1>5. u \in Lines
  BY <1>2, <1>3, <1>4 DEF Lines
<1>. QED BY <1>5 DEF u

(* A text without its empty line gives nothing. *)
LEMMA PartNull ==
  ASSUME NEW u \in Lines, NEW x \in Seq(Token), Len(x) <= Len(u), \A i \in 1 .. Len(x) : x[i] = u[i]
  PROVE  params_new_parse(x) = "null"
<1>1. ASSUME NEW i \in EndsAt(x) PROVE FALSE
  <2>1. i \in 1 .. Len(x) /\ i < Len(x) /\ x[i] = "eol" /\ x[i + 1] = "eol" /\ Len(x) \in Nat
    BY <1>1 DEF EndsAt
  <2>2. i + 1 \in 1 .. Len(x) /\ i \in 1 .. Len(u) - 1
    BY <2>1, LinesFacts
  <2>3. u[i] = "eol" /\ u[i + 1] = "eol"
    BY <2>1, <2>2
  <2>. QED BY <2>2, <2>3, LinesFacts
<1>. QED BY <1>1 DEF params_new_parse

(* A text with its empty line gives a list, whatever comes behind. *)
LEMMA WholeList ==
  ASSUME NEW u \in Lines, NEW x \in Seq(Token), Len(x) > Len(u), \A i \in 1 .. Len(u) : x[i] = u[i],
         x[Len(u) + 1] = "eol"
  PROVE  params_new_parse(x) = "list"
<1>. DEFINE L == Len(u)
<1>0. L \in Nat /\ L > 2 /\ Len(x) \in Nat /\ u[L] = "eol" /\ DOMAIN x = 1 .. Len(x)
  BY LinesFacts
<1>1. L \in EndsAt(x)
  <2>1. x[L] = "eol"
    BY <1>0
  <2>. QED BY <1>0, <2>1 DEF EndsAt
<1>2. ASSUME NEW i \in EndsAt(x) PROVE L <= i
  <2>. SUFFICES ASSUME ~ (L <= i) PROVE FALSE
    OBVIOUS
  <2>1. i \in 1 .. Len(x) /\ x[i] = "eol" /\ x[i + 1] = "eol"
    BY <1>0, <1>2 DEF EndsAt
  <2>2. i \in 1 .. L /\ i + 1 \in 1 .. L /\ i \in 1 .. L - 1
    BY <1>0, <2>1
  <2>. QED BY <2>1, <2>2, LinesFacts
<1>3. Min(EndsAt(x)) = L
  <2>1. EndsAt(x) \subseteq Nat
    BY <1>0 DEF EndsAt
  <2>2. Min(EndsAt(x)) \in EndsAt(x) /\ Min(EndsAt(x)) <= L
    BY <1>1, <2>1, MinLeast
  <2>. QED BY <1>0, <1>2, <2>1, <2>2
<1>. DEFINE headers == SubSeq(x, 1, Min(EndsAt(x)) - 1)
<1>4. /\ headers \in Seq(Token) /\ Len(headers) = L - 1 /\ DOMAIN headers = 1 .. L - 1
      /\ \A i \in 1 .. L - 1 : headers[i] = u[i]
  <2>. DEFINE h == SubSeq(x, 1, L - 1)
  <2>1. h \in Seq(Token) /\ Len(h) = L - 1 /\ \A i \in 1 .. L - 1 : h[i] = x[i]
    <3>1. L - 1 \in 0 .. Len(x)
      BY <1>0
    <3>. DEFINE m == L - 1
    <3>2. m \in 0 .. Len(x)
      BY <3>1
    <3>. HIDE DEF m
    <3>3. /\ SubSeq(x, 1, m) \in Seq(Token) /\ Len(SubSeq(x, 1, m)) = m
          /\ \A i \in 1 .. m : SubSeq(x, 1, m)[i] = x[i]
      BY <1>0, <3>2, SubSeqProperties
    <3>. QED BY <3>3 DEF m
  <2>2. headers = h
    BY <1>3
  <2>. HIDE DEF h, headers
  <2>3. \A i \in 1 .. L - 1 : h[i] = u[i]
    BY <1>0, <2>1
  <2>. QED BY <1>0, <2>1, <2>2, <2>3
<1>5. params_new_parse(x) = IF headers = <<>> \/ (headers[1] = "eol" /\ Break(headers, 1)) THEN "null"
                            ELSE IF Stuck(headers) THEN "never" ELSE "list"
  BY <1>1 DEF params_new_parse
<1>. HIDE DEF headers
<1>6. headers # <<>> /\ headers[1] # "eol"
  <2>1. 1 \in 1 .. L - 1 /\ L - 1 # 0
    BY <1>0
  <2>. QED BY <1>4, <2>1, LinesFacts, EmptySeq
<1>7. ASSUME Stuck(headers) PROVE FALSE
  <2>1. PICK i \in DOMAIN headers :
           /\ i = 1 \/ Break(headers, i - 1)
           /\ \/ headers[i] \in Blank \cup {"eol"}
              \/ \A d \in i + 1 .. Len(headers) :
                    headers[d] \in Blank \cup {"eol"} => \E b \in i + 1 .. d : Break(headers, b)
    BY <1>7 DEF Stuck
  <2>2. i \in 1 .. L - 1 /\ i \in 1 .. L /\ i \in DOMAIN u /\ (i # 1 => i - 1 \in 1 .. L - 1 /\ (i - 1) + 1 = i)
    BY <1>0, <1>4, <2>1, LinesFacts
  <2>3. Begins(u, i)
    BY <1>4, <2>1, <2>2 DEF Begins, Break
  <2>4. u[i] \notin Blank \cup {"eol"} /\ i + 1 < L /\ u[i + 1] \in Blank
    BY <2>2, <2>3 DEF Lines
  <2>5. i + 1 \in 1 .. L - 1 /\ i + 1 \in i + 1 .. Len(headers) /\ headers[i] = u[i] /\ headers[i + 1] = u[i + 1]
    BY <1>0, <1>4, <2>2, <2>4
  <2>6. \E b \in i + 1 .. i + 1 : Break(headers, b)
    BY <2>1, <2>4, <2>5
  <2>7. Break(headers, i + 1)
    BY <2>2, <2>6
  <2>. QED BY <2>4, <2>5, <2>7 DEF Break, Blank
<1>. QED BY <1>5, <1>6, <1>7
-----------------------------------------------------------------------------
(* A part of a sequence. *)
LEMMA Piece ==
  ASSUME NEW T, NEW t \in Seq(T), NEW a \in Nat \ {0}, NEW b \in Nat, a <= b + 1, b <= Len(t)
  PROVE  /\ SubSeq(t, a, b) \in Seq(T) /\ Len(SubSeq(t, a, b)) = b - a + 1
         /\ \A i \in 1 .. b - a + 1 : SubSeq(t, a, b)[i] = t[a + i - 1]
<1>1. Len(t) \in Nat /\ \A i \in a .. b : t[i] \in T
  BY ElementOfSeq
<1>2. /\ SubSeq(t, a, b) \in Seq(T)
      /\ Len(SubSeq(t, a, b)) = IF a <= b THEN b - a + 1 ELSE 0
      /\ \A i \in 1 .. b - a + 1 : SubSeq(t, a, b)[i] = t[a + i - 1]
  BY <1>1, SubSeqProperties
<1>. QED BY <1>2

(* What follows a request line is consumed up to one line end. *)
LEMMA LineParsed ==
  ASSUME NEW piece \in Seq(Token), Len(piece) >= 5, \A i \in 1 .. 5 : piece[i] = RequestLine[i]
  PROVE  /\ Len(piece) = 5 => http_request_parse(piece) = 5
         /\ /\ Len(piece) > 5 /\ piece[6] = "eol"
            /\ Len(piece) > 6 => piece[7] # "eol"
            => http_request_parse(piece) = 6
<1>. DEFINE after == {i \in DOMAIN piece : /\ i > Len(RequestLine)
                                           /\ \A j \in Len(RequestLine) + 1 .. i : piece[j] = "eol"}
<1>1. Len(RequestLine) = 5 /\ RequestLine \in Seq(Token) /\ Len(piece) \in Nat /\ DOMAIN piece = 1 .. Len(piece)
  BY DEF RequestLine, Token
<1>2. IsPrefix(RequestLine, piece)
  <2>1. /\ SubSeq(RequestLine, 1, 5) \in Seq(Token) /\ Len(SubSeq(RequestLine, 1, 5)) = 5
        /\ \A i \in 1 .. 5 : SubSeq(RequestLine, 1, 5)[i] = RequestLine[i]
    BY <1>1, Piece
  <2>2. /\ SubSeq(piece, 1, 5) \in Seq(Token) /\ Len(SubSeq(piece, 1, 5)) = 5
        /\ \A i \in 1 .. 5 : SubSeq(piece, 1, 5)[i] = piece[i]
    BY <1>1, Piece
  <2>3. SubSeq(RequestLine, 1, 5) = SubSeq(piece, 1, 5)
    BY <2>1, <2>2, SeqEqual
  <2>. QED BY <1>1, <2>3 DEF IsPrefix
<1>3. Len(piece) = 5 => after = {}
  BY <1>1
<1>4. ASSUME Len(piece) > 5, piece[6] = "eol", Len(piece) > 6 => piece[7] # "eol" PROVE after = {6}
  <2>1. ASSUME NEW i \in after PROVE i = 6
    <3>1. i \in 1 .. Len(piece) /\ i > 5 /\ \A j \in 6 .. i : piece[j] = "eol"
      BY <1>1
    <3>2. i > 6 => 7 \in 6 .. i /\ Len(piece) > 6
      BY <1>1, <3>1
    <3>. QED BY <1>1, <1>4, <3>1, <3>2
  <2>2. 6 \in after
    BY <1>1, <1>4
  <2>. QED BY <2>1, <2>2
<1>5. Cardinality({}) = 0 /\ Cardinality({6}) = 1
  BY FS_EmptySet, FS_Singleton
<1>6. http_request_parse(piece) = IF IsPrefix(RequestLine, piece) /\ Cardinality(after) <= 1
                                  THEN Len(RequestLine) + Cardinality(after) ELSE 0
  BY DEF http_request_parse
<1>. HIDE DEF after
<1>7. http_request_parse(piece) = IF Cardinality(after) <= 1 THEN 5 + Cardinality(after) ELSE 0
  BY <1>1, <1>2, <1>6
<1>8. CASE after = {}
  BY <1>1, <1>4, <1>5, <1>7, <1>8
<1>9. CASE after = {6}
  BY <1>1, <1>3, <1>5, <1>7, <1>9
<1>. QED BY <1>1, <1>3, <1>4, <1>8, <1>9

(* What is appended comes behind. *)
LEMMA Appended ==
  ASSUME NEW T, NEW a \in Seq(T), NEW b \in Seq(T), NEW c, c = a \o b
  PROVE  /\ c \in Seq(T) /\ Len(c) = Len(a) + Len(b)
         /\ \A i \in 1 .. Len(a) : c[i] = a[i]
         /\ \A i \in 1 .. Len(b) : c[Len(a) + i] = b[i]
<1>1. /\ c \in Seq(T) /\ Len(c) = Len(a) + Len(b) /\ Len(a) \in Nat /\ Len(b) \in Nat
      /\ \A i \in 1 .. Len(a) + Len(b) : c[i] = IF i <= Len(a) THEN a[i] ELSE b[i - Len(a)]
  BY ConcatProperties
<1>2. ASSUME NEW i \in 1 .. Len(b) PROVE c[Len(a) + i] = b[i]
  <2>1. Len(a) + i \in 1 .. Len(a) + Len(b) /\ ~ (Len(a) + i <= Len(a)) /\ (Len(a) + i) - Len(a) = i
    BY <1>1
  <2>. QED BY <1>1, <2>1
<1>. QED BY <1>1, <1>2

LEMMA NotEmpty == ASSUME NEW t, Len(t) # 0 PROVE t # <<>>
BY Len(<<>>) = 0

(* A request's text t: its line, the header lines h, and the empty line, in front of which
   there is nothing but lines. *)
Lays(t, h) ==
  /\ h \in Lines /\ t \in Seq(Token) /\ Len(t) = Len(h) + 7
  /\ \A i \in 1 .. 5 : t[i] = RequestLine[i]
  /\ t[6] = "eol" /\ t[Len(t)] = "eol"
  /\ \A i \in 1 .. Len(h) : t[6 + i] = h[i]
  /\ \E v \in Lines : Len(v) = Len(h) + 6 /\ \A i \in 1 .. Len(v) : t[i] = v[i]

LEMMA TextLays ==
  ASSUME request \in [method : Method, path : Path, headers : Headers], request.headers \in Seq(Lines) \ {<<>>}
  PROVE  \E h \in Lines : Lays(Text(request), h)
<1>. DEFINE h == FlattenSeq(request.headers)
            end == <<"eol">>
            line == RequestLine \o end
            v == line \o h
            t == v \o end
<1>0. end \in Seq(Token) /\ Len(end) = 1 /\ end[1] = "eol"
  BY DEF Token
<1>. HIDE DEF end
<1>1. h \in Lines
  BY LinesClosed, FlattenClosed
<1>. HIDE DEF h
<1>2. /\ line \in Seq(Token) /\ Len(line) = 6
      /\ line[1] = "method" /\ line[2] = "sp" /\ line[3] = "path" /\ line[4] = "sp"
      /\ line[5] = "version" /\ line[6] = "eol"
  <2>1. /\ RequestLine \in Seq(Token) /\ Len(RequestLine) = 5
        /\ RequestLine[1] = "method" /\ RequestLine[2] = "sp" /\ RequestLine[3] = "path"
        /\ RequestLine[4] = "sp" /\ RequestLine[5] = "version"
    BY DEF RequestLine, Token
  <2>2. end \in Seq(Token) /\ RequestLine \in Seq(Token)
    BY <1>0, <2>1
  <2>3. /\ line \in Seq(Token) /\ Len(line) = Len(RequestLine) + Len(end)
        /\ \A i \in 1 .. Len(RequestLine) : line[i] = RequestLine[i]
        /\ \A i \in 1 .. Len(end) : line[Len(RequestLine) + i] = end[i]
    BY <2>2, Appended
  <2>. HIDE DEF line
  <2>4. line[5 + 1] = end[1]
    BY <1>0, <2>1, <2>3
  <2>. QED BY <1>0, <2>1, <2>3, <2>4
<1>. HIDE DEF line
<1>3. line \in Lines
  <2>1. line # <<>> /\ DOMAIN line = 1 .. 6
    <3>1. line \in Seq(Token) /\ Len(line) = 6 /\ Len(line) # 0
      BY <1>2
    <3>2. DOMAIN line = 1 .. Len(line)
      BY <3>1
    <3>3. line # <<>>
      BY <3>1, NotEmpty, Zenon
    <3>. QED BY <3>1, <3>2, <3>3
  <2>2. ASSUME NEW i \in 1 .. 6, Begins(line, i) PROVE i = 1
    <3>1. i = 1 \/ (line[i - 1] = "eol" /\ line[i] # "sp")
      BY <2>2 DEF Begins
    <3>2. i \in {1, 2, 3, 4, 5, 6}
      OBVIOUS
    <3>. QED BY <1>2, <3>1, <3>2
  <2>3. \A i \in 1 .. 6 : Begins(line, i) => /\ line[i] \notin Blank \cup {"eol"}
                                             /\ i + 1 < Len(line) /\ line[i + 1] \in Blank
    BY <1>2, <2>2 DEF Blank
  <2>. QED BY <1>2, <2>1, <2>3 DEF Lines
<1>4. v \in Lines
  BY <1>1, <1>3, LinesClosed DEF Closed
<1>5. h \in Seq(Token) /\ line \in Seq(Token) /\ Len(h) \in Nat /\ Len(line) = 6 /\ Len(h) > 2
  BY <1>1, <1>2, LinesFacts DEF Token
<1>6. /\ Len(v) = Len(h) + 6 /\ v \in Seq(Token)
      /\ \A i \in 1 .. 6 : v[i] = line[i]
      /\ \A i \in 1 .. Len(h) : v[6 + i] = h[i]
  <2>1. line \in Seq(Token) /\ h \in Seq(Token)
    BY <1>5
  <2>2. /\ v \in Seq(Token) /\ Len(v) = Len(line) + Len(h)
        /\ \A i \in 1 .. Len(line) : v[i] = line[i]
        /\ \A i \in 1 .. Len(h) : v[Len(line) + i] = h[i]
    BY <2>1, Appended
  <2>. HIDE DEF v
  <2>. QED BY <1>5, <2>2
<1>7. \A i \in 1 .. 6 : line[i] = IF i = 6 THEN "eol" ELSE RequestLine[i]
  <2>1. ASSUME NEW i \in 1 .. 6 PROVE line[i] = IF i = 6 THEN "eol" ELSE RequestLine[i]
    <3>1. i \in {1, 2, 3, 4, 5, 6}
      OBVIOUS
    <3>. QED BY <1>2, <3>1 DEF RequestLine
  <2>. QED BY <2>1
<1>. HIDE DEF v
<1>8. /\ Len(t) = Len(h) + 7 /\ t \in Seq(Token) /\ t[Len(h) + 7] = "eol"
      /\ \A i \in 1 .. Len(h) + 6 : t[i] = v[i]
  <2>1. v \in Seq(Token) /\ end \in Seq(Token)
    BY <1>0, <1>6
  <2>2. /\ t \in Seq(Token) /\ Len(t) = Len(v) + Len(end)
        /\ \A i \in 1 .. Len(v) : t[i] = v[i]
        /\ \A i \in 1 .. Len(end) : t[Len(v) + i] = end[i]
    BY <2>1, Appended
  <2>. HIDE DEF t
  <2>3. t[Len(v) + 1] = end[1] /\ Len(v) + 1 = Len(h) + 7
    BY <1>0, <1>5, <1>6, <2>2
  <2>. QED BY <1>0, <1>5, <1>6, <2>2, <2>3
<1>9. t = Text(request)
  BY DEF t, v, line, end, h, Text
<1>. HIDE DEF t
<1>10. \A i \in 1 .. 6 : t[i] = IF i = 6 THEN "eol" ELSE RequestLine[i]
  BY <1>5, <1>6, <1>7, <1>8
<1>11. ASSUME NEW i \in 1 .. Len(h) PROVE t[6 + i] = h[i]
  <2>1. 6 + i \in 1 .. Len(h) + 6
    BY <1>5
  <2>. QED BY <1>6, <1>8, <2>1
<1>12. Lays(t, h)
  BY <1>1, <1>4, <1>5, <1>6, <1>8, <1>10, <1>11 DEF Lays
<1>. QED BY <1>1, <1>9, <1>12
-----------------------------------------------------------------------------
(* The answer comes last, and it is the one to the request when init is set. *)
AnsweredOnce == Answered => pc = "closed"
AsAsked == init /\ Answered => Proper

HttpInv ==
  /\ TypeOK
  /\ request \in [method : Method, path : Path, headers : Headers]
  /\ AnsweredOnce
  /\ AsAsked

LEMMA TextTyped ==
  ASSUME request \in [method : Method, path : Path, headers : Headers]
  PROVE  Text(request) \in Seq(Token)
<1>1. FlattenSeq(request.headers) \in Seq(Token)
  BY RequestsAssumption, FlattenTyped
<1>2. RequestLine \in Seq(Token) /\ <<"eol">> \in Seq(Token)
  BY DEF RequestLine, Token
<1>. QED BY <1>1, <1>2 DEF Text

LEMMA InitHttp == ASSUME Init PROVE HttpInv
<1>1. request \in [method : Method, path : Path, headers : Headers] /\ Len(Text(request)) \in Nat
  BY TextTyped DEF Init
<1>2. n \in Int
  BY GarbageAssumption DEF Init
<1>3. TypeOK
  <2>1. s \in Seq(Token) /\ body \in {None, NotFound} \cup DOMAIN Resource
    BY DEF Init
  <2>2. sent \in 0 .. Len(Text(request)) /\ first \in 0 .. sent
    BY <1>1 DEF Init
  <2>3. init \in BOOLEAN /\ pc = "read" /\ status = "none"
    BY DEF Init
  <2>. QED BY <1>2, <2>1, <2>2, <2>3 DEF TypeOK
<1>. QED BY <1>1, <1>3 DEF Init, HttpInv, AnsweredOnce, Answered, AsAsked

LEMMA ReadHttp == ASSUME HttpInv, Read PROVE HttpInv'
<1>. USE DEF HttpInv
<1>1. PICK last \in sent + 1 .. Len(Text(request)) :
          LET piece    == SubSeq(Text(request), sent + 1, last)
              consumed == IF init THEN 0 ELSE http_request_parse(piece)
              result   == params_new_parse(s')
          IN  /\ sent' = last
              /\ first' = IF sent = 0 THEN last ELSE first
              /\ IF consumed > 0 THEN s' \in Moved(piece, consumed) ELSE s' = s \o piece
              /\ init' = (init \/ consumed > 0)
              /\ pc' = CASE result = "null"  -> "read"
                         [] result = "never" -> "spin"
                         [] result = "list"  -> "respond"
              /\ n' = IF result = "null" THEN Len(s') - Len(s)
                      ELSE IF init THEN n ELSE consumed
  BY DEF Read
<1>. DEFINE piece == SubSeq(Text(request), sent + 1, last)
            consumed == IF init THEN 0 ELSE http_request_parse(piece)
            result == params_new_parse(s')
<1>2. pc = "read" /\ UNCHANGED <<request, status, body>> /\ ~ Answered
  BY DEF Read, AnsweredOnce
<1>3. Text(request) \in Seq(Token) /\ Len(Text(request)) \in Nat /\ Text(request)' = Text(request)
  BY <1>2, TextTyped
<1>4. sent \in Nat /\ last \in Nat /\ last <= Len(Text(request)) /\ sent + 1 <= last
  BY <1>3 DEF TypeOK
<1>5. piece \in Seq(Token)
  BY <1>3, <1>4
<1>6. consumed \in Nat
  BY <1>5, LineConsumed
<1>. HIDE DEF piece, consumed
<1>7. s' \in Seq(Token)
  <2>1. CASE s' \in Moved(piece, consumed)
    BY <1>5, <1>6, <2>1, MovedTyped
  <2>2. CASE s' = s \o piece
    BY <1>5, <2>2 DEF TypeOK
  <2>. QED BY <1>1, <2>1, <2>2 DEF piece, consumed
<1>8. pc' \in {"read", "spin", "respond"}
  <2>1. result \in {"null", "never", "list"}
    BY ParsedOne
  <2>. HIDE DEF result
  <2>2. pc' = CASE result = "null"  -> "read"
                [] result = "never" -> "spin"
                [] result = "list"  -> "respond"
    BY <1>1 DEF result
  <2>. QED BY <2>1, <2>2
<1>9. n' \in Int
  <2>1. n' = IF result = "null" THEN Len(s') - Len(s) ELSE IF init THEN n ELSE consumed
    BY <1>1 DEF consumed, piece
  <2>2. Len(s') \in Nat /\ Len(s) \in Nat /\ n \in Int
    BY <1>7 DEF TypeOK
  <2>. HIDE DEF result
  <2>. QED BY <1>6, <2>1, <2>2
<1>10. init' \in BOOLEAN
  <2>1. init' = (init \/ consumed > 0)
    BY <1>1 DEF consumed, piece
  <2>. QED BY <2>1 DEF TypeOK
<1>11. sent' \in 0 .. Len(Text(request)') /\ first' \in 0 .. sent'
  <2>1. sent' = last /\ first' = IF sent = 0 THEN last ELSE first
    BY <1>1
  <2>2. first \in 0 .. sent
    BY DEF TypeOK
  <2>. QED BY <1>3, <1>4, <2>1, <2>2
<1>12. TypeOK'
  BY <1>2, <1>3, <1>7, <1>8, <1>9, <1>10, <1>11 DEF TypeOK
<1>. QED BY <1>2, <1>12 DEF AnsweredOnce, Answered, AsAsked

LEMMA RespondHttp == ASSUME HttpInv, Respond PROVE HttpInv'
<1>. USE DEF HttpInv
<1>1. PICK req \in Asked :
          /\ status' = IF req.method \notin {"GET", "HEAD"} THEN "405"
                       ELSE IF Found(req.path) = NotFound THEN "404" ELSE "200"
          /\ body' = IF req.method = "GET" THEN Found(req.path) ELSE None
  BY DEF Respond
<1>2. pc' = "closed" /\ UNCHANGED <<request, sent, first, s, init, n>>
  BY DEF Respond
<1>3. TypeOK'
  <2>1. Found(req.path) \in {NotFound} \cup DOMAIN Resource
    BY FoundFirst
  <2>2. status' \in {"none", "200", "404", "405"} /\ body' \in {None, NotFound} \cup DOMAIN Resource
    BY <1>1, <2>1
  <2>3. Text(request)' = Text(request)
    BY <1>2
  <2>. QED BY <1>2, <2>2, <2>3 DEF TypeOK
<1>4. ASSUME init PROVE Proper'
  <2>1. req.method = request.method /\ req.path = request.path
    BY <1>4 DEF Asked
  <2>. DEFINE own == \E i \in DOMAIN Resource : IsPrefix(Resource[i], request.path)
              found == Found(request.path)
  <2>2. found \in Nat /\ (found > 0 <=> own) /\ (found = NotFound <=> ~ own)
    BY FoundFirst
  <2>3. /\ status' = IF request.method \notin {"GET", "HEAD"} THEN "405"
                     ELSE IF found = NotFound THEN "404" ELSE "200"
        /\ body' = IF request.method = "GET" THEN found ELSE None
    BY <1>1, <2>1
  <2>. HIDE DEF own, found
  <2>4. /\ status' = "405" <=> request.method \notin {"GET", "HEAD"}
        /\ status' = "200" <=> request.method \in {"GET", "HEAD"} /\ own
        /\ body' # None <=> request.method = "GET"
        /\ body' > 0 <=> request.method = "GET" /\ own
    BY <2>2, <2>3 DEF None, NotFound
  <2>. QED BY <1>2, <2>4 DEF Proper, own
<1>. QED BY <1>2, <1>3, <1>4 DEF AnsweredOnce, AsAsked

LEMMA NextHttp == ASSUME HttpInv, [Next]_vars PROVE HttpInv'
<1>. USE DEF HttpInv
<1>1. CASE ReadLost
  <2>1. PICK last \in sent + 1 .. Len(Text(request)) :
            /\ sent' = last
            /\ first' = IF sent = 0 THEN last ELSE first
    BY <1>1 DEF ReadLost
  <2>2. UNCHANGED <<request, s, init, n, pc, status, body>>
    BY <1>1 DEF ReadLost
  <2>3. Len(Text(request)) \in Nat /\ Text(request)' = Text(request)
    BY <2>2, TextTyped
  <2>4. sent' \in 0 .. Len(Text(request)') /\ first' \in 0 .. sent'
    <3>1. sent \in Nat /\ first \in 0 .. sent
      BY <2>3 DEF TypeOK
    <3>. QED BY <2>1, <2>3, <3>1
  <2>5. TypeOK'
    BY <2>2, <2>4 DEF TypeOK
  <2>. QED BY <2>2, <2>5 DEF AnsweredOnce, Answered, AsAsked, Proper
<1>2. CASE ReadFails \/ ReadEnds \/ UNCHANGED vars
  <2>1. /\ UNCHANGED <<request, sent, first, s, init, status, body>> /\ n' \in Int
        /\ pc' \in {pc, "closed"}
    BY <1>2 DEF ReadFails, ReadEnds, vars, TypeOK
  <2>2. Text(request)' = Text(request)
    BY <2>1
  <2>3. TypeOK'
    BY <2>1, <2>2 DEF TypeOK
  <2>. QED BY <2>1, <2>3 DEF AnsweredOnce, Answered, AsAsked, Proper
<1>. QED BY <1>1, <1>2, ReadHttp, RespondHttp DEF Next

LEMMA HttpInvariant == Spec => []HttpInv
<1>1. Init => HttpInv
  BY InitHttp
<1>2. HttpInv /\ [Next]_vars => HttpInv'
  BY NextHttp
<1>. QED BY <1>1, <1>2, PTL DEF Spec

(* http_response (http-response.c:127): the offsets stay in the request, the buffer
   holds nothing but its tokens, and respond writes a body only of a resource that
   there is. *)
THEOREM HttpTypes == Spec => []TypeOK
<1>1. HttpInv => TypeOK
  BY DEF HttpInv
<1>. QED BY <1>1, HttpInvariant, PTL
-----------------------------------------------------------------------------
(***************************************************************************)
(* WellCutServed, inductively.  A well-cut first piece sets init; after it *)
(* the buffer is what was sent of the request, until the piece with the    *)
(* empty line makes a list of it, or the first piece was the whole request *)
(* and makes a list at once.                                               *)
(***************************************************************************)
WellCut ==
  /\ n # -1
  /\ request.headers \in Seq(Lines) \ {<<>>}
  /\ first \in {Len(RequestLine), Len(RequestLine) + 1, Len(Text(request))}

Kept == s = SubSeq(Text(request), 1, sent) /\ first # Len(Text(request)) /\ ~ Whole

CutInv ==
  /\ HttpInv
  /\ first = 0 <=> sent = 0
  /\ init => sent # 0
  /\ WellCut => /\ init
                /\ pc # "spin"
                /\ pc = "read" => Kept
                /\ pc = "respond" \/ Answered => Whole

(* The first piece of a well-cut request. *)
LEMMA FirstParsed ==
  ASSUME NEW t, NEW h, Lays(t, h), NEW last \in 1 .. Len(t), last \in {5, 6, Len(t)}
  PROVE  http_request_parse(SubSeq(t, 1, last)) = IF last = 5 THEN 5 ELSE 6
<1>. DEFINE piece == SubSeq(t, 1, last)
            consumed == http_request_parse(piece)
            L == Len(h)
<1>1. /\ h \in Lines /\ t \in Seq(Token) /\ Len(t) = L + 7 /\ L \in Nat /\ L > 2 /\ t[6] = "eol" /\ t[Len(t)] = "eol"
      /\ \A i \in 1 .. 5 : t[i] = RequestLine[i]
      /\ \A i \in 1 .. L : t[6 + i] = h[i]
      /\ h[1] \notin Blank \cup {"eol"}
  BY LinesFacts DEF Lays
<1>2. piece \in Seq(Token) /\ Len(piece) = last /\ \A i \in 1 .. last : piece[i] = t[i]
  <2>1. last \in Nat /\ 1 <= last + 1 /\ last <= Len(t)
    BY <1>1
  <2>2. /\ SubSeq(t, 1, last) \in Seq(Token) /\ Len(SubSeq(t, 1, last)) = last - 1 + 1
        /\ \A i \in 1 .. last - 1 + 1 : SubSeq(t, 1, last)[i] = t[1 + i - 1]
    BY <1>1, <2>1, Piece
  <2>. QED BY <2>1, <2>2
<1>. HIDE DEF piece
<1>3. last >= 5 /\ \A i \in 1 .. 5 : piece[i] = RequestLine[i]
  BY <1>1, <1>2
<1>4. consumed = IF last = 5 THEN 5 ELSE 6
  <2>1. Len(piece) > 5 => piece[6] = "eol"
    BY <1>1, <1>2
  <2>2. Len(piece) > 6 => piece[7] # "eol"
    <3>1. t[6 + 1] = h[1] /\ h[1] # "eol"
      BY <1>1
    <3>. QED BY <1>1, <1>2, <3>1
  <2>3. Len(piece) >= 5
    BY <1>2, <1>3
  <2>4. Len(piece) = 5 => consumed = 5
    BY <1>2, <1>3, <2>3, LineParsed
  <2>5. Len(piece) > 5 => consumed = 6
    BY <1>2, <1>3, <2>1, <2>2, <2>3, LineParsed
  <2>. HIDE DEF consumed
  <2>. QED BY <1>1, <1>2, <2>4, <2>5
<1>. QED BY <1>4 DEF consumed, piece

(* The buffer after the first piece of a well-cut request. *)
LEMMA FirstPiece ==
  ASSUME NEW t, NEW h, Lays(t, h), NEW last \in 1 .. Len(t), last \in {5, 6, Len(t)},
         NEW x, x \in Moved(SubSeq(t, 1, last), http_request_parse(SubSeq(t, 1, last)))
  PROVE  /\ last # Len(t) => x = SubSeq(t, 1, last) /\ params_new_parse(x) = "null"
         /\ last = Len(t) => params_new_parse(x) = "list"
<1>. DEFINE piece == SubSeq(t, 1, last)
            consumed == http_request_parse(piece)
            L == Len(h)
<1>1. /\ h \in Lines /\ t \in Seq(Token) /\ Len(t) = L + 7 /\ L \in Nat /\ L > 2 /\ t[6] = "eol" /\ t[Len(t)] = "eol"
      /\ \A i \in 1 .. 5 : t[i] = RequestLine[i]
      /\ \A i \in 1 .. L : t[6 + i] = h[i]
      /\ h[1] \notin Blank \cup {"eol"}
  BY LinesFacts DEF Lays
<1>2. PICK v \in Lines : Len(v) = L + 6 /\ \A i \in 1 .. Len(v) : t[i] = v[i]
  BY DEF Lays
<1>3. piece \in Seq(Token) /\ Len(piece) = last /\ \A i \in 1 .. last : piece[i] = t[i]
  <2>1. last \in Nat /\ 1 <= last + 1 /\ last <= Len(t)
    BY <1>1
  <2>2. /\ SubSeq(t, 1, last) \in Seq(Token) /\ Len(SubSeq(t, 1, last)) = last - 1 + 1
        /\ \A i \in 1 .. last - 1 + 1 : SubSeq(t, 1, last)[i] = t[1 + i - 1]
    BY <1>1, <2>1, Piece
  <2>. QED BY <2>1, <2>2
<1>. HIDE DEF piece
<1>4. consumed = IF last = 5 THEN 5 ELSE 6
  BY FirstParsed DEF piece
<1>. HIDE DEF consumed
<1>5. x \in Moved(piece, consumed)
  BY DEF piece, consumed
<1>6. CASE last # Len(t)
  <2>1. x = piece
    BY <1>3, <1>4, <1>5, <1>6 DEF Moved
  <2>2. Len(piece) <= Len(v) /\ \A i \in 1 .. Len(piece) : piece[i] = v[i]
    BY <1>1, <1>2, <1>3, <1>6
  <2>3. params_new_parse(piece) = "null"
    BY <1>2, <1>3, <2>2, PartNull
  <2>. QED BY <1>4, <1>6, <2>1, <2>3 DEF piece, consumed
<1>7. CASE last = Len(t)
  <2>1. consumed = 6 /\ Len(piece) = L + 7
    BY <1>1, <1>3, <1>4, <1>7
  <2>2. PICK k \in DOMAIN piece : x = SubSeq(piece, consumed + 1, Len(piece)) \o SubSeq(piece, k, Len(piece))
    <3>1. consumed # Len(piece)
      BY <1>1, <2>1
    <3>2. x \in {SubSeq(piece, consumed + 1, Len(piece)) \o SubSeq(piece, k, Len(piece)) :
                     k \in {i \in DOMAIN piece :
                               \E j \in i .. Len(piece) : piece[j] \notin Blank \cup {"eol"}}}
      BY <1>5, <3>1, Zenon DEF Moved
    <3>. QED BY <3>2
  <2>. DEFINE a == SubSeq(piece, 7, L + 7)
              b == SubSeq(piece, k, L + 7)
  <2>3. x = a \o b
    BY <2>1, <2>2
  <2>4. a \in Seq(Token) /\ Len(a) = L + 1 /\ \A i \in 1 .. L + 1 : a[i] = piece[6 + i]
    <3>1. 7 \in Nat \ {0} /\ L + 7 \in Nat /\ 7 <= (L + 7) + 1 /\ L + 7 <= Len(piece)
      BY <1>1, <2>1
    <3>2. /\ a \in Seq(Token) /\ Len(a) = (L + 7) - 7 + 1
          /\ \A i \in 1 .. (L + 7) - 7 + 1 : a[i] = piece[7 + i - 1]
      BY <1>3, <3>1, Piece
    <3>. HIDE DEF a
    <3>. QED BY <1>1, <3>2
  <2>5. b \in Seq(Token) /\ Len(b) \in Nat
    <3>1. k \in Nat \ {0} /\ L + 7 \in Nat /\ k <= (L + 7) + 1 /\ L + 7 <= Len(piece)
      BY <1>1, <1>3, <2>1, <2>2
    <3>2. b \in Seq(Token)
      BY <1>3, <3>1, Piece
    <3>. QED BY <3>2
  <2>. HIDE DEF a, b
  <2>6. x \in Seq(Token) /\ Len(x) = Len(a) + Len(b) /\ \A i \in 1 .. Len(a) : x[i] = a[i]
    <3>1. a \in Seq(Token) /\ b \in Seq(Token)
      BY <2>4, <2>5
    <3>. QED BY <2>3, <3>1, Appended
  <2>7. Len(x) > L /\ x[L + 1] = "eol"
    <3>1. x[L + 1] = a[L + 1] /\ a[L + 1] = piece[6 + (L + 1)]
      BY <1>1, <2>4, <2>6
    <3>2. piece[6 + (L + 1)] = t[6 + (L + 1)] /\ 6 + (L + 1) = Len(t)
      BY <1>1, <1>3, <1>7
    <3>. QED BY <1>1, <2>4, <2>5, <2>6, <3>1, <3>2
  <2>8. ASSUME NEW i \in 1 .. L PROVE x[i] = h[i]
    <3>1. x[i] = a[i] /\ a[i] = piece[6 + i]
      BY <1>1, <2>4, <2>6
    <3>2. piece[6 + i] = t[6 + i] /\ t[6 + i] = h[i]
      BY <1>1, <1>3, <1>7
    <3>. QED BY <3>1, <3>2
  <2>9. params_new_parse(x) = "list"
    BY <1>1, <2>6, <2>7, <2>8, WholeList
  <2>. QED BY <1>4, <1>7, <2>9 DEF piece, consumed
<1>. QED BY <1>6, <1>7

(* The buffer after any later piece, when it is all that was sent. *)
LEMMA LaterPiece ==
  ASSUME NEW t, NEW h, Lays(t, h), NEW m \in Nat, NEW last \in m + 1 .. Len(t)
  PROVE  LET x == SubSeq(t, 1, m) \o SubSeq(t, m + 1, last)
         IN  /\ x = SubSeq(t, 1, last)
             /\ params_new_parse(x) = IF last = Len(t) THEN "list" ELSE "null"
<1>1. t \in Seq(Token) /\ Len(t) = Len(h) + 7 /\ Len(h) \in Nat /\ t[Len(t)] = "eol"
  BY LinesFacts DEF Lays
<1>2. PICK v \in Lines : Len(v) = Len(h) + 6 /\ \A i \in 1 .. Len(v) : t[i] = v[i]
  BY DEF Lays
<1>. DEFINE a == SubSeq(t, 1, m)
            b == SubSeq(t, m + 1, last)
            c == SubSeq(t, 1, last)
            x == a \o b
<1>3. last \in Nat /\ last <= Len(t) /\ m + 1 <= last /\ m + 1 \in Nat \ {0} /\ m <= Len(t)
  BY <1>1
<1>4. a \in Seq(Token) /\ Len(a) = m /\ \A i \in 1 .. m : a[i] = t[i]
  <2>1. a \in Seq(Token) /\ Len(a) = m - 1 + 1 /\ \A i \in 1 .. m - 1 + 1 : a[i] = t[1 + i - 1]
    BY <1>1, <1>3, Piece
  <2>. HIDE DEF a
  <2>. QED BY <2>1
<1>5. b \in Seq(Token) /\ Len(b) = last - m /\ \A i \in 1 .. last - m : b[i] = t[m + i]
  <2>1. /\ b \in Seq(Token) /\ Len(b) = last - (m + 1) + 1
        /\ \A i \in 1 .. last - (m + 1) + 1 : b[i] = t[(m + 1) + i - 1]
    BY <1>1, <1>3, Piece
  <2>. HIDE DEF b
  <2>. QED BY <1>3, <2>1
<1>6. c \in Seq(Token) /\ Len(c) = last /\ \A i \in 1 .. last : c[i] = t[i]
  <2>1. c \in Seq(Token) /\ Len(c) = last - 1 + 1 /\ \A i \in 1 .. last - 1 + 1 : c[i] = t[1 + i - 1]
    BY <1>1, <1>3, Piece
  <2>. HIDE DEF c
  <2>. QED BY <1>3, <2>1
<1>. HIDE DEF a, b, c
<1>7. /\ x \in Seq(Token) /\ Len(x) = Len(a) + Len(b)
      /\ \A i \in 1 .. Len(a) : x[i] = a[i]
      /\ \A i \in 1 .. Len(b) : x[Len(a) + i] = b[i]
  <2>1. a \in Seq(Token) /\ b \in Seq(Token)
    BY <1>4, <1>5
  <2>. QED BY <2>1, Appended
<1>. HIDE DEF x
<1>8. Len(x) = last
  BY <1>3, <1>4, <1>5, <1>7
<1>9. ASSUME NEW i \in 1 .. last PROVE x[i] = t[i]
  <2>1. CASE i <= m
    BY <1>4, <1>7, <2>1
  <2>2. CASE ~ (i <= m)
    <3>. DEFINE j == i - m
    <3>1. j \in 1 .. last - m /\ i = m + j
      BY <1>3, <2>2
    <3>. HIDE DEF j
    <3>2. x[m + j] = b[j] /\ b[j] = t[m + j]
      BY <1>4, <1>5, <1>7, <3>1
    <3>. QED BY <3>1, <3>2
  <2>. QED BY <2>1, <2>2
<1>10. x = c
  BY <1>6, <1>7, <1>8, <1>9, SeqEqual
<1>11. params_new_parse(x) = IF last = Len(t) THEN "list" ELSE "null"
  <2>1. CASE last = Len(t)
    <3>1. Len(x) > Len(v) /\ Len(v) + 1 = last
      BY <1>1, <1>2, <1>8, <2>1
    <3>2. x[Len(v) + 1] = "eol"
      BY <1>1, <1>3, <1>9, <2>1, <3>1
    <3>3. \A i \in 1 .. Len(v) : x[i] = v[i]
      BY <1>1, <1>2, <1>9, <3>1
    <3>4. params_new_parse(x) = "list"
      BY <1>2, <1>7, <3>1, <3>2, <3>3, WholeList
    <3>. QED BY <2>1, <3>4
  <2>2. CASE last # Len(t)
    <3>1. Len(x) <= Len(v)
      BY <1>1, <1>2, <1>3, <1>8, <2>2
    <3>2. \A i \in 1 .. Len(x) : x[i] = v[i]
      BY <1>1, <1>2, <1>3, <1>8, <1>9, <3>1
    <3>3. params_new_parse(x) = "null"
      BY <1>2, <1>7, <3>1, <3>2, PartNull
    <3>. QED BY <2>2, <3>3
  <2>. QED BY <2>1, <2>2
<1>. QED BY <1>10, <1>11 DEF a, b, c, x

LEMMA InitCut == ASSUME Init PROVE CutInv
<1>1. HttpInv
  BY InitHttp
<1>2. request \in [method : Method, path : Path, headers : Headers]
  BY DEF Init
<1>3. ASSUME WellCut PROVE FALSE
  <2>1. first = 0 /\ Len(RequestLine) = 5 /\ request.headers \in Seq(Lines) \ {<<>>}
    BY <1>3 DEF Init, WellCut, RequestLine
  <2>2. PICK h \in Lines : Lays(Text(request), h)
    BY <1>2, <2>1, TextLays
  <2>3. Len(Text(request)) > 5
    BY <2>2, LinesFacts DEF Lays
  <2>. QED BY <1>3, <2>1, <2>3 DEF WellCut
<1>. QED BY <1>1, <1>3 DEF Init, CutInv

LEMMA ReadCut == ASSUME CutInv, Read PROVE CutInv'
<1>1. HttpInv /\ HttpInv'
  BY NextHttp DEF CutInv, Next
<1>2. PICK last \in sent + 1 .. Len(Text(request)) :
          LET piece    == SubSeq(Text(request), sent + 1, last)
              consumed == IF init THEN 0 ELSE http_request_parse(piece)
              result   == params_new_parse(s')
          IN  /\ sent' = last
              /\ first' = IF sent = 0 THEN last ELSE first
              /\ IF consumed > 0 THEN s' \in Moved(piece, consumed) ELSE s' = s \o piece
              /\ init' = (init \/ consumed > 0)
              /\ pc' = CASE result = "null"  -> "read"
                         [] result = "never" -> "spin"
                         [] result = "list"  -> "respond"
              /\ n' = IF result = "null" THEN Len(s') - Len(s)
                      ELSE IF init THEN n ELSE consumed
  BY DEF Read
<1>. DEFINE t == Text(request)
            piece == SubSeq(t, sent + 1, last)
            consumed == IF init THEN 0 ELSE http_request_parse(piece)
            result == params_new_parse(s')
<1>3. pc = "read" /\ n # -1 /\ UNCHANGED <<request, status, body>> /\ ~ Answered /\ ~ Answered'
  BY <1>1 DEF Read, HttpInv, AnsweredOnce, Answered
<1>4. t' = t /\ t \in Seq(Token) /\ Len(t) \in Nat
  BY <1>1, <1>3, TextTyped DEF HttpInv
<1>5. /\ sent \in Nat /\ last \in Nat /\ last <= Len(t) /\ sent + 1 <= last /\ last # 0
      /\ sent' = last /\ first' = IF sent = 0 THEN last ELSE first
      /\ first = 0 <=> sent = 0
  BY <1>1, <1>2, <1>4 DEF HttpInv, TypeOK, CutInv
<1>6. /\ IF consumed > 0 THEN s' \in Moved(piece, consumed) ELSE s' = s \o piece
      /\ init' = (init \/ consumed > 0)
      /\ pc' = CASE result = "null"  -> "read"
                 [] result = "never" -> "spin"
                 [] result = "list"  -> "respond"
  BY <1>2
<1>7. (first' = 0 <=> sent' = 0) /\ (init' => sent' # 0)
  BY <1>5
<1>. DEFINE Served(x) == /\ init'
                         /\ pc' = IF last = Len(t) THEN "respond" ELSE "read"
                         /\ last # Len(t) => x = SubSeq(t, 1, last) /\ first' # Len(t)
<1>8. ASSUME WellCut' PROVE Served(s')
  <2>1. request \in [method : Method, path : Path, headers : Headers] /\ request.headers \in Seq(Lines) \ {<<>>}
    BY <1>1, <1>3, <1>8 DEF HttpInv, WellCut
  <2>2. PICK h \in Lines : Lays(t, h)
    BY <2>1, TextLays
  <2>3. Len(RequestLine) = 5
    BY DEF RequestLine
  <2>4. first' \in {5, 6, Len(t)}
    BY <1>4, <1>8, <2>3 DEF WellCut
  <2>5. CASE sent = 0
    <3>1. last \in 1 .. Len(t) /\ last \in {5, 6, Len(t)} /\ first' = last
      BY <1>5, <2>4, <2>5
    <3>2. ~ init /\ piece = SubSeq(t, 1, last)
      BY <2>5 DEF CutInv
    <3>. HIDE DEF t
    <3>3. http_request_parse(SubSeq(t, 1, last)) > 0
      BY <2>2, <3>1, FirstParsed
    <3>4. s' \in Moved(SubSeq(t, 1, last), http_request_parse(SubSeq(t, 1, last))) /\ init'
      BY <1>6, <3>2, <3>3
    <3>5. /\ last # Len(t) => s' = SubSeq(t, 1, last) /\ result = "null"
          /\ last = Len(t) => result = "list"
      BY <2>2, <3>1, <3>4, FirstPiece
    <3>. HIDE DEF result
    <3>6. pc' = IF last = Len(t) THEN "respond" ELSE "read"
      BY <1>6, <3>5
    <3>. QED BY <3>1, <3>4, <3>5, <3>6
  <2>6. CASE sent # 0
    <3>1. first' = first
      BY <1>5, <2>6
    <3>2. WellCut
      BY <1>3, <1>4, <1>8, <3>1 DEF WellCut
    <3>3. init /\ s = SubSeq(t, 1, sent) /\ first # Len(t)
      BY <1>3, <3>2 DEF CutInv, Kept
    <3>4. s' = SubSeq(t, 1, sent) \o SubSeq(t, sent + 1, last) /\ init'
      <4>1. consumed = 0
        BY <3>3
      <4>. HIDE DEF consumed
      <4>2. ~ (consumed > 0)
        BY <4>1
      <4>3. s' = s \o piece /\ init'
        BY <1>6, <3>3, <4>2
      <4>. QED BY <3>3, <4>3
    <3>. HIDE DEF t
    <3>5. s' = SubSeq(t, 1, last) /\ result = IF last = Len(t) THEN "list" ELSE "null"
      BY <1>5, <2>2, <3>4, LaterPiece
    <3>. HIDE DEF result
    <3>6. pc' = IF last = Len(t) THEN "respond" ELSE "read"
      BY <1>6, <3>5
    <3>. QED BY <3>1, <3>3, <3>4, <3>5, <3>6
  <2>. QED BY <2>5, <2>6
<1>9. ASSUME WellCut' PROVE init' /\ pc' # "spin" /\ (pc' = "read" => Kept') /\ (pc' = "respond" => Whole')
  <2>. HIDE DEF t
  <2>1. Served(s')
    BY <1>8, <1>9
  <2>2. Kept' <=> s' = SubSeq(t, 1, last) /\ first' # Len(t) /\ last # Len(t)
    BY <1>4, <1>5 DEF Kept, Whole, t
  <2>3. Whole' <=> last = Len(t)
    BY <1>4, <1>5 DEF Whole, t
  <2>. QED BY <2>1, <2>2, <2>3
<1>. QED BY <1>1, <1>3, <1>7, <1>9 DEF CutInv

LEMMA NextCut == ASSUME CutInv, [Next]_vars PROVE CutInv'
<1>1. HttpInv /\ HttpInv'
  BY NextHttp DEF CutInv
<1>2. CASE ReadLost
  <2>1. PICK last \in sent + 1 .. Len(Text(request)) :
            sent' = last /\ first' = IF sent = 0 THEN last ELSE first
    BY <1>2 DEF ReadLost
  <2>2. n' = -1 /\ init' = init
    BY <1>2 DEF ReadLost
  <2>3. sent \in Nat /\ last \in Nat /\ last # 0
    BY <1>1, <2>1, TextTyped DEF HttpInv, TypeOK
  <2>. QED BY <1>1, <2>1, <2>2, <2>3 DEF CutInv, WellCut
<1>3. ASSUME ReadFails \/ ReadEnds \/ Respond \/ UNCHANGED vars PROVE CutInv'
  <2>1. UNCHANGED <<request, sent, first, s, init>> /\ (WellCut' => WellCut)
    BY <1>3 DEF ReadFails, ReadEnds, Respond, vars, WellCut
  <2>2. \/ UNCHANGED <<pc, status>>
        \/ pc' = "closed" /\ (Answered' => pc = "respond" \/ Answered)
    BY <1>3 DEF ReadFails, ReadEnds, Respond, vars, Answered
  <2>3. Kept' <=> Kept
    BY <2>1 DEF Kept, Whole
  <2>4. Whole' <=> Whole
    BY <2>1 DEF Whole
  <2>5. Answered' => Answered \/ pc = "respond"
    BY <2>2 DEF Answered
  <2>. QED BY <1>1, <2>1, <2>2, <2>3, <2>4, <2>5 DEF CutInv
<1>. QED BY <1>2, <1>3, ReadCut DEF Next

(* http_response (http-response.c:127): a request with headers whose first piece is its
   line, its line and one line end, or all of it, is answered when the last piece has
   come, and not before, and as it asks: wherever the later pieces are cut, and
   whatever the headers are, as long as they are such as HTTP has. *)
THEOREM WellCutAlwaysServed == Spec => []WellCutServed
<1>1. CutInv => WellCutServed
  <2>. SUFFICES ASSUME CutInv, WellCut PROVE NotLost /\ (pc = "respond" \/ Answered => Whole)
    BY DEF WellCutServed, WellCut
  <2>. QED BY DEF CutInv, HttpInv, AsAsked, NotLost, Kept
<1>2. Init => CutInv
  BY InitCut
<1>3. CutInv /\ [Next]_vars => CutInv'
  BY NextCut
<1>. QED BY <1>1, <1>2, <1>3, PTL DEF Spec
=============================================================================
