---------------------------- MODULE ParamsProofs ----------------------------
(***************************************************************************)
(* Proofs about Params, for any heap, names, values and queries: whatever  *)
(* calls come in whatever order, the two lists stay sound.                 *)
(***************************************************************************)
EXTENDS Params, FiniteSetTheorems, SequenceTheorems, WellFoundedInduction, TLAPS

(* A set of naturals that is not empty has a least element: induction, for a
   property that is the set of its counterexamples. *)
LEMMA LeastNatural ==
  ASSUME NEW S, S \subseteq Nat, S # {}
  PROVE  \E x \in S : \A y \in S : x <= y
<1>. DEFINE Less == OpToRel(<, Nat)
<1>1. IsWellFoundedOn(Less, Nat)
  BY NatLessThanWellFounded
<1>. HIDE DEF Less
<1>2. PICK x \in S : \A y \in S : ~ (<<y, x>> \in Less)
  BY <1>1, WFMin
<1>3. ASSUME NEW y \in S PROVE x <= y
  <2>1. ~ (<<y, x>> \in Less) /\ x \in Nat /\ y \in Nat
    BY <1>2
  <2>2. ~ (y < x)
    BY <2>1 DEF Less, OpToRel
  <2>. QED BY <2>1, <2>2
<1>. QED BY <1>2, <1>3

LEMMA MinLeast ==
  ASSUME NEW S, S \subseteq Nat, S # {} PROVE Min(S) \in S /\ \A y \in S : Min(S) <= y
BY LeastNatural DEF Min

LEMMA MaxGreatest ==
  ASSUME NEW k \in Nat, NEW S, S \subseteq 0 .. k, S # {}
  PROVE  Max(S) \in S /\ \A y \in S : y <= Max(S)
<1>. DEFINE Above == {x \in 0 .. k : k - x \in S}
<1>1. Above # {} /\ Above \subseteq Nat
  <2>1. PICK y \in S : TRUE
    OBVIOUS
  <2>2. y \in 0 .. k /\ k - y \in 0 .. k /\ k - (k - y) = y
    BY <2>1
  <2>3. k - y \in Above
    BY <2>1, <2>2
  <2>4. Above \subseteq Nat
    OBVIOUS
  <2>. QED BY <2>3, <2>4
<1>2. PICK x \in Above : \A y \in Above : x <= y
  BY <1>1, LeastNatural
<1>3. ASSUME NEW y \in S PROVE y <= k - x
  <2>1. y \in 0 .. k /\ k - y \in 0 .. k /\ k - (k - y) = y
    OBVIOUS
  <2>2. x <= k - y
    BY <1>2, <2>1
  <2>3. x \in 0 .. k
    OBVIOUS
  <2>. QED BY <2>1, <2>2, <2>3
<1>4. k - x \in S /\ \A y \in S : y <= k - x
  BY <1>3
<1>5. \E z \in S : \A y \in S : y <= z
  BY <1>4
<1>. QED BY <1>5 DEF Max
-----------------------------------------------------------------------------
(* The nodes of a heap, and the list of the nodes w on it. *)
Link == Node \cup {NULL}
Heap(m) ==
  /\ m = [live |-> m.live, node |-> m.node]
  /\ m.live \subseteq Node
  /\ m.node = [x \in Node |-> m.node[x]]
  /\ \A x \in Node : m.node[x] = [prev |-> m.node[x].prev, next |-> m.node[x].next, data |-> m.node[x].data]

Chain(m, list, w) ==
  /\ w \in Seq(Node)
  /\ \A i, j \in 1 .. Len(w) : w[i] = w[j] => i = j
  /\ list = IF w = <<>> THEN NULL ELSE w[1]
  /\ \A i \in 1 .. Len(w) : /\ w[i] \in m.live
                            /\ m.node[w[i]].prev = IF i = 1 THEN NULL ELSE w[i - 1]
                            /\ m.node[w[i]].next = IF i = Len(w) THEN NULL ELSE w[i + 1]

(* Two lists that share no node and have all that malloc has handed out. *)
Apart(m, list, other, w, v) ==
  /\ Heap(m)
  /\ Chain(m, list, w)
  /\ Chain(m, other, v)
  /\ \A i \in 1 .. Len(w), j \in 1 .. Len(v) : w[i] # v[j]
  /\ \A x \in m.live : (\E i \in 1 .. Len(w) : w[i] = x) \/ (\E j \in 1 .. Len(v) : v[j] = x)
Sound(m, list, other) == \E w, v \in Seq(Node) : Apart(m, list, other, w, v)

LEMMA SoundSwaps == ASSUME NEW m, NEW a, NEW b, Sound(m, a, b) PROVE Sound(m, b, a)
BY DEF Sound, Apart

(* A list without a node twice is no longer than there are nodes. *)
LEMMA ChainFits ==
  ASSUME NEW w \in Seq(Node), \A i, j \in 1 .. Len(w) : w[i] = w[j] => i = j
  PROVE  Len(w) \in Nat /\ Cardinality(Node) \in Nat /\ Len(w) <= Cardinality(Node)
<1>1. Len(w) \in Nat /\ w \in [1 .. Len(w) -> Node]
  BY LenProperties
<1>2. IsFiniteSet(1 .. Len(w)) /\ Cardinality(1 .. Len(w)) = Len(w)
  BY <1>1, FS_Interval
<1>3. IsFiniteSet(Node) /\ Cardinality(Node) \in Nat
  BY NodeAssumption, FS_CardinalityType
<1>4. w \in Injection(1 .. Len(w), Node)
  BY <1>1 DEF Injection, IsInjective
<1>5. Cardinality(1 .. Len(w)) <= Cardinality(Node)
  BY <1>2, <1>3, <1>4, FS_Injection
<1>. QED BY <1>1, <1>2, <1>3, <1>5

(* Walk finds the nodes of a list. *)
LEMMA WalkFinds == ASSUME NEW m, NEW list, NEW w, Chain(m, list, w) PROVE Walk(m, list) = w
<1>. DEFINE L == Len(w)
            C == Cardinality(Node)
            Along(f) == f = [i \in 0 .. C |-> IF i = 0 THEN list
                                              ELSE IF f[i - 1] = NULL THEN NULL ELSE m.node[f[i - 1]].next]
            at == CHOOSE f : Along(f)
            way == [i \in 0 .. C |-> IF i < L THEN w[i + 1] ELSE NULL]
<1>1. /\ w \in Seq(Node) /\ L \in Nat /\ C \in Nat /\ L <= C
      /\ list = IF w = <<>> THEN NULL ELSE w[1]
      /\ \A i \in 1 .. L : /\ w[i] \in Node /\ w[i] # NULL
                           /\ m.node[w[i]].next = IF i = L THEN NULL ELSE w[i + 1]
  BY ChainFits, NodeAssumption DEF Chain
<1>2. L = 0 <=> w = <<>>
  BY <1>1, EmptySeq
<1>. HIDE DEF L, C
<1>3. Along(way)
  <2>. DEFINE step(i) == IF i = 0 THEN list
                         ELSE IF way[i - 1] = NULL THEN NULL ELSE m.node[way[i - 1]].next
  <2>1. ASSUME NEW i \in 0 .. C PROVE (IF i < L THEN w[i + 1] ELSE NULL) = step(i)
    <3>1. CASE i = 0
      BY <1>1, <1>2, <3>1
    <3>2. CASE i # 0
      <4>1. i - 1 \in 0 .. C /\ (i - 1) + 1 = i
        BY <1>1, <3>2
      <4>2. way[i - 1] = IF i - 1 < L THEN w[i] ELSE NULL
        BY <4>1
      <4>3. CASE i - 1 < L
        <5>1. i \in 1 .. L
          BY <1>1, <3>2, <4>3
        <5>. QED BY <1>1, <3>2, <4>2, <4>3, <5>1
      <4>4. CASE ~ (i - 1 < L)
        <5>1. ~ (i < L)
          BY <1>1, <4>4
        <5>. QED BY <3>2, <4>2, <4>4, <5>1
      <4>. QED BY <4>3, <4>4
    <3>. QED BY <3>1, <3>2
  <2>. QED BY <2>1
<1>4. Along(at)
  BY <1>3
<1>. HIDE DEF at
<1>. DEFINE Bad == {i \in 0 .. C : at[i] # way[i]}
<1>5. ASSUME Bad # {} PROVE FALSE
  <2>1. PICK k \in Bad : \A i \in Bad : k <= i
    <3>1. Bad \subseteq Nat
      BY <1>1
    <3>. QED BY <1>5, <3>1, LeastNatural
  <2>2. k \in 0 .. C /\ at[k] # way[k]
    BY <2>1
  <2>. HIDE DEF way
  <2>3. /\ at[k] = IF k = 0 THEN list ELSE IF at[k - 1] = NULL THEN NULL ELSE m.node[at[k - 1]].next
        /\ way[k] = IF k = 0 THEN list ELSE IF way[k - 1] = NULL THEN NULL ELSE m.node[way[k - 1]].next
    BY <1>3, <1>4, <2>2
  <2>4. k # 0 /\ k - 1 \in 0 .. C /\ ~ (k <= k - 1)
    BY <1>1, <2>2, <2>3
  <2>5. at[k - 1] = way[k - 1]
    BY <2>1, <2>4
  <2>. QED BY <2>2, <2>3, <2>4, <2>5
<1>6. \A i \in 0 .. C : at[i] = IF i < L THEN w[i + 1] ELSE NULL
  BY <1>5
<1>7. DOMAIN at = 0 .. C
  BY <1>4
<1>8. {i \in DOMAIN at : at[i] # NULL} = 0 .. L - 1
  <2>1. ASSUME NEW i \in 0 .. C PROVE at[i] # NULL <=> i \in 0 .. L - 1
    <3>1. i < L => i + 1 \in 1 .. L
      BY <1>1
    <3>. QED BY <1>1, <1>6, <3>1
  <2>. QED BY <1>1, <1>7, <2>1
<1>9. Cardinality({i \in DOMAIN at : at[i] # NULL}) = L
  <2>1. 0 \in Int /\ L - 1 \in Int
    BY <1>1
  <2>2. Cardinality(0 .. L - 1) = IF 0 > L - 1 THEN 0 ELSE L - 1 - 0 + 1
    BY <2>1, FS_Interval
  <2>3. Cardinality(0 .. L - 1) = L
    BY <1>1, <2>2
  <2>. QED BY <1>8, <2>3
<1>10. Walk(m, list) = [i \in 1 .. L |-> at[i - 1]]
  BY <1>9 DEF Walk, at, C
<1>11. [i \in 1 .. L |-> at[i - 1]] = [i \in 1 .. L |-> w[i]]
  <2>1. ASSUME NEW i \in 1 .. L PROVE at[i - 1] = w[i]
    <3>1. i - 1 \in 0 .. C /\ i - 1 < L /\ (i - 1) + 1 = i
      BY <1>1
    <3>. QED BY <1>6, <3>1
  <2>. QED BY <2>1
<1>12. w = [i \in 1 .. L |-> w[i]]
  BY <1>1 DEF L
<1>. QED BY <1>10, <1>11, <1>12
-----------------------------------------------------------------------------
(* What a call changes of the heap. *)
Tied(m, n, x) == n.node[x].prev = m.node[x].prev /\ n.node[x].next = m.node[x].next
Same(m, n, x) == Tied(m, n, x) /\ n.node[x].data = m.node[x].data

(* A node is handed out. *)
LEMMA NodeNew ==
  ASSUME NEW m, Heap(m), NEW data, NEW new \in list_node_new(m, data)
  PROVE  /\ new.at \in Node \ m.live
         /\ Heap(new.mem) /\ new.mem.live = m.live \cup {new.at}
         /\ new.mem.node[new.at].prev = NULL /\ new.mem.node[new.at].next = NULL
         /\ new.mem.node[new.at].data = data
         /\ \A x \in Node \ {new.at} : Same(m, new.mem, x)
<1>1. PICK x \in Node \ m.live :
         new = [at |-> x, mem |-> [m EXCEPT !.live = @ \cup {x},
                                            !.node[x] = [prev |-> NULL, next |-> NULL, data |-> data]]]
  BY DEF list_node_new
<1>2. m = [live |-> m.live, node |-> m.node] /\ m.live \subseteq Node /\ m.node = [y \in Node |-> m.node[y]]
  BY DEF Heap
<1>. DEFINE rec == [prev |-> NULL, next |-> NULL, data |-> data]
            N == [m.node EXCEPT ![x] = rec]
<1>3. new.at = x /\ new.mem = [live |-> m.live \cup {x}, node |-> N]
  BY <1>1, <1>2
<1>4. N = [y \in Node |-> N[y]] /\ N[x] = rec /\ \A y \in Node \ {x} : N[y] = m.node[y]
  BY <1>2
<1>. HIDE DEF N
<1>5. \A y \in Node : N[y] = [prev |-> N[y].prev, next |-> N[y].next, data |-> N[y].data]
  BY <1>4 DEF Heap
<1>6. new.mem.live = m.live \cup {x} /\ new.mem.node = N
  BY <1>3
<1>7. Heap(new.mem)
  BY <1>2, <1>3, <1>4, <1>5, <1>6 DEF Heap
<1>. QED BY <1>3, <1>4, <1>6, <1>7 DEF Same, Tied

LEMMA NodeSet ==
  ASSUME NEW m, Heap(m), NEW x \in Node, NEW n,
         NEW rec, rec = [prev |-> rec.prev, next |-> rec.next, data |-> rec.data],
         n = [m EXCEPT !.node[x] = rec]
  PROVE  Heap(n) /\ n.live = m.live /\ n.node[x] = rec /\ \A z \in Node \ {x} : Same(m, n, z)
<1>1. m = [live |-> m.live, node |-> m.node] /\ m.live \subseteq Node /\ m.node = [z \in Node |-> m.node[z]]
  BY DEF Heap
<1>. DEFINE N == [m.node EXCEPT ![x] = rec]
<1>2. n = [live |-> m.live, node |-> N]
  BY <1>1
<1>3. N = [z \in Node |-> N[z]] /\ N[x] = rec /\ \A z \in Node \ {x} : N[z] = m.node[z]
  BY <1>1
<1>. HIDE DEF N
<1>4. \A z \in Node : N[z] = [prev |-> N[z].prev, next |-> N[z].next, data |-> N[z].data]
  BY <1>3 DEF Heap
<1>5. n.live = m.live /\ n.node = N
  BY <1>2
<1>6. Heap(n)
  BY <1>1, <1>2, <1>3, <1>4, <1>5 DEF Heap
<1>. QED BY <1>3, <1>5, <1>6 DEF Same, Tied

(* A field of one node is written. *)
NextWritten(m, x, y) == [m EXCEPT !.node[x].next = y]
PrevWritten(m, x, y) == [m EXCEPT !.node[x].prev = y]
DataWritten(m, x, y) == [m EXCEPT !.node[x].data = y]

LEMMA NextSet ==
  ASSUME NEW m, Heap(m), NEW x \in Node, NEW y, NEW n, n = NextWritten(m, x, y)
  PROVE  /\ Heap(n) /\ n.live = m.live
         /\ n.node[x].next = y /\ n.node[x].prev = m.node[x].prev /\ n.node[x].data = m.node[x].data
         /\ \A z \in Node \ {x} : Same(m, n, z)
<1>. DEFINE rec == [m.node[x] EXCEPT !.next = y]
            p == m.node[x].prev
            q == m.node[x].next
            d == m.node[x].data
<1>1. rec = [prev |-> p, next |-> y, data |-> d]
  <2>1. rec = [[prev |-> p, next |-> q, data |-> d] EXCEPT !.next = y]
    BY DEF Heap
  <2>. HIDE DEF p, q, d
  <2>2. [[prev |-> p, next |-> q, data |-> d] EXCEPT !.next = y] = [prev |-> p, next |-> y, data |-> d]
    OBVIOUS
  <2>. QED BY <2>1, <2>2
<1>2. n = [m EXCEPT !.node[x] = rec]
  BY DEF NextWritten
<1>. HIDE DEF rec
<1>3. rec = [prev |-> rec.prev, next |-> rec.next, data |-> rec.data]
  BY <1>1
<1>4. Heap(n) /\ n.live = m.live /\ n.node[x] = rec /\ \A z \in Node \ {x} : Same(m, n, z)
  BY <1>2, <1>3, NodeSet
<1>. QED BY <1>1, <1>4 DEF Same, Tied

LEMMA PrevSet ==
  ASSUME NEW m, Heap(m), NEW x \in Node, NEW y, NEW n, n = PrevWritten(m, x, y)
  PROVE  /\ Heap(n) /\ n.live = m.live
         /\ n.node[x].prev = y /\ n.node[x].next = m.node[x].next /\ n.node[x].data = m.node[x].data
         /\ \A z \in Node \ {x} : Same(m, n, z)
<1>. DEFINE rec == [m.node[x] EXCEPT !.prev = y]
            p == m.node[x].prev
            q == m.node[x].next
            d == m.node[x].data
<1>1. rec = [prev |-> y, next |-> q, data |-> d]
  <2>1. rec = [[prev |-> p, next |-> q, data |-> d] EXCEPT !.prev = y]
    BY DEF Heap
  <2>. HIDE DEF p, q, d
  <2>2. [[prev |-> p, next |-> q, data |-> d] EXCEPT !.prev = y] = [prev |-> y, next |-> q, data |-> d]
    OBVIOUS
  <2>. QED BY <2>1, <2>2
<1>2. n = [m EXCEPT !.node[x] = rec]
  BY DEF PrevWritten
<1>. HIDE DEF rec
<1>3. rec = [prev |-> rec.prev, next |-> rec.next, data |-> rec.data]
  BY <1>1
<1>4. Heap(n) /\ n.live = m.live /\ n.node[x] = rec /\ \A z \in Node \ {x} : Same(m, n, z)
  BY <1>2, <1>3, NodeSet
<1>. QED BY <1>1, <1>4 DEF Same, Tied

LEMMA DataSet ==
  ASSUME NEW m, Heap(m), NEW x \in Node, NEW y, NEW n, n = DataWritten(m, x, y)
  PROVE  /\ Heap(n) /\ n.live = m.live
         /\ Tied(m, n, x) /\ n.node[x].data = y
         /\ \A z \in Node \ {x} : Same(m, n, z)
<1>. DEFINE rec == [m.node[x] EXCEPT !.data = y]
            p == m.node[x].prev
            q == m.node[x].next
            d == m.node[x].data
<1>1. rec = [prev |-> p, next |-> q, data |-> y]
  <2>1. rec = [[prev |-> p, next |-> q, data |-> d] EXCEPT !.data = y]
    BY DEF Heap
  <2>. HIDE DEF p, q, d
  <2>2. [[prev |-> p, next |-> q, data |-> d] EXCEPT !.data = y] = [prev |-> p, next |-> q, data |-> y]
    OBVIOUS
  <2>. QED BY <2>1, <2>2
<1>2. n = [m EXCEPT !.node[x] = rec]
  BY DEF DataWritten
<1>. HIDE DEF rec
<1>3. rec = [prev |-> rec.prev, next |-> rec.next, data |-> rec.data]
  BY <1>1
<1>4. Heap(n) /\ n.live = m.live /\ n.node[x] = rec /\ \A z \in Node \ {x} : Same(m, n, z)
  BY <1>2, <1>3, NodeSet
<1>. QED BY <1>1, <1>4 DEF Same, Tied

LEMMA FreedHeap ==
  ASSUME NEW m, Heap(m), NEW gone
  PROVE  /\ Heap(Freed(m, gone)) /\ Freed(m, gone).live = m.live \ gone
         /\ \A x \in Node \ gone : Same(m, Freed(m, gone), x)
<1>. DEFINE n == Freed(m, gone)
            N == [x \in Node |-> IF x \in gone THEN Garbage ELSE m.node[x]]
<1>1. n = [live |-> m.live \ gone, node |-> N]
  BY DEF Freed
<1>2. n.live = m.live \ gone /\ n.node = N
  BY <1>1
<1>. HIDE DEF n
<1>3. N = [x \in Node |-> N[x]] /\ \A x \in Node : N[x] = IF x \in gone THEN Garbage ELSE m.node[x]
  OBVIOUS
<1>. HIDE DEF N
<1>4. \A x \in Node : N[x] = [prev |-> N[x].prev, next |-> N[x].next, data |-> N[x].data]
  <2>1. ASSUME NEW x \in Node PROVE N[x] = [prev |-> N[x].prev, next |-> N[x].next, data |-> N[x].data]
    <3>1. CASE x \in gone
      BY <1>3, <3>1 DEF Garbage
    <3>2. CASE x \notin gone
      <4>1. N[x] = m.node[x]
        BY <1>3, <3>2
      <4>. QED BY <4>1 DEF Heap
    <3>. QED BY <3>1, <3>2
  <2>. QED BY <2>1
<1>5. m.live \subseteq Node
  BY DEF Heap
<1>6. Heap(n)
  BY <1>1, <1>2, <1>3, <1>4, <1>5 DEF Heap
<1>. QED BY <1>2, <1>3, <1>6 DEF n, Same, Tied
-----------------------------------------------------------------------------
(* The operations of list.c on one of two sound lists. *)
LEMMA ChainTied ==
  ASSUME NEW m, NEW n, NEW list, NEW v, Chain(m, list, v),
         \A j \in 1 .. Len(v) : v[j] \in n.live /\ Tied(m, n, v[j])
  PROVE  Chain(n, list, v)
BY DEF Chain, Tied

(* A list holds the data of its nodes. *)
LEMMA ChainEntries ==
  ASSUME NEW m, NEW list, NEW w, Chain(m, list, w)
  PROVE  Entries(m, list) = [i \in 1 .. Len(w) |-> m.node[w[i]].data]
<1>1. Walk(m, list) = w
  BY WalkFinds
<1>2. DOMAIN w = 1 .. Len(w)
  BY DEF Chain
<1>. QED BY <1>1, <1>2 DEF Entries

LEMMA ChainKept ==
  ASSUME NEW m, NEW n, NEW list, NEW v, Chain(m, list, v),
         \A j \in 1 .. Len(v) : v[j] \in n.live /\ Same(m, n, v[j])
  PROVE  Chain(n, list, v) /\ Entries(n, list) = Entries(m, list)
<1>1. \A j \in 1 .. Len(v) : Tied(m, n, v[j]) /\ n.node[v[j]].data = m.node[v[j]].data
  BY DEF Same
<1>2. Chain(n, list, v)
  BY <1>1, ChainTied
<1>3. [j \in 1 .. Len(v) |-> n.node[v[j]].data] = [j \in 1 .. Len(v) |-> m.node[v[j]].data]
  BY <1>1
<1>. QED BY <1>2, <1>3, ChainEntries

(* Two sound lists and what they hold. *)
Holds(m, list, other, d, e) == Sound(m, list, other) /\ Entries(m, list) = d /\ Entries(m, other) = e

LEMMA ChainHolds ==
  ASSUME NEW m, NEW list, NEW other, NEW w \in Seq(Node), NEW v \in Seq(Node), Apart(m, list, other, w, v)
  PROVE  Holds(m, list, other, [i \in 1 .. Len(w) |-> m.node[w[i]].data], [i \in 1 .. Len(v) |-> m.node[v[i]].data])
<1>1. Chain(m, list, w) /\ Chain(m, other, v)
  BY DEF Apart
<1>2. /\ Entries(m, list) = [i \in 1 .. Len(w) |-> m.node[w[i]].data]
      /\ Entries(m, other) = [i \in 1 .. Len(v) |-> m.node[v[i]].data]
  BY <1>1, ChainEntries
<1>. QED BY <1>2 DEF Sound, Holds

LEMMA HoldsSwaps ==
  ASSUME NEW m, NEW a, NEW b, NEW d, NEW e, Holds(m, a, b, d, e) PROVE Holds(m, b, a, e, d)
BY SoundSwaps DEF Holds

(* One more at the end of a sequence, and one less at a place. *)
LEMMA AppendIs ==
  ASSUME NEW n \in Nat, NEW d, d = [i \in 1 .. n |-> d[i]], NEW v
  PROVE  Append(d, v) = [i \in 1 .. n + 1 |-> IF i = n + 1 THEN v ELSE d[i]]
<1>. DEFINE T == {d[i] : i \in 1 .. n} \cup {v}
            u == Append(d, v)
<1>1. d \in [1 .. n -> T]
  OBVIOUS
<1>2. v \in T
  OBVIOUS
<1>. HIDE DEF T
<1>3. d \in Seq(T) /\ Len(d) = n
  BY <1>1, SeqDef, LenProperties
<1>4. u \in Seq(T) /\ Len(u) = n + 1 /\ u[n + 1] = v /\ \A i \in 1 .. n : u[i] = d[i]
  BY <1>2, <1>3, AppendProperties
<1>. HIDE DEF u
<1>5. u = [i \in 1 .. n + 1 |-> u[i]]
  BY <1>4, LenProperties
<1>6. \A i \in 1 .. n + 1 : u[i] = IF i = n + 1 THEN v ELSE d[i]
  BY <1>4
<1>7. [i \in 1 .. n + 1 |-> u[i]] = [i \in 1 .. n + 1 |-> IF i = n + 1 THEN v ELSE d[i]]
  BY <1>6, Zenon
<1>. QED BY <1>5, <1>7 DEF u

Without(d, n, k) == [i \in 1 .. n - 1 |-> d[IF i < k THEN i ELSE i + 1]]

LEMMA SuffixIs ==
  ASSUME NEW T, NEW n \in Nat, NEW d, NEW z \in Int, \A i \in z .. n : d[i] \in T
  PROVE  /\ SubSeq(d, z, n) \in Seq(T)
         /\ Len(SubSeq(d, z, n)) = IF z <= n THEN n - z + 1 ELSE 0
         /\ \A i \in 1 .. n - z + 1 : SubSeq(d, z, n)[i] = d[z + i - 1]
<1>1. n \in Int
  OBVIOUS
<1>. QED BY <1>1, SubSeqProperties

LEMMA RemoveIs ==
  ASSUME NEW n \in Nat, NEW d, d = [i \in 1 .. n |-> d[i]], NEW k \in 1 .. n
  PROVE  RemoveAt(d, k) = Without(d, n, k)
<1>. DEFINE a == SubSeq(d, 1, k - 1)
            b == SubSeq(d, k + 1, n)
            T == {d[i] : i \in 1 .. n}
<1>1. d \in [1 .. n -> T]
  OBVIOUS
<1>2. \A i \in 1 .. k - 1 : d[i] \in T
  OBVIOUS
<1>3. \A i \in k + 1 .. n : d[i] \in T
  OBVIOUS
<1>. HIDE DEF T
<1>4. d \in Seq(T) /\ Len(d) = n
  BY <1>1, SeqDef, LenProperties
<1>5. a \in Seq(T) /\ Len(a) = k - 1 /\ \A i \in 1 .. k - 1 : a[i] = d[i]
  <2>. DEFINE z == k - 1
  <2>1. z \in Int /\ z - 1 + 1 = z /\ (1 <= z \/ z = 0) /\ \A i \in 1 .. z : 1 + i - 1 = i
    OBVIOUS
  <2>. HIDE DEF z
  <2>2. /\ SubSeq(d, 1, z) \in Seq(T)
        /\ Len(SubSeq(d, 1, z)) = IF 1 <= z THEN z - 1 + 1 ELSE 0
        /\ \A i \in 1 .. z - 1 + 1 : SubSeq(d, 1, z)[i] = d[1 + i - 1]
    <3>1. \A i \in 1 .. z : d[i] \in T
      BY <1>2 DEF z
    <3>. QED BY <2>1, <3>1, SubSeqProperties
  <2>. QED BY <2>1, <2>2 DEF z
<1>6. b \in Seq(T) /\ Len(b) = n - k /\ \A i \in 1 .. n - k : b[i] = d[k + i]
  <2>. DEFINE z == k + 1
  <2>1. z \in Int /\ n - z + 1 = n - k /\ (z <= n \/ n - k = 0) /\ \A i \in 1 .. n - k : z + i - 1 = k + i
    OBVIOUS
  <2>2. \A i \in z .. n : d[i] \in T
    BY <1>3
  <2>. HIDE DEF z
  <2>3. /\ SubSeq(d, z, n) \in Seq(T)
        /\ Len(SubSeq(d, z, n)) = IF z <= n THEN n - z + 1 ELSE 0
        /\ \A i \in 1 .. n - z + 1 : SubSeq(d, z, n)[i] = d[z + i - 1]
    <3>1. z \in Int
      BY <2>1
    <3>2. \A i \in z .. n : d[i] \in T
      BY <2>2
    <3>. QED BY <3>1, <3>2, SuffixIs
  <2>4. b = SubSeq(d, z, n)
    BY DEF z
  <2>. HIDE DEF b
  <2>. QED BY <2>1, <2>3, <2>4
<1>7. RemoveAt(d, k) = a \o b
  BY <1>4 DEF RemoveAt
<1>. HIDE DEF a, b
<1>8. /\ a \o b \in Seq(T) /\ Len(a \o b) = n - 1
      /\ \A i \in 1 .. n - 1 : (a \o b)[i] = IF i <= k - 1 THEN a[i] ELSE b[i - (k - 1)]
  BY <1>5, <1>6, ConcatProperties
<1>9. \A i \in 1 .. n - 1 : (a \o b)[i] = d[IF i < k THEN i ELSE i + 1]
  <2>1. ASSUME NEW i \in 1 .. n - 1, i < k PROVE (a \o b)[i] = d[i]
    <3>1. i \in 1 .. k - 1 /\ i <= k - 1
      BY <2>1
    <3>2. (a \o b)[i] = a[i]
      BY <1>8, <3>1
    <3>. QED BY <1>5, <3>1, <3>2
  <2>2. ASSUME NEW i \in 1 .. n - 1, ~ (i < k) PROVE (a \o b)[i] = d[i + 1]
    <3>1. i - (k - 1) \in 1 .. n - k /\ k + (i - (k - 1)) = i + 1 /\ ~ (i <= k - 1)
      BY <2>2
    <3>. QED BY <1>6, <1>8, <3>1
  <2>. QED BY <2>1, <2>2
<1>10. a \o b = [i \in 1 .. n - 1 |-> (a \o b)[i]]
  BY <1>8, LenProperties
<1>. QED BY <1>7, <1>9, <1>10 DEF Without

(* The links and the data of the nodes stay, but for the data of one node. *)
LEMMA DataHolds ==
  ASSUME NEW m, NEW n, NEW list, NEW other, NEW w \in Seq(Node), NEW v \in Seq(Node),
         Apart(m, list, other, w, v), NEW k \in 1 .. Len(w), Heap(n), n.live = m.live,
         Tied(m, n, w[k]), \A x \in Node \ {w[k]} : Same(m, n, x)
  PROVE  Holds(n, list, other, [Entries(m, list) EXCEPT ![k] = n.node[w[k]].data], Entries(m, other))
<1>1. /\ \A i \in 1 .. Len(w) : w[i] \in Node /\ w[i] \in n.live /\ (i # k => w[i] # w[k])
      /\ \A j \in 1 .. Len(v) : v[j] \in Node /\ v[j] \in n.live /\ v[j] # w[k]
      /\ Chain(m, list, w) /\ Chain(m, other, v)
  <2>1. Chain(m, list, w) /\ Chain(m, other, v) /\ \A j \in 1 .. Len(v) : v[j] # w[k]
    BY DEF Apart
  <2>2. \A i \in 1 .. Len(w) : w[i] \in Node /\ w[i] \in m.live /\ (i # k => w[i] # w[k])
    BY <2>1 DEF Chain
  <2>3. \A j \in 1 .. Len(v) : v[j] \in Node /\ v[j] \in m.live
    BY <2>1 DEF Chain
  <2>. QED BY <2>1, <2>2, <2>3
<1>2. Chain(n, list, w)
  BY <1>1, ChainTied DEF Same
<1>3. Chain(n, other, v) /\ Entries(n, other) = Entries(m, other)
  BY <1>1, ChainKept
<1>4. Apart(n, list, other, w, v)
  BY <1>2, <1>3 DEF Apart
<1>5. [i \in 1 .. Len(w) |-> n.node[w[i]].data]
      = [[i \in 1 .. Len(w) |-> m.node[w[i]].data] EXCEPT ![k] = n.node[w[k]].data]
  BY <1>1 DEF Same
<1>6. Entries(n, list) = [Entries(m, list) EXCEPT ![k] = n.node[w[k]].data]
  <2>1. Entries(n, list) = [i \in 1 .. Len(w) |-> n.node[w[i]].data]
    BY <1>2, ChainEntries
  <2>2. Entries(m, list) = [i \in 1 .. Len(w) |-> m.node[w[i]].data]
    BY <1>1, ChainEntries
  <2>. QED BY <1>5, <2>1, <2>2
<1>. QED BY <1>3, <1>4, <1>6 DEF Holds, Sound

(* A new node behind the last one. *)
LastOf(w) == IF w = <<>> THEN NULL ELSE w[Len(w)]

LEMMA Extended ==
  ASSUME NEW m, NEW n, NEW list, NEW other, NEW w \in Seq(Node), NEW v \in Seq(Node),
         Apart(m, list, other, w, v), NEW x \in Node \ m.live,
         Heap(n), n.live = m.live \cup {x},
         n.node[x].prev = LastOf(w), n.node[x].next = NULL,
         w # <<>> => /\ n.node[LastOf(w)].next = x
                     /\ n.node[LastOf(w)].prev = m.node[LastOf(w)].prev
                     /\ n.node[LastOf(w)].data = m.node[LastOf(w)].data,
         \A y \in Node \ {x, LastOf(w)} : Same(m, n, y)
  PROVE  Holds(n, IF w = <<>> THEN x ELSE list, other,
               Append(Entries(m, list), n.node[x].data), Entries(m, other))
<1>. DEFINE L == Len(w)
            u == Append(w, x)
<1>1. L \in Nat /\ (L = 0 <=> w = <<>>) /\ (L # 0 => L \in 1 .. L /\ LastOf(w) = w[L])
  BY EmptySeq DEF LastOf
<1>2. u \in Seq(Node) /\ Len(u) = L + 1 /\ u[L + 1] = x /\ \A i \in 1 .. L : u[i] = w[i]
  BY AppendProperties
<1>. HIDE DEF u
<1>3. /\ \A i \in 1 .. L : w[i] \in m.live /\ w[i] \in Node /\ w[i] # x
      /\ \A i, j \in 1 .. L : w[i] = w[j] => i = j
      /\ list = IF w = <<>> THEN NULL ELSE w[1]
      /\ \A i \in 1 .. L : /\ m.node[w[i]].prev = IF i = 1 THEN NULL ELSE w[i - 1]
                           /\ m.node[w[i]].next = IF i = L THEN NULL ELSE w[i + 1]
  BY DEF Apart, Chain
<1>4. \A j \in 1 .. Len(v) : v[j] \in m.live /\ v[j] \in Node /\ v[j] # x
  BY DEF Apart, Chain
<1>. HIDE DEF L
<1>5. u # <<>> /\ u[1] = IF w = <<>> THEN x ELSE list
  <2>1. u # <<>>
    BY <1>1, <1>2, EmptySeq
  <2>2. L = 0 => u[1] = x
    BY <1>2
  <2>3. L # 0 => 1 \in 1 .. L
    BY <1>1
  <2>. QED BY <1>1, <1>2, <1>3, <2>1, <2>2, <2>3
<1>6. ASSUME NEW i \in 1 .. L + 1, NEW j \in 1 .. L + 1, u[i] = u[j] PROVE i = j
  <2>1. (i = L + 1 \/ i \in 1 .. L) /\ (j = L + 1 \/ j \in 1 .. L)
    BY <1>1
  <2>. QED BY <1>2, <1>3, <1>6, <2>1
<1>7. ASSUME NEW i \in 1 .. L + 1
      PROVE  /\ u[i] \in n.live
             /\ n.node[u[i]].prev = IF i = 1 THEN NULL ELSE u[i - 1]
             /\ n.node[u[i]].next = IF i = L + 1 THEN NULL ELSE u[i + 1]
  <2>1. CASE i = L + 1
    <3>1. u[i] = x
      BY <1>2, <2>1
    <3>2. L # 0 => u[i - 1] = w[L] /\ i # 1
      BY <1>1, <1>2, <2>1
    <3>3. L = 0 => i = 1 /\ LastOf(w) = NULL
      BY <1>1, <2>1 DEF LastOf
    <3>. QED BY <1>1, <2>1, <3>1, <3>2, <3>3
  <2>2. CASE i = L /\ L # 0
    <3>1. u[i] = w[L] /\ u[i + 1] = x /\ w[L] = LastOf(w) /\ i # L + 1 /\ L \in 1 .. L
      BY <1>1, <1>2, <2>2
    <3>2. i # 1 => u[i - 1] = w[i - 1]
      BY <1>1, <1>2, <2>2
    <3>. QED BY <1>1, <1>3, <2>2, <3>1, <3>2
  <2>3. CASE i \in 1 .. L - 1
    <3>1. i \in 1 .. L /\ i + 1 \in 1 .. L /\ L \in 1 .. L /\ i # L /\ i # L + 1 /\ (i # 1 => i - 1 \in 1 .. L)
      BY <1>1, <2>3
    <3>2. u[i] = w[i] /\ u[i + 1] = w[i + 1] /\ (i # 1 => u[i - 1] = w[i - 1])
      BY <1>2, <3>1
    <3>3. w[i] # LastOf(w)
      BY <1>1, <1>3, <3>1
    <3>4. Same(m, n, w[i])
      BY <1>3, <3>1, <3>3
    <3>. QED BY <1>3, <3>1, <3>2, <3>4 DEF Same, Tied
  <2>. QED BY <1>1, <2>1, <2>2, <2>3
<1>8. Chain(n, IF w = <<>> THEN x ELSE list, u)
  BY <1>2, <1>5, <1>6, <1>7 DEF Chain
<1>9. Chain(n, other, v) /\ Entries(n, other) = Entries(m, other)
  <2>1. ASSUME NEW j \in 1 .. Len(v) PROVE v[j] \in n.live /\ Same(m, n, v[j])
    <3>1. v[j] # LastOf(w)
      <4>1. w # <<>> => LastOf(w) # v[j]
        BY <1>1 DEF Apart, L
      <4>. QED BY <1>4, <4>1, NodeAssumption DEF LastOf
    <3>. QED BY <1>4, <3>1
  <2>. QED BY <2>1, ChainKept DEF Apart
<1>10. \A i \in 1 .. Len(u), j \in 1 .. Len(v) : u[i] # v[j]
  <2>1. ASSUME NEW i \in 1 .. L + 1, NEW j \in 1 .. Len(v) PROVE u[i] # v[j]
    <3>1. i = L + 1 \/ i \in 1 .. L
      BY <1>1
    <3>2. \A k \in 1 .. L : w[k] # v[j]
      BY DEF Apart, L
    <3>. QED BY <1>2, <1>4, <3>1, <3>2
  <2>. QED BY <1>2, <2>1
<1>11. ASSUME NEW y \in n.live
       PROVE  (\E i \in 1 .. Len(u) : u[i] = y) \/ (\E j \in 1 .. Len(v) : v[j] = y)
  <2>1. CASE y = x
    <3>1. L + 1 \in 1 .. Len(u)
      BY <1>1, <1>2
    <3>. QED BY <1>2, <2>1, <3>1
  <2>2. CASE y # x
    <3>1. (\E i \in 1 .. L : w[i] = y) \/ (\E j \in 1 .. Len(v) : v[j] = y)
      BY <2>2 DEF Apart, L
    <3>2. \A i \in 1 .. L : i \in 1 .. Len(u)
      BY <1>1, <1>2
    <3>. QED BY <1>2, <3>1, <3>2
  <2>. QED BY <2>1, <2>2
<1>12. Apart(n, IF w = <<>> THEN x ELSE list, other, u, v)
  BY <1>8, <1>9, <1>10, <1>11 DEF Apart
<1>13. Entries(n, IF w = <<>> THEN x ELSE list) = Append(Entries(m, list), n.node[x].data)
  <2>. DEFINE d == [i \in 1 .. L |-> m.node[w[i]].data]
  <2>1. Entries(m, list) = d
    <3>1. Chain(m, list, w)
      BY DEF Apart
    <3>. QED BY <3>1, ChainEntries DEF L
  <2>2. Entries(n, IF w = <<>> THEN x ELSE list) = [i \in 1 .. L + 1 |-> n.node[u[i]].data]
    BY <1>2, <1>8, ChainEntries
  <2>3. Append(d, n.node[x].data) = [i \in 1 .. L + 1 |-> IF i = L + 1 THEN n.node[x].data ELSE d[i]]
    <3>1. d = [i \in 1 .. L |-> d[i]]
      OBVIOUS
    <3>. HIDE DEF d
    <3>. QED BY <1>1, <3>1, AppendIs
  <2>4. ASSUME NEW i \in 1 .. L + 1
        PROVE  n.node[u[i]].data = IF i = L + 1 THEN n.node[x].data ELSE d[i]
    <3>1. CASE i = L + 1
      BY <1>2, <3>1
    <3>2. CASE i # L + 1
      <4>1. i \in 1 .. L /\ u[i] = w[i] /\ d[i] = m.node[w[i]].data
        BY <1>1, <1>2, <3>2
      <4>2. n.node[w[i]].data = m.node[w[i]].data
        <5>1. w # <<>>
          BY <1>1, <4>1
        <5>2. CASE w[i] = LastOf(w)
          BY <5>1, <5>2
        <5>3. CASE w[i] # LastOf(w)
          BY <1>3, <4>1, <5>3 DEF Same
        <5>. QED BY <5>2, <5>3
      <4>. QED BY <3>2, <4>1, <4>2
    <3>. QED BY <3>1, <3>2
  <2>. HIDE DEF d
  <2>. QED BY <2>1, <2>2, <2>3, <2>4
<1>. QED BY <1>2, <1>9, <1>12, <1>13 DEF Sound, Holds

LEMMA AppendHolds ==
  ASSUME NEW m, NEW list, NEW other, Sound(m, list, other), NEW data, NEW r \in list_append(m, list, data)
  PROVE  Holds(r.mem, r.head, other, Append(Entries(m, list), data), Entries(m, other))
<1>1. PICK w, v \in Seq(Node) : Apart(m, list, other, w, v)
  BY DEF Sound
<1>2. Heap(m) /\ Chain(m, list, w)
  BY <1>1 DEF Apart
<1>3. PICK new \in list_node_new(m, data) :
        r = IF list = NULL THEN [head |-> new.at, mem |-> new.mem]
            ELSE LET last == list_tail(m, list)
                 IN  [head |-> list,
                      mem  |-> [new.mem EXCEPT !.node[last].next = new.at, !.node[new.at].prev = last]]
  BY DEF list_append
<1>4. /\ new.at \in Node \ m.live
      /\ Heap(new.mem) /\ new.mem.live = m.live \cup {new.at}
      /\ new.mem.node[new.at].prev = NULL /\ new.mem.node[new.at].next = NULL
      /\ new.mem.node[new.at].data = data
      /\ \A x \in Node \ {new.at} : Same(m, new.mem, x)
  BY <1>2, NodeNew
<1>5. /\ Len(w) \in Nat /\ (Len(w) = 0 <=> w = <<>>)
      /\ list = IF w = <<>> THEN NULL ELSE w[1]
      /\ \A i \in 1 .. Len(w) : w[i] \in Node /\ w[i] \in m.live
  BY <1>2, EmptySeq DEF Chain
<1>6. CASE w = <<>>
  <2>1. r.head = new.at /\ r.mem = new.mem
    BY <1>3, <1>5, <1>6
  <2>2. LastOf(w) = NULL
    BY <1>6 DEF LastOf
  <2>. QED BY <1>1, <1>4, <1>6, <2>1, <2>2, Extended
<1>7. CASE w # <<>>
  <2>. DEFINE last == w[Len(w)]
  <2>1. Len(w) \in 1 .. Len(w) /\ 1 \in 1 .. Len(w) /\ LastOf(w) = last
    BY <1>5, <1>7 DEF LastOf
  <2>2. last \in Node /\ last \in m.live /\ last # new.at /\ list # NULL /\ list = w[1]
    BY <1>4, <1>5, <1>7, <2>1, NodeAssumption
  <2>3. list_tail(m, list) = last
    <3>1. Walk(m, list) = w
      BY <1>2, WalkFinds
    <3>. QED BY <2>2, <3>1 DEF list_tail, Last
  <2>. HIDE DEF last
  <2>. DEFINE a == [new.mem EXCEPT !.node[last].next = new.at]
              b == [a EXCEPT !.node[new.at].prev = last]
  <2>4. r.head = list /\ r.mem = [new.mem EXCEPT !.node[last].next = new.at, !.node[new.at].prev = last]
    BY <1>3, <2>2, <2>3
  <2>5. r.mem = b
    BY <2>4
  <2>6. /\ Heap(a) /\ a.live = new.mem.live
        /\ a.node[last].next = new.at /\ a.node[last].prev = new.mem.node[last].prev
        /\ a.node[last].data = new.mem.node[last].data
        /\ \A z \in Node \ {last} : Same(new.mem, a, z)
    <3>1. a = NextWritten(new.mem, last, new.at)
      BY DEF NextWritten
    <3>. HIDE DEF a
    <3>. QED BY <1>4, <2>2, <3>1, NextSet
  <2>. HIDE DEF a
  <2>7. /\ Heap(b) /\ b.live = a.live
        /\ b.node[new.at].prev = last /\ b.node[new.at].next = a.node[new.at].next
        /\ b.node[new.at].data = a.node[new.at].data
        /\ \A z \in Node \ {new.at} : Same(a, b, z)
    <3>1. b = PrevWritten(a, new.at, last)
      BY DEF PrevWritten
    <3>. HIDE DEF b
    <3>. QED BY <1>4, <2>6, <3>1, PrevSet
  <2>. HIDE DEF b
  <2>8. /\ b.node[last].next = new.at /\ b.node[last].prev = m.node[last].prev
        /\ b.node[last].data = m.node[last].data
        /\ b.node[new.at].next = NULL /\ b.node[new.at].data = data
    BY <1>4, <2>2, <2>6, <2>7 DEF Same, Tied
  <2>9. \A y \in Node \ {new.at, last} : Same(m, b, y)
    BY <1>4, <2>6, <2>7 DEF Same, Tied
  <2>10. Holds(b, list, other, Append(Entries(m, list), data), Entries(m, other))
    <3>1. /\ Heap(b) /\ b.live = m.live \cup {new.at}
          /\ b.node[new.at].prev = LastOf(w) /\ b.node[new.at].next = NULL
          /\ w # <<>> => /\ b.node[LastOf(w)].next = new.at
                         /\ b.node[LastOf(w)].prev = m.node[LastOf(w)].prev
                         /\ b.node[LastOf(w)].data = m.node[LastOf(w)].data
      BY <1>4, <2>1, <2>6, <2>7, <2>8
    <3>2. \A y \in Node \ {new.at, LastOf(w)} : Same(m, b, y)
      BY <2>1, <2>9
    <3>3. new.at \in Node \ m.live
      BY <1>4
    <3>4. Holds(b, IF w = <<>> THEN new.at ELSE list, other,
                Append(Entries(m, list), b.node[new.at].data), Entries(m, other))
      BY <1>1, <3>1, <3>2, <3>3, Extended
    <3>. QED BY <1>7, <2>8, <3>4
  <2>. QED BY <2>4, <2>5, <2>10
<1>. QED BY <1>6, <1>7

(* A node taken out. *)
Bypassed(m, n, w, k) ==
  /\ Heap(n)
  /\ n.live = m.live \ {w[k]}
  /\ \A y \in Node \ {w[k]} :
        /\ n.node[y].prev = IF k < Len(w) /\ y = w[k + 1] THEN m.node[w[k]].prev ELSE m.node[y].prev
        /\ n.node[y].next = IF k > 1 /\ y = w[k - 1] THEN m.node[w[k]].next ELSE m.node[y].next
        /\ n.node[y].data = m.node[y].data

LEMMA Taken ==
  ASSUME NEW m, NEW n, NEW list, NEW other, NEW w \in Seq(Node), NEW v \in Seq(Node),
         Apart(m, list, other, w, v), NEW k \in 1 .. Len(w), Bypassed(m, n, w, k)
  PROVE  Holds(n, IF w[k] = list THEN m.node[w[k]].next ELSE list, other,
               Without(Entries(m, list), Len(w), k), Entries(m, other))
<1>. DEFINE L == Len(w)
            from(i) == IF i < k THEN i ELSE i + 1
            u == [i \in 1 .. L - 1 |-> w[from(i)]]
            head == IF w[k] = list THEN m.node[w[k]].next ELSE list
<1>0. Heap(n) /\ n.live = m.live \ {w[k]}
  BY DEF Bypassed
<1>1. L \in Nat /\ k \in 1 .. L /\ k \in Nat /\ w # <<>>
  BY EmptySeq
<1>2. /\ \A i \in 1 .. L : w[i] \in m.live /\ w[i] \in Node
      /\ \A i, j \in 1 .. L : w[i] = w[j] => i = j
      /\ list = w[1]
      /\ \A i \in 1 .. L : /\ m.node[w[i]].prev = IF i = 1 THEN NULL ELSE w[i - 1]
                           /\ m.node[w[i]].next = IF i = L THEN NULL ELSE w[i + 1]
  BY <1>1 DEF Apart, Chain
<1>3. \A j \in 1 .. Len(v) : v[j] \in m.live /\ v[j] \in Node /\ \A i \in 1 .. L : v[j] # w[i]
  BY DEF Apart, Chain
<1>4. \A y \in Node \ {w[k]} :
         /\ n.node[y].prev = IF k < L /\ y = w[k + 1] THEN m.node[w[k]].prev ELSE m.node[y].prev
         /\ n.node[y].next = IF k > 1 /\ y = w[k - 1] THEN m.node[w[k]].next ELSE m.node[y].next
         /\ n.node[y].data = m.node[y].data
  BY DEF Bypassed, L
<1>5. \A y \in m.live : (\E i \in 1 .. L : w[i] = y) \/ (\E j \in 1 .. Len(v) : v[j] = y)
  BY DEF Apart
<1>. HIDE DEF L
<1>6. \A i \in 1 .. L - 1 : from(i) \in 1 .. L /\ from(i) # k
  BY <1>1
<1>7. u \in Seq(Node) /\ Len(u) = L - 1 /\ \A i \in 1 .. L - 1 : u[i] = w[from(i)]
  <2>1. \A i \in 1 .. L - 1 : w[from(i)] \in Node
    BY <1>2, <1>6
  <2>2. u \in [1 .. L - 1 -> Node]
    BY <2>1, Zenon
  <2>3. L - 1 \in Nat
    BY <1>1
  <2>4. \A i \in 1 .. L - 1 : u[i] = w[from(i)]
    OBVIOUS
  <2>. HIDE DEF u
  <2>5. u \in Seq(Node) /\ Len(u) = L - 1
    BY <2>2, <2>3, SeqDef, LenProperties
  <2>. QED BY <2>4, <2>5
<1>. HIDE DEF u
<1>8. \A i, j \in 1 .. L - 1 : u[i] = u[j] => i = j
  <2>1. ASSUME NEW i \in 1 .. L - 1, NEW j \in 1 .. L - 1, u[i] = u[j] PROVE i = j
    <3>1. w[from(i)] = w[from(j)] /\ from(i) \in 1 .. L /\ from(j) \in 1 .. L
      BY <1>6, <1>7, <2>1
    <3>2. from(i) = from(j)
      BY <1>2, <3>1
    <3>. QED BY <1>1, <3>2
  <2>. QED BY <2>1
<1>9. head = IF u = <<>> THEN NULL ELSE u[1]
  <2>1. u = <<>> <=> L = 1
    BY <1>1, <1>7, EmptySeq
  <2>2. L # 1 => u[1] = IF k = 1 THEN w[2] ELSE w[1]
    BY <1>1, <1>7
  <2>3. w[k] = list <=> k = 1
    BY <1>1, <1>2
  <2>4. m.node[w[1]].next = IF L = 1 THEN NULL ELSE w[1 + 1]
    BY <1>1, <1>2
  <2>. QED BY <1>1, <1>2, <2>1, <2>2, <2>3, <2>4
<1>10. ASSUME NEW i \in 1 .. L - 1
       PROVE  /\ u[i] \in n.live
              /\ n.node[u[i]].prev = IF i = 1 THEN NULL ELSE u[i - 1]
              /\ n.node[u[i]].next = IF i = L - 1 THEN NULL ELSE u[i + 1]
  <2>. DEFINE a == from(i)
  <2>1. a \in 1 .. L /\ a # k /\ u[i] = w[a]
    BY <1>6, <1>7
  <2>2. w[a] # w[k] /\ w[a] \in Node /\ w[a] \in m.live
    BY <1>1, <1>2, <2>1
  <2>3. /\ n.node[w[a]].prev = IF k < L /\ w[a] = w[k + 1] THEN m.node[w[k]].prev ELSE m.node[w[a]].prev
        /\ n.node[w[a]].next = IF k > 1 /\ w[a] = w[k - 1] THEN m.node[w[k]].next ELSE m.node[w[a]].next
    BY <1>4, <2>2
  <2>4. (k < L /\ w[a] = w[k + 1] <=> a = k + 1) /\ (k > 1 /\ w[a] = w[k - 1] <=> a = k - 1)
    <3>1. (k < L => k + 1 \in 1 .. L) /\ (k > 1 => k - 1 \in 1 .. L)
      BY <1>1
    <3>2. (a = k + 1 => k < L) /\ (a = k - 1 => k > 1)
      BY <1>1, <2>1
    <3>. QED BY <1>2, <2>1, <3>1, <3>2
  <2>5. n.node[w[a]].prev = IF i = 1 THEN NULL ELSE u[i - 1]
    <3>1. i # 1 => u[i - 1] = w[from(i - 1)]
      BY <1>1, <1>7
    <3>2. CASE a = k + 1
      <4>1. n.node[w[a]].prev = IF k = 1 THEN NULL ELSE w[k - 1]
        BY <1>1, <1>2, <2>3, <2>4, <3>2
      <4>2. i = k /\ (i # 1 => from(i - 1) = k - 1)
        BY <1>1, <2>1, <3>2
      <4>. QED BY <3>1, <4>1, <4>2
    <3>3. CASE a # k + 1
      <4>1. n.node[w[a]].prev = IF a = 1 THEN NULL ELSE w[a - 1]
        BY <1>2, <2>1, <2>3, <2>4, <3>3
      <4>2. (a = 1 <=> i = 1) /\ (i # 1 => from(i - 1) = a - 1)
        BY <1>1, <2>1, <3>3
      <4>. QED BY <3>1, <4>1, <4>2
    <3>. QED BY <3>2, <3>3
  <2>6. n.node[w[a]].next = IF i = L - 1 THEN NULL ELSE u[i + 1]
    <3>1. i # L - 1 => u[i + 1] = w[from(i + 1)]
      BY <1>1, <1>7
    <3>2. CASE a = k - 1
      <4>1. n.node[w[a]].next = IF k = L THEN NULL ELSE w[k + 1]
        BY <1>1, <1>2, <2>3, <2>4, <3>2
      <4>2. (k = L <=> i = L - 1) /\ from(i + 1) = k + 1
        BY <1>1, <2>1, <3>2
      <4>. QED BY <3>1, <4>1, <4>2
    <3>3. CASE a # k - 1
      <4>1. n.node[w[a]].next = IF a = L THEN NULL ELSE w[a + 1]
        BY <1>2, <2>1, <2>3, <2>4, <3>3
      <4>2. (a = L <=> i = L - 1) /\ from(i + 1) = a + 1
        BY <1>1, <2>1, <3>3
      <4>. QED BY <3>1, <4>1, <4>2
    <3>. QED BY <3>2, <3>3
  <2>. QED BY <1>0, <2>1, <2>2, <2>5, <2>6
<1>11. Chain(n, head, u)
  BY <1>7, <1>8, <1>9, <1>10 DEF Chain
<1>12. Chain(n, other, v) /\ Entries(n, other) = Entries(m, other)
  <2>1. ASSUME NEW j \in 1 .. Len(v) PROVE v[j] \in n.live /\ Same(m, n, v[j])
    <3>1. (k < L => k + 1 \in 1 .. L) /\ (k > 1 => k - 1 \in 1 .. L)
      BY <1>1
    <3>. QED BY <1>0, <1>1, <1>3, <1>4, <3>1 DEF Same, Tied
  <2>. QED BY <2>1, ChainKept DEF Apart
<1>13. \A i \in 1 .. Len(u), j \in 1 .. Len(v) : u[i] # v[j]
  <2>1. ASSUME NEW i \in 1 .. L - 1, NEW j \in 1 .. Len(v) PROVE u[i] # v[j]
    <3>1. u[i] = w[from(i)] /\ from(i) \in 1 .. L
      BY <1>6, <1>7
    <3>. QED BY <1>3, <3>1
  <2>. QED BY <1>7, <2>1
<1>14. ASSUME NEW y \in n.live
       PROVE  (\E i \in 1 .. Len(u) : u[i] = y) \/ (\E j \in 1 .. Len(v) : v[j] = y)
  <2>1. ASSUME NEW a \in 1 .. L, w[a] = y PROVE \E i \in 1 .. Len(u) : u[i] = y
    <3>1. a # k
      BY <1>0, <2>1
    <3>. DEFINE i == IF a < k THEN a ELSE a - 1
    <3>2. i \in 1 .. L - 1 /\ from(i) = a
      BY <1>1, <3>1
    <3>. QED BY <1>7, <2>1, <3>2
  <2>. QED BY <1>0, <1>5, <2>1
<1>15. Apart(n, head, other, u, v)
  BY <1>0, <1>11, <1>12, <1>13, <1>14 DEF Apart
<1>16. Entries(n, head) = Without(Entries(m, list), L, k)
  <2>1. Entries(m, list) = [i \in 1 .. L |-> m.node[w[i]].data]
    <3>1. Chain(m, list, w)
      BY DEF Apart
    <3>. QED BY <3>1, ChainEntries DEF L
  <2>2. Entries(n, head) = [i \in 1 .. L - 1 |-> n.node[u[i]].data]
    <3>. HIDE DEF head
    <3>1. Entries(n, head) = [i \in 1 .. Len(u) |-> n.node[u[i]].data]
      BY <1>11, ChainEntries
    <3>. QED BY <1>7, <3>1
  <2>3. ASSUME NEW i \in 1 .. L - 1 PROVE n.node[u[i]].data = Entries(m, list)[from(i)]
    <3>1. u[i] = w[from(i)] /\ from(i) \in 1 .. L /\ from(i) # k
      BY <1>6, <1>7
    <3>. HIDE DEF from
    <3>2. w[from(i)] \in Node \ {w[k]}
      BY <1>1, <1>2, <3>1
    <3>. QED BY <1>4, <2>1, <3>1, <3>2
  <2>. HIDE DEF head
  <2>. QED BY <2>2, <2>3 DEF Without
<1>17. Sound(n, head, other)
  BY <1>7, <1>15 DEF Sound
<1>. QED BY <1>12, <1>16, <1>17 DEF Holds, L, head

LEMMA RemoveHolds ==
  ASSUME NEW m, NEW list, NEW other, Sound(m, list, other), NEW k \in DOMAIN Walk(m, list)
  PROVE  LET x == Walk(m, list)[k]
             r == list_remove(m, list, x)
         IN  Holds(Freed(r.mem, {x}), r.head, other,
                   Without(Entries(m, list), Len(Walk(m, list)), k), Entries(m, other))
<1>1. PICK w, v \in Seq(Node) : Apart(m, list, other, w, v)
  BY DEF Sound
<1>2. Heap(m) /\ Chain(m, list, w) /\ Walk(m, list) = w /\ k \in 1 .. Len(w) /\ Len(w) \in Nat
  BY <1>1, WalkFinds DEF Apart
<1>. DEFINE x == w[k]
            prev == m.node[x].prev
            next == m.node[x].next
            before == IF prev = NULL THEN m ELSE [m EXCEPT !.node[prev].next = next]
            after == IF next = NULL THEN before ELSE [before EXCEPT !.node[next].prev = prev]
            n == Freed(after, {x})
<1>3. /\ prev = IF k = 1 THEN NULL ELSE w[k - 1]
      /\ next = IF k = Len(w) THEN NULL ELSE w[k + 1]
      /\ \A i \in 1 .. Len(w) : w[i] \in Node
      /\ \A i, j \in 1 .. Len(w) : w[i] = w[j] => i = j
  BY <1>2 DEF Chain
<1>4. /\ x \in Node
      /\ prev = NULL <=> k = 1
      /\ prev # NULL => prev \in Node /\ prev # x
      /\ next = NULL <=> k = Len(w)
      /\ next # NULL => next \in Node /\ next # x
      /\ prev # NULL /\ next # NULL => prev # next
  <2>1. (k # 1 => k - 1 \in 1 .. Len(w)) /\ (k # Len(w) => k + 1 \in 1 .. Len(w)) /\ k - 1 # k + 1 /\ k - 1 # k /\ k + 1 # k
    BY <1>2
  <2>2. k # 1 => w[k - 1] \in Node /\ w[k - 1] # w[k]
    BY <1>2, <1>3, <2>1
  <2>3. k # Len(w) => w[k + 1] \in Node /\ w[k + 1] # w[k]
    BY <1>2, <1>3, <2>1
  <2>4. k # 1 /\ k # Len(w) => w[k - 1] # w[k + 1]
    BY <1>3, <2>1
  <2>. QED BY <1>2, <1>3, <2>2, <2>3, <2>4, NodeAssumption
<1>. HIDE DEF x, prev, next
<1>5. /\ Heap(before) /\ before.live = m.live
      /\ \A y \in Node : /\ before.node[y].prev = m.node[y].prev
                         /\ before.node[y].next = IF y = prev THEN next ELSE m.node[y].next
                         /\ before.node[y].data = m.node[y].data
  <2>1. CASE prev = NULL
    BY <1>2, <2>1, NodeAssumption
  <2>2. CASE prev # NULL
    <3>. DEFINE a == [m EXCEPT !.node[prev].next = next]
    <3>1. /\ Heap(a) /\ a.live = m.live
          /\ a.node[prev].next = next /\ a.node[prev].prev = m.node[prev].prev
          /\ a.node[prev].data = m.node[prev].data
          /\ \A z \in Node \ {prev} : Same(m, a, z)
      <4>1. a = NextWritten(m, prev, next)
        BY DEF NextWritten
      <4>. HIDE DEF a
      <4>. QED BY <1>2, <1>4, <2>2, <4>1, NextSet
    <3>2. before = a
      BY <2>2
    <3>. HIDE DEF a, before
    <3>. QED BY <3>1, <3>2 DEF Same, Tied
  <2>. QED BY <2>1, <2>2
<1>. HIDE DEF before
<1>6. /\ Heap(after) /\ after.live = m.live
      /\ \A y \in Node : /\ after.node[y].prev = IF y = next THEN prev ELSE m.node[y].prev
                         /\ after.node[y].next = IF y = prev THEN next ELSE m.node[y].next
                         /\ after.node[y].data = m.node[y].data
  <2>1. CASE next = NULL
    BY <1>5, <2>1, NodeAssumption
  <2>2. CASE next # NULL
    <3>. DEFINE a == [before EXCEPT !.node[next].prev = prev]
    <3>1. /\ Heap(a) /\ a.live = before.live
          /\ a.node[next].prev = prev /\ a.node[next].next = before.node[next].next
          /\ a.node[next].data = before.node[next].data
          /\ \A z \in Node \ {next} : Same(before, a, z)
      <4>1. a = PrevWritten(before, next, prev)
        BY DEF PrevWritten
      <4>. HIDE DEF a
      <4>. QED BY <1>4, <1>5, <2>2, <4>1, PrevSet
    <3>2. after = a
      BY <2>2
    <3>. HIDE DEF a, after
    <3>. QED BY <1>4, <1>5, <2>2, <3>1, <3>2 DEF Same, Tied
  <2>. QED BY <2>1, <2>2
<1>. HIDE DEF after
<1>7. Heap(n) /\ n.live = m.live \ {x} /\ \A y \in Node \ {x} : Same(after, n, y)
  BY <1>6, FreedHeap
<1>. HIDE DEF n
<1>8. ASSUME NEW y \in Node \ {w[k]}
      PROVE  /\ n.node[y].prev = IF k < Len(w) /\ y = w[k + 1] THEN m.node[w[k]].prev ELSE m.node[y].prev
             /\ n.node[y].next = IF k > 1 /\ y = w[k - 1] THEN m.node[w[k]].next ELSE m.node[y].next
             /\ n.node[y].data = m.node[y].data
  <2>1. y \in Node \ {x} /\ y # NULL
    BY NodeAssumption DEF x
  <2>2. n.node[y].prev = IF y = next THEN prev ELSE m.node[y].prev
    BY <1>6, <1>7, <2>1 DEF Same, Tied
  <2>3. n.node[y].next = IF y = prev THEN next ELSE m.node[y].next
    BY <1>6, <1>7, <2>1 DEF Same, Tied
  <2>4. y = next <=> k < Len(w) /\ y = w[k + 1]
    BY <1>2, <1>3, <2>1
  <2>5. y = prev <=> k > 1 /\ y = w[k - 1]
    BY <1>2, <1>3, <2>1
  <2>6. n.node[y].data = m.node[y].data
    BY <1>6, <1>7, <2>1 DEF Same
  <2>. QED BY <2>2, <2>3, <2>4, <2>5, <2>6 DEF prev, next, x
<1>9. Holds(n, IF x = list THEN next ELSE list, other,
            Without(Entries(m, list), Len(w), k), Entries(m, other))
  <2>1. Heap(n) /\ n.live = m.live \ {w[k]}
    BY <1>7 DEF x
  <2>2. Bypassed(m, n, w, k)
    BY <1>8, <2>1 DEF Bypassed
  <2>3. k \in 1 .. Len(w)
    BY <1>2
  <2>4. Holds(n, IF w[k] = list THEN m.node[w[k]].next ELSE list, other,
              Without(Entries(m, list), Len(w), k), Entries(m, other))
    BY <1>1, <2>2, <2>3, Taken
  <2>. QED BY <2>4 DEF x, next
<1>10. list_remove(m, list, x) = [head |-> IF x = list THEN next ELSE list, mem |-> after]
  BY DEF list_remove, after, before, prev, next
<1>. QED BY <1>2, <1>9, <1>10 DEF x, n

LEMMA FreeHolds ==
  ASSUME NEW m, NEW list, NEW other, Sound(m, list, other)
  PROVE  Holds(list_free_with(m, list).mem, list_free_with(m, list).head, other, <<>>, Entries(m, other))
<1>1. PICK w, v \in Seq(Node) : Apart(m, list, other, w, v)
  BY DEF Sound
<1>2. Heap(m) /\ Walk(m, list) = w /\ w \in Seq(Node)
  BY <1>1, WalkFinds DEF Apart
<1>. DEFINE n == Freed(m, ToSet(w))
<1>3. list_free_with(m, list) = [head |-> NULL, mem |-> n]
  BY <1>2 DEF list_free_with
<1>4. Heap(n) /\ n.live = m.live \ ToSet(w) /\ \A y \in Node \ ToSet(w) : Same(m, n, y)
  BY <1>2, FreedHeap
<1>. HIDE DEF n
<1>5. ToSet(w) = {w[i] : i \in 1 .. Len(w)}
  BY <1>2 DEF ToSet
<1>6. ASSUME NEW j \in 1 .. Len(v) PROVE v[j] \in n.live /\ Same(m, n, v[j])
  <2>1. v[j] \in m.live /\ v[j] \in Node /\ \A i \in 1 .. Len(w) : w[i] # v[j]
    BY <1>1 DEF Apart, Chain
  <2>2. v[j] \notin ToSet(w)
    BY <1>5, <2>1
  <2>. QED BY <1>4, <2>1, <2>2
<1>7. Chain(n, other, v) /\ Entries(n, other) = Entries(m, other)
  BY <1>1, <1>6, ChainKept DEF Apart
<1>8. <<>> \in Seq(Node) /\ Len(<<>>) = 0
  OBVIOUS
<1>9. Chain(n, NULL, <<>>)
  BY <1>8 DEF Chain
<1>10. \A y \in n.live : \E j \in 1 .. Len(v) : v[j] = y
  <2>1. ASSUME NEW y \in n.live PROVE \E j \in 1 .. Len(v) : v[j] = y
    <3>1. y \in m.live /\ y \notin ToSet(w)
      BY <1>4
    <3>2. ~ \E i \in 1 .. Len(w) : w[i] = y
      BY <1>5, <3>1
    <3>. QED BY <1>1, <3>1, <3>2 DEF Apart
  <2>. QED BY <2>1
<1>11. Apart(n, NULL, other, <<>>, v)
  BY <1>4, <1>7, <1>8, <1>9, <1>10 DEF Apart
<1>12. Sound(n, NULL, other)
  BY <1>1, <1>8, <1>11 DEF Sound
<1>13. Entries(n, NULL) = <<>>
  <2>1. Entries(n, NULL) = [i \in 1 .. Len(<<>>) |-> n.node[<<>>[i]].data]
    BY <1>9, ChainEntries
  <2>. QED BY <1>8, <2>1
<1>14. list_free_with(m, list).mem = n /\ list_free_with(m, list).head = NULL
  BY <1>3
<1>. QED BY <1>7, <1>12, <1>13, <1>14 DEF Holds
-----------------------------------------------------------------------------
(* Names and values, no name twice but for its case, and what params.h says of them. *)
Plain(text) == \E T : text \in Seq(T) /\ NUL \notin T
Pairs(d, n) ==
  /\ n \in Nat /\ d = [i \in 1 .. n |-> d[i]]
  /\ \A i \in 1 .. n : d[i] = [key |-> d[i].key, value |-> d[i].value] /\ Plain(d[i].key) /\ Plain(d[i].value)
Unique(d) == \A i, j \in DOMAIN d : Fold(d[i].key) = Fold(d[j].key) => i = j
Good(d) == (\E n \in Nat : Pairs(d, n)) /\ Unique(d)
Field(key, value) == [name |-> Fold(key), value |-> value]

(* A text without a NUL in it, and what is made of such texts. *)
LEMMA GivenPlain == ASSUME NEW text \in Key \cup Value \cup Query PROVE Plain(text)
BY TextAssumption DEF Plain

LEMMA OnePlain == ASSUME NEW c, c # NUL PROVE Plain(<<c>>)
<1>. DEFINE T == {c}
<1>1. c \in T /\ NUL \notin T
  OBVIOUS
<1>. HIDE DEF T
<1>2. <<c>> \in Seq(T)
  BY <1>1
<1>. QED BY <1>1, <1>2 DEF Plain

LEMMA BothPlain == ASSUME NEW a, Plain(a), NEW b, Plain(b) PROVE Plain(a \o b)
<1>1. PICK S : a \in Seq(S) /\ NUL \notin S
  BY DEF Plain
<1>2. PICK T : b \in Seq(T) /\ NUL \notin T
  BY DEF Plain
<1>. DEFINE U == S \cup T
<1>3. a \in Seq(U) /\ b \in Seq(U) /\ NUL \notin U
  BY <1>1, <1>2
<1>. HIDE DEF U
<1>4. a \o b \in Seq(U)
  BY <1>3, ConcatProperties
<1>. QED BY <1>3, <1>4 DEF Plain

LEMMA CommaPlain == ASSUME NEW a, Plain(a), NEW b, Plain(b) PROVE Plain(a \o <<",">> \o b)
<1>1. Plain(<<",">>)
  BY OnePlain DEF NUL
<1>2. Plain(a \o <<",">>)
  BY <1>1, BothPlain
<1>. QED BY <1>2, BothPlain

(* The value at a place of d is y. *)
Valued(d, k, y) == [d EXCEPT ![k] = [key |-> d[k].key, value |-> y]]

LEMMA ValuedGood ==
  ASSUME NEW d, Good(d), NEW k \in DOMAIN d, NEW y, Plain(y)
  PROVE  /\ Good(Valued(d, k, y))
         /\ FieldsOf(Valued(d, k, y)) = [i \in DOMAIN d |-> IF i = k THEN Field(d[k].key, y) ELSE FieldsOf(d)[i]]
<1>. DEFINE u == Valued(d, k, y)
<1>1. PICK n \in Nat : Pairs(d, n)
  BY DEF Good
<1>2. DOMAIN d = 1 .. n /\ d = [i \in 1 .. n |-> d[i]]
  BY <1>1 DEF Pairs
<1>3. /\ DOMAIN u = 1 .. n /\ u = [i \in 1 .. n |-> u[i]]
      /\ \A i \in 1 .. n : u[i] = IF i = k THEN [key |-> d[k].key, value |-> y] ELSE d[i]
  BY <1>2 DEF Valued
<1>. HIDE DEF u
<1>4. \A i \in 1 .. n : u[i].key = d[i].key /\ u[i].value = IF i = k THEN y ELSE d[i].value
  BY <1>3
<1>5. \A i \in 1 .. n : u[i] = [key |-> u[i].key, value |-> u[i].value]
  BY <1>1, <1>3 DEF Pairs
<1>6. Good(u)
  <2>0. \A i \in 1 .. n : Plain(u[i].key) /\ Plain(u[i].value)
    BY <1>1, <1>4 DEF Pairs
  <2>1. Pairs(u, n)
    BY <1>3, <1>5, <2>0 DEF Pairs
  <2>2. ASSUME NEW i \in 1 .. n, NEW j \in 1 .. n, Fold(u[i].key) = Fold(u[j].key) PROVE i = j
    <3>1. Fold(d[i].key) = Fold(d[j].key)
      BY <1>4, <2>2
    <3>. QED BY <1>2, <3>1 DEF Good, Unique
  <2>3. Unique(u)
    BY <1>3, <2>2 DEF Unique
  <2>. QED BY <2>1, <2>3 DEF Good
<1>7. \A i \in 1 .. n : Field(u[i].key, u[i].value) = IF i = k THEN Field(d[k].key, y) ELSE FieldsOf(d)[i]
  BY <1>2, <1>4 DEF Field, FieldsOf
<1>8. FieldsOf(u) = [i \in 1 .. n |-> Field(u[i].key, u[i].value)]
  BY <1>3 DEF FieldsOf, Field
<1>9. FieldsOf(u) = [i \in 1 .. n |-> IF i = k THEN Field(d[k].key, y) ELSE FieldsOf(d)[i]]
  BY <1>7, <1>8
<1>. QED BY <1>2, <1>6, <1>9 DEF u

LEMMA AddedGood ==
  ASSUME NEW d, Good(d), NEW key, Plain(key), \A i \in DOMAIN d : Fold(d[i].key) # Fold(key),
         NEW value, Plain(value)
  PROVE  LET u == Append(d, [key |-> key, value |-> value]) IN
         Good(u) /\ FieldsOf(u) = Append(FieldsOf(d), Field(key, value))
<1>. DEFINE e == [key |-> key, value |-> value]
            u == Append(d, e)
            f == FieldsOf(d)
<1>1. PICK n \in Nat : Pairs(d, n)
  BY DEF Good
<1>2. DOMAIN d = 1 .. n /\ d = [i \in 1 .. n |-> d[i]]
  BY <1>1 DEF Pairs
<1>3. e.key = key /\ e.value = value /\ e = [key |-> e.key, value |-> e.value]
  OBVIOUS
<1>. HIDE DEF e
<1>4. u = [i \in 1 .. n + 1 |-> IF i = n + 1 THEN e ELSE d[i]]
  BY <1>2, AppendIs
<1>5. DOMAIN u = 1 .. n + 1 /\ u = [i \in 1 .. n + 1 |-> u[i]]
      /\ u[n + 1] = e /\ \A i \in 1 .. n : u[i] = d[i]
  BY <1>4
<1>. HIDE DEF u
<1>6. ASSUME NEW i \in 1 .. n + 1
      PROVE  u[i] = [key |-> u[i].key, value |-> u[i].value] /\ Plain(u[i].key) /\ Plain(u[i].value)
  <2>1. i = n + 1 \/ i \in 1 .. n
    OBVIOUS
  <2>. QED BY <1>1, <1>3, <1>5, <2>1 DEF Pairs
<1>7. ASSUME NEW i \in 1 .. n + 1, NEW j \in 1 .. n + 1, Fold(u[i].key) = Fold(u[j].key) PROVE i = j
  <2>1. (i = n + 1 \/ i \in 1 .. n) /\ (j = n + 1 \/ j \in 1 .. n)
    OBVIOUS
  <2>. QED BY <1>2, <1>3, <1>5, <1>7, <2>1 DEF Good, Unique
<1>8. Good(u)
  <2>1. n + 1 \in Nat
    OBVIOUS
  <2>2. Pairs(u, n + 1)
    BY <1>5, <1>6, <2>1 DEF Pairs
  <2>3. Unique(u)
    BY <1>5, <1>7 DEF Unique
  <2>. QED BY <2>1, <2>2, <2>3 DEF Good
<1>9. f = [i \in 1 .. n |-> f[i]] /\ \A i \in 1 .. n : f[i] = Field(d[i].key, d[i].value)
  BY <1>2 DEF FieldsOf, Field
<1>. HIDE DEF f
<1>10. Append(f, Field(key, value)) = [i \in 1 .. n + 1 |-> IF i = n + 1 THEN Field(key, value) ELSE f[i]]
  BY <1>9, AppendIs
<1>11. FieldsOf(u) = [i \in 1 .. n + 1 |-> Field(u[i].key, u[i].value)]
  BY <1>5 DEF FieldsOf, Field
<1>12. ASSUME NEW i \in 1 .. n + 1
       PROVE  Field(u[i].key, u[i].value) = IF i = n + 1 THEN Field(key, value) ELSE f[i]
  <2>1. i = n + 1 \/ i \in 1 .. n
    OBVIOUS
  <2>. QED BY <1>3, <1>5, <1>9, <2>1
<1>. QED BY <1>8, <1>10, <1>11, <1>12 DEF e, u, f

LEMMA WithoutGood ==
  ASSUME NEW d, NEW n, Pairs(d, n), Unique(d), NEW k \in 1 .. n
  PROVE  Good(Without(d, n, k)) /\ FieldsOf(Without(d, n, k)) = RemoveAt(FieldsOf(d), k)
<1>. DEFINE u == Without(d, n, k)
            f == FieldsOf(d)
            from(i) == IF i < k THEN i ELSE i + 1
<1>1. n \in Nat /\ DOMAIN d = 1 .. n /\ n - 1 \in Nat
  BY DEF Pairs
<1>2. \A i \in 1 .. n - 1 : from(i) \in 1 .. n
  BY <1>1
<1>3. \A i, j \in 1 .. n - 1 : from(i) = from(j) => i = j
  BY <1>1
<1>4. DOMAIN u = 1 .. n - 1 /\ u = [i \in 1 .. n - 1 |-> u[i]] /\ \A i \in 1 .. n - 1 : u[i] = d[from(i)]
  BY DEF Without
<1>5. f = [i \in 1 .. n |-> f[i]] /\ \A i \in 1 .. n : f[i] = Field(d[i].key, d[i].value)
  BY <1>1 DEF FieldsOf, Field
<1>. HIDE DEF f
<1>6. RemoveAt(f, k) = [i \in 1 .. n - 1 |-> f[from(i)]]
  BY <1>1, <1>5, RemoveIs DEF Without
<1>. HIDE DEF u, from
<1>7. \A i \in 1 .. n - 1 :
         u[i] = [key |-> u[i].key, value |-> u[i].value] /\ Plain(u[i].key) /\ Plain(u[i].value)
  BY <1>2, <1>4 DEF Pairs
<1>8. Good(u)
  <2>1. ASSUME NEW i \in 1 .. n - 1, NEW j \in 1 .. n - 1, Fold(u[i].key) = Fold(u[j].key) PROVE i = j
    <3>1. from(i) = from(j)
      BY <1>1, <1>2, <1>4, <2>1 DEF Unique
    <3>. QED BY <1>3, <3>1
  <2>2. Pairs(u, n - 1)
    BY <1>1, <1>4, <1>7 DEF Pairs
  <2>3. Unique(u)
    BY <1>4, <2>1 DEF Unique
  <2>. QED BY <1>1, <2>2, <2>3 DEF Good
<1>9. FieldsOf(u) = [i \in 1 .. n - 1 |-> Field(u[i].key, u[i].value)]
  BY <1>4 DEF FieldsOf, Field
<1>10. \A i \in 1 .. n - 1 : Field(u[i].key, u[i].value) = f[from(i)]
  BY <1>2, <1>4, <1>5
<1>. QED BY <1>6, <1>8, <1>9, <1>10 DEF u, f

(* Which field of that name there is. *)
LEMMA NamedIs ==
  ASSUME NEW d, Unique(d), NEW key
  PROVE  LET named == F!Named(FieldsOf(d), Fold(key)) IN
         /\ named \subseteq DOMAIN d /\ DOMAIN FieldsOf(d) = DOMAIN d
         /\ named = {} <=> \A i \in DOMAIN d : Fold(d[i].key) # Fold(key)
         /\ \A k \in DOMAIN d : Fold(d[k].key) = Fold(key) => named = {k}
<1>. DEFINE named == F!Named(FieldsOf(d), Fold(key))
<1>1. DOMAIN FieldsOf(d) = DOMAIN d /\ \A i \in DOMAIN d : FieldsOf(d)[i].name = Fold(d[i].key)
  BY DEF FieldsOf
<1>2. named = {i \in DOMAIN d : Fold(d[i].key) = Fold(key)}
  BY <1>1 DEF F!Named
<1>. HIDE DEF named
<1>3. ASSUME NEW k \in DOMAIN d, Fold(d[k].key) = Fold(key) PROVE named = {k}
  BY <1>2, <1>3 DEF Unique
<1>. QED BY <1>1, <1>2, <1>3 DEF named

(* A field that is joined or replaced, in terms of what the list holds. *)
LEMMA JoinedIs ==
  ASSUME NEW d, Good(d), NEW key, Plain(key), NEW value, Plain(value)
  PROVE  LET f == FieldsOf(d)
             joined == F!Joined(f, Fold(key), value)
         IN  /\ (\A i \in DOMAIN d : Fold(d[i].key) # Fold(key)) =>
                   joined = FieldsOf(Append(d, [key |-> key, value |-> value]))
             /\ \A k \in DOMAIN d : Fold(d[k].key) = Fold(key) =>
                   joined = FieldsOf(Valued(d, k, d[k].value \o <<",">> \o value))
<1>. DEFINE f == FieldsOf(d)
            joined == F!Joined(f, Fold(key), value)
            named == F!Named(f, Fold(key))
<1>1. joined = IF named = {} THEN Append(f, [name |-> Fold(key), value |-> value])
               ELSE [i \in DOMAIN f |-> IF i \in named THEN [f[i] EXCEPT !.value = @ \o <<",">> \o value] ELSE f[i]]
  BY DEF F!Joined, F!Change
<1>2. Unique(d)
  BY DEF Good
<1>3. /\ named \subseteq DOMAIN d /\ DOMAIN f = DOMAIN d
      /\ named = {} <=> \A i \in DOMAIN d : Fold(d[i].key) # Fold(key)
      /\ \A k \in DOMAIN d : Fold(d[k].key) = Fold(key) => named = {k}
  BY <1>2, NamedIs
<1>. HIDE DEF joined, named
<1>4. ASSUME \A i \in DOMAIN d : Fold(d[i].key) # Fold(key)
      PROVE  joined = FieldsOf(Append(d, [key |-> key, value |-> value]))
  <2>1. joined = Append(f, Field(key, value))
    BY <1>1, <1>3, <1>4 DEF Field
  <2>. QED BY <1>4, <2>1, AddedGood
<1>5. ASSUME NEW k \in DOMAIN d, Fold(d[k].key) = Fold(key)
      PROVE  joined = FieldsOf(Valued(d, k, d[k].value \o <<",">> \o value))
  <2>. DEFINE y == d[k].value \o <<",">> \o value
  <2>1. f[k] = [name |-> Fold(d[k].key), value |-> d[k].value]
    BY DEF FieldsOf
  <2>2. [f[k] EXCEPT !.value = @ \o <<",">> \o value] = Field(d[k].key, y)
    <3>1. f[k].value \o <<",">> \o value = y
      <4>. HIDE DEF f
      <4>1. f[k].value = d[k].value
        BY <2>1
      <4>. QED BY <4>1
    <3>2. [f[k] EXCEPT !.value = @ \o <<",">> \o value] = [f[k] EXCEPT !.value = y]
      BY <3>1
    <3>. HIDE DEF f, y
    <3>3. [f[k] EXCEPT !.value = y] = [name |-> Fold(d[k].key), value |-> y]
      BY <2>1
    <3>. QED BY <3>2, <3>3 DEF Field
  <2>3. named = {k}
    BY <1>3, <1>5
  <2>4. joined = [i \in DOMAIN d |-> IF i \in {k} THEN [f[i] EXCEPT !.value = @ \o <<",">> \o value] ELSE f[i]]
    BY <1>1, <1>3, <2>3
  <2>. HIDE DEF f, y
  <2>5. joined = [i \in DOMAIN d |-> IF i = k THEN Field(d[k].key, y) ELSE f[i]]
    BY <2>2, <2>4
  <2>6. FieldsOf(Valued(d, k, y)) = [i \in DOMAIN d |-> IF i = k THEN Field(d[k].key, y) ELSE f[i]]
    <3>1. Plain(y)
      BY CommaPlain DEF y, Good, Pairs
    <3>. QED BY <3>1, ValuedGood DEF f
  <2>7. joined = FieldsOf(Valued(d, k, y))
    BY <2>5, <2>6
  <2>. QED BY <2>7 DEF y
<1>. QED BY <1>4, <1>5 DEF joined

LEMMA ReplacedIs ==
  ASSUME NEW d, Good(d), NEW key \in Key, NEW value \in Value
  PROVE  LET replaced == F!Replaced(FieldsOf(d), Fold(key), value) IN
         /\ (\A i \in DOMAIN d : Fold(d[i].key) # Fold(key)) =>
               replaced = FieldsOf(Append(d, [key |-> key, value |-> value]))
         /\ \A k \in DOMAIN d : Fold(d[k].key) = Fold(key) => replaced = FieldsOf(Valued(d, k, value))
<1>. DEFINE f == FieldsOf(d)
            named == F!Named(f, Fold(key))
            replaced == IF named = {} THEN Append(f, [name |-> Fold(key), value |-> value])
                        ELSE [i \in DOMAIN f |-> IF i \in named THEN [f[i] EXCEPT !.value = value] ELSE f[i]]
<1>1. replaced = F!Replaced(f, Fold(key), value)
  BY DEF F!Replaced, F!Change
<1>2. Unique(d)
  BY DEF Good
<1>3. /\ named \subseteq DOMAIN d /\ DOMAIN f = DOMAIN d
      /\ named = {} <=> \A i \in DOMAIN d : Fold(d[i].key) # Fold(key)
      /\ \A k \in DOMAIN d : Fold(d[k].key) = Fold(key) => named = {k}
  BY <1>2, NamedIs
<1>. HIDE DEF named
<1>4. ASSUME \A i \in DOMAIN d : Fold(d[i].key) # Fold(key)
      PROVE  replaced = FieldsOf(Append(d, [key |-> key, value |-> value]))
  <2>1. replaced = Append(f, Field(key, value))
    BY <1>3, <1>4 DEF Field
  <2>2. Plain(key) /\ Plain(value)
    BY GivenPlain
  <2>. QED BY <1>4, <2>1, <2>2, AddedGood
<1>5. ASSUME NEW k \in DOMAIN d, Fold(d[k].key) = Fold(key)
      PROVE  replaced = FieldsOf(Valued(d, k, value))
  <2>1. f[k] = [name |-> Fold(d[k].key), value |-> d[k].value]
    BY DEF FieldsOf
  <2>2. [f[k] EXCEPT !.value = value] = Field(d[k].key, value)
    BY <2>1 DEF Field
  <2>3. named = {k}
    BY <1>3, <1>5
  <2>4. replaced = [i \in DOMAIN d |-> IF i \in {k} THEN [f[i] EXCEPT !.value = value] ELSE f[i]]
    BY <1>3, <2>3
  <2>. HIDE DEF f, replaced
  <2>5. replaced = [i \in DOMAIN d |-> IF i = k THEN Field(d[k].key, value) ELSE f[i]]
    BY <2>2, <2>4
  <2>6. FieldsOf(Valued(d, k, value)) = [i \in DOMAIN d |-> IF i = k THEN Field(d[k].key, value) ELSE f[i]]
    <3>1. Plain(value)
      BY GivenPlain
    <3>. QED BY <3>1, ValuedGood DEF f
  <2>. QED BY <2>5, <2>6
<1>. HIDE DEF replaced
<1>. QED BY <1>1, <1>4, <1>5
-----------------------------------------------------------------------------
(* The calls of params.c on one of two sound lists. *)
Leaves(r, other, f, e) ==
  /\ Sound(r.mem, r.head, other)
  /\ Good(Entries(r.mem, r.head))
  /\ FieldsOf(Entries(r.mem, r.head)) = f
  /\ Entries(r.mem, other) = e

LEMMA MatchIs ==
  ASSUME NEW m, NEW list, NEW w, Chain(m, list, w), NEW name
  PROVE  LET d == Entries(m, list) IN
         /\ DOMAIN d = 1 .. Len(w)
         /\ Match(m, list, name) = {} => \A i \in DOMAIN d : Fold(d[i].key) # Fold(name)
         /\ Match(m, list, name) # {} =>
               \E k \in 1 .. Len(w) : Match(m, list, name) = {w[k]} /\ Fold(d[k].key) = Fold(name)
<1>. DEFINE same == {i \in 1 .. Len(w) : Fold(m.node[w[i]].data.key) = Fold(name)}
            d == Entries(m, list)
<1>1. Walk(m, list) = w /\ w \in Seq(Node)
  <2>1. w \in Seq(Node)
    BY DEF Chain
  <2>. QED BY <2>1, WalkFinds
<1>2. DOMAIN w = 1 .. Len(w) /\ Len(w) \in Nat
  BY <1>1
<1>3. d = [i \in 1 .. Len(w) |-> m.node[w[i]].data]
  BY ChainEntries
<1>4. Match(m, list, name) = IF same = {} THEN {} ELSE {w[Min(same)]}
  BY <1>1, <1>2 DEF Match
<1>5. same \subseteq Nat /\ same \subseteq 1 .. Len(w) /\ \A i \in 1 .. Len(w) : i \in same <=> Fold(d[i].key) = Fold(name)
  BY <1>2, <1>3
<1>. HIDE DEF same, d
<1>6. CASE same = {}
  BY <1>3, <1>4, <1>5, <1>6 DEF d
<1>7. CASE same # {}
  <2>1. Min(same) \in same
    BY <1>5, <1>7, MinLeast
  <2>2. Match(m, list, name) = {w[Min(same)]} /\ Min(same) \in 1 .. Len(w) /\ Fold(d[Min(same)].key) = Fold(name)
    BY <1>4, <1>5, <1>7, <2>1
  <2>. QED BY <1>3, <2>2 DEF d
<1>. QED BY <1>6, <1>7

LEMMA ValueHolds ==
  ASSUME NEW m, NEW list, NEW other, NEW w \in Seq(Node), NEW v \in Seq(Node), Apart(m, list, other, w, v),
         NEW k \in 1 .. Len(w), Good(Entries(m, list)), NEW y
  PROVE  Holds([m EXCEPT !.node[w[k]].data.value = y], list, other,
               Valued(Entries(m, list), k, y), Entries(m, other))
<1>. DEFINE x == w[k]
            d == Entries(m, list)
            data == [m.node[x].data EXCEPT !.value = y]
            n == [m EXCEPT !.node[x].data = data]
<1>1. Heap(m) /\ Chain(m, list, w) /\ x \in Node
  BY DEF Apart
<1>2. d = [i \in 1 .. Len(w) |-> m.node[w[i]].data]
  BY <1>1, ChainEntries
<1>3. m.node[x].data = d[k] /\ k \in DOMAIN d
  BY <1>2
<1>4. d[k] = [key |-> d[k].key, value |-> d[k].value]
  BY <1>3 DEF Good, Pairs
<1>. HIDE DEF d
<1>5. data = [key |-> d[k].key, value |-> y]
  <2>1. data = [[key |-> d[k].key, value |-> d[k].value] EXCEPT !.value = y]
    BY <1>3, <1>4
  <2>. QED BY <2>1
<1>6. [m EXCEPT !.node[x].data.value = y] = n
  OBVIOUS
<1>. HIDE DEF x, data
<1>7. /\ Heap(n) /\ n.live = m.live /\ Tied(m, n, x) /\ n.node[x].data = data
      /\ \A z \in Node \ {x} : Same(m, n, z)
  <2>1. n = DataWritten(m, x, data)
    BY DEF DataWritten
  <2>. HIDE DEF n
  <2>. QED BY <1>1, <2>1, DataSet
<1>. HIDE DEF n
<1>8. Holds(n, list, other, [d EXCEPT ![k] = n.node[w[k]].data], Entries(m, other))
  BY <1>7, DataHolds DEF x, d
<1>9. [d EXCEPT ![k] = n.node[w[k]].data] = Valued(d, k, y)
  BY <1>5, <1>7 DEF Valued, x
<1>. QED BY <1>6, <1>8, <1>9 DEF x, d

LEMMA ParamsAppendLeaves ==
  ASSUME NEW m, NEW list, NEW other, Sound(m, list, other), Good(Entries(m, list)),
         NEW key, Plain(key), NEW value, Plain(value), NEW r \in params_append(m, list, key, value)
  PROVE  Leaves(r, other, F!Joined(FieldsOf(Entries(m, list)), Fold(key), value), Entries(m, other))
<1>. DEFINE d == Entries(m, list)
<1>1. PICK w, v \in Seq(Node) : Apart(m, list, other, w, v)
  BY DEF Sound
<1>2. /\ DOMAIN d = 1 .. Len(w)
      /\ Match(m, list, key) = {} => \A i \in DOMAIN d : Fold(d[i].key) # Fold(key)
      /\ Match(m, list, key) # {} =>
            \E k \in 1 .. Len(w) : Match(m, list, key) = {w[k]} /\ Fold(d[k].key) = Fold(key)
  <2>1. Chain(m, list, w)
    BY <1>1 DEF Apart
  <2>. QED BY <2>1, MatchIs
<1>3. CASE Match(m, list, key) = {}
  <2>1. r \in list_append(m, list, [key |-> key, value |-> value])
    BY <1>3 DEF params_append, params_add
  <2>2. Holds(r.mem, r.head, other, Append(d, [key |-> key, value |-> value]), Entries(m, other))
    BY <2>1, AppendHolds
  <2>3. \A i \in DOMAIN d : Fold(d[i].key) # Fold(key)
    BY <1>2, <1>3
  <2>. HIDE DEF d
  <2>4. Good(Append(d, [key |-> key, value |-> value]))
    BY <2>3, AddedGood DEF d
  <2>5. F!Joined(FieldsOf(d), Fold(key), value) = FieldsOf(Append(d, [key |-> key, value |-> value]))
    BY <2>3, JoinedIs DEF d
  <2>. QED BY <2>2, <2>4, <2>5 DEF Holds, Leaves, d
<1>4. CASE Match(m, list, key) # {}
  <2>1. PICK k \in 1 .. Len(w) : Match(m, list, key) = {w[k]} /\ Fold(d[k].key) = Fold(key)
    BY <1>2, <1>4
  <2>2. PICK x \in Match(m, list, key) :
           r = [head |-> list, mem |-> [m EXCEPT !.node[x].data.value = @ \o <<",">> \o value]]
    BY <1>4 DEF params_append
  <2>3. x = w[k]
    BY <2>1, <2>2
  <2>. DEFINE y == d[k].value \o <<",">> \o value
              n == [m EXCEPT !.node[w[k]].data.value = y]
  <2>4. m.node[w[k]].data = d[k]
    BY <1>1, ChainEntries DEF Apart
  <2>5. r.head = list /\ r.mem = [m EXCEPT !.node[w[k]].data.value = @ \o <<",">> \o value]
    BY <2>2, <2>3
  <2>6. r.mem = n
    BY <2>4, <2>5
  <2>. HIDE DEF d, y
  <2>7. Holds(n, list, other, Valued(d, k, y), Entries(m, other))
    BY <1>1, ValueHolds DEF d
  <2>8. Good(Valued(d, k, y))
    <3>1. Plain(d[k].value)
      BY <1>2 DEF Good, Pairs, d
    <3>2. Plain(y)
      BY <3>1, CommaPlain DEF y
    <3>. QED BY <1>2, <3>2, ValuedGood DEF d
  <2>9. F!Joined(FieldsOf(d), Fold(key), value) = FieldsOf(Valued(d, k, y))
    <3>1. \A i \in DOMAIN d : Fold(d[i].key) = Fold(key) =>
             F!Joined(FieldsOf(d), Fold(key), value) = FieldsOf(Valued(d, i, d[i].value \o <<",">> \o value))
      BY JoinedIs DEF d
    <3>. QED BY <1>2, <2>1, <3>1 DEF y
  <2>. HIDE DEF n
  <2>. QED BY <2>5, <2>6, <2>7, <2>8, <2>9 DEF Holds, Leaves, d
<1>. QED BY <1>3, <1>4

LEMMA ParamsReplaceLeaves ==
  ASSUME NEW m, NEW list, NEW other, Sound(m, list, other), Good(Entries(m, list)),
         NEW key \in Key, NEW value \in Value, NEW r \in params_replace(m, list, key, value)
  PROVE  Leaves(r, other, F!Replaced(FieldsOf(Entries(m, list)), Fold(key), value), Entries(m, other))
<1>. DEFINE d == Entries(m, list)
<1>1. PICK w, v \in Seq(Node) : Apart(m, list, other, w, v)
  BY DEF Sound
<1>2. /\ DOMAIN d = 1 .. Len(w)
      /\ Match(m, list, key) = {} => \A i \in DOMAIN d : Fold(d[i].key) # Fold(key)
      /\ Match(m, list, key) # {} =>
            \E k \in 1 .. Len(w) : Match(m, list, key) = {w[k]} /\ Fold(d[k].key) = Fold(key)
  <2>1. Chain(m, list, w)
    BY <1>1 DEF Apart
  <2>. QED BY <2>1, MatchIs
<1>3. CASE Match(m, list, key) = {}
  <2>1. r \in list_append(m, list, [key |-> key, value |-> value])
    BY <1>3 DEF params_replace, params_add
  <2>2. Holds(r.mem, r.head, other, Append(d, [key |-> key, value |-> value]), Entries(m, other))
    BY <2>1, AppendHolds
  <2>3. \A i \in DOMAIN d : Fold(d[i].key) # Fold(key)
    BY <1>2, <1>3
  <2>. HIDE DEF d
  <2>4. Good(Append(d, [key |-> key, value |-> value]))
    BY <2>3, GivenPlain, AddedGood DEF d
  <2>5. F!Replaced(FieldsOf(d), Fold(key), value) = FieldsOf(Append(d, [key |-> key, value |-> value]))
    BY <2>3, ReplacedIs DEF d
  <2>. QED BY <2>2, <2>4, <2>5 DEF Holds, Leaves, d
<1>4. CASE Match(m, list, key) # {}
  <2>1. PICK k \in 1 .. Len(w) : Match(m, list, key) = {w[k]} /\ Fold(d[k].key) = Fold(key)
    BY <1>2, <1>4
  <2>2. PICK x \in Match(m, list, key) :
           r = [head |-> list, mem |-> [m EXCEPT !.node[x].data.value = value]]
    BY <1>4 DEF params_replace
  <2>3. x = w[k]
    BY <2>1, <2>2
  <2>. DEFINE n == [m EXCEPT !.node[w[k]].data.value = value]
  <2>4. r.head = list /\ r.mem = n
    BY <2>2, <2>3
  <2>. HIDE DEF d
  <2>5. Holds(n, list, other, Valued(d, k, value), Entries(m, other))
    BY <1>1, ValueHolds DEF d
  <2>6. Good(Valued(d, k, value))
    BY <1>2, GivenPlain, ValuedGood DEF d
  <2>7. F!Replaced(FieldsOf(d), Fold(key), value) = FieldsOf(Valued(d, k, value))
    BY <1>2, <2>1, ReplacedIs DEF d
  <2>. HIDE DEF n
  <2>. QED BY <2>4, <2>5, <2>6, <2>7 DEF Holds, Leaves, d
<1>. QED BY <1>3, <1>4

(* A name in another spelling is not removed. *)
Remains(d, key) ==
  IF \E i \in DOMAIN d : d[i].key = key THEN F!Removed(FieldsOf(d), Fold(key)) ELSE FieldsOf(d)

LEMMA ParamsRemoveLeaves ==
  ASSUME NEW m, NEW list, NEW other, Sound(m, list, other), Good(Entries(m, list)), NEW key \in Key
  PROVE  Leaves(params_remove(m, list, key), other, Remains(Entries(m, list), key), Entries(m, other))
<1>. DEFINE walk == Walk(m, list)
            d == Entries(m, list)
            same == {i \in DOMAIN walk : m.node[walk[i]].data.key = key}
            x == walk[Min(same)]
            rest == list_remove(m, list, x)
            spelt == \E i \in DOMAIN d : d[i].key = key
<1>0. spelt <=> same # {}
  <2>1. DOMAIN d = DOMAIN walk /\ \A i \in DOMAIN walk : d[i] = m.node[walk[i]].data
    BY DEF Entries
  <2>. HIDE DEF d, walk
  <2>. QED BY <2>1
<1>1. CASE same = {}
  <2>1. params_remove(m, list, key) = [head |-> list, mem |-> m]
    BY <1>1 DEF params_remove
  <2>2. ~ spelt
    BY <1>0, <1>1
  <2>3. Leaves(params_remove(m, list, key), other, FieldsOf(d), Entries(m, other))
    BY <2>1 DEF Leaves
  <2>4. Remains(d, key) = FieldsOf(d)
    BY <2>2 DEF Remains
  <2>. QED BY <2>3, <2>4
<1>2. CASE same # {}
  <2>1. params_remove(m, list, key) = [rest EXCEPT !.mem = Freed(@, {x})]
    BY <1>2 DEF params_remove
  <2>2. rest = [head |-> rest.head, mem |-> rest.mem]
    BY DEF list_remove
  <2>3. PICK w, v \in Seq(Node) : Apart(m, list, other, w, v)
    BY DEF Sound
  <2>4. walk = w /\ d = [i \in 1 .. Len(w) |-> m.node[w[i]].data] /\ Len(w) \in Nat /\ DOMAIN w = 1 .. Len(w)
    BY <2>3, WalkFinds, ChainEntries DEF Apart
  <2>5. /\ same \subseteq DOMAIN walk /\ same \subseteq Nat
        /\ \A i \in same : d[i].key = key
    BY <2>4
  <2>. DEFINE k == Min(same)
  <2>. HIDE DEF same, walk
  <2>6. k \in same
    BY <1>2, <2>5, MinLeast
  <2>. HIDE DEF k
  <2>7. k \in DOMAIN walk /\ d[k].key = key
    BY <2>5, <2>6
  <2>8. Holds(Freed(rest.mem, {x}), rest.head, other, Without(d, Len(walk), k), Entries(m, other))
    BY <2>7, RemoveHolds DEF walk, k
  <2>9. k \in 1 .. Len(w) /\ DOMAIN d = 1 .. Len(w)
    BY <2>4, <2>7
  <2>. HIDE DEF d, rest, x
  <2>10. Unique(d) /\ Pairs(d, Len(w))
    <3>1. PICK n \in Nat : Pairs(d, n)
      BY DEF Good, d
    <3>2. DOMAIN d = 1 .. n
      BY <3>1 DEF Pairs
    <3>3. n = Len(w)
      <4>1. Len(w) \in Nat /\ n \in Nat /\ 1 .. n = 1 .. Len(w)
        BY <2>4, <2>9, <3>2
      <4>2. ~ (n < Len(w))
        BY <4>1
      <4>3. ~ (Len(w) < n)
        BY <4>1
      <4>. QED BY <4>1, <4>2, <4>3
    <3>. QED BY <3>1, <3>3 DEF Good, d
  <2>11. Good(Without(d, Len(w), k)) /\ FieldsOf(Without(d, Len(w), k)) = RemoveAt(FieldsOf(d), k)
    BY <2>9, <2>10, WithoutGood
  <2>12. F!Removed(FieldsOf(d), Fold(key)) = RemoveAt(FieldsOf(d), k)
    <3>1. k \in DOMAIN d /\ Fold(d[k].key) = Fold(key)
      BY <2>7, <2>9
    <3>2. F!Named(FieldsOf(d), Fold(key)) = {k}
      BY <2>10, <3>1, NamedIs
    <3>. HIDE DEF k
    <3>. QED BY <3>2 DEF F!Removed, F!RemoveAt, RemoveAt
  <2>13. /\ params_remove(m, list, key).mem = Freed(rest.mem, {x})
         /\ params_remove(m, list, key).head = rest.head
    BY <2>1, <2>2
  <2>14. Leaves(params_remove(m, list, key), other, F!Removed(FieldsOf(d), Fold(key)), Entries(m, other))
    BY <2>4, <2>8, <2>11, <2>12, <2>13 DEF Holds, Leaves, d
  <2>15. Remains(d, key) = F!Removed(FieldsOf(d), Fold(key))
    <3>1. spelt
      BY <1>0, <1>2
    <3>. QED BY <3>1 DEF Remains
  <2>. QED BY <2>14, <2>15 DEF d
<1>. QED BY <1>1, <1>2

(* Fields that are appended one after the other: a fold over a sequence is a recursive
   function on the sets of its indices, the last index first. *)
Appended(results, entry) == UNION {params_append(r.mem, r.head, entry.key, entry.value) : r \in results}
FoldsTo(f, S, base, seq) ==
  f = [T \in SUBSET S |-> IF T = {} THEN base ELSE Appended(f[T \ {Max(T)}], seq[Max(T)])]

LEMMA FoldExists ==
  ASSUME NEW len \in Nat, NEW base, NEW seq
  PROVE  \E f : FoldsTo(f, 1 .. len, base, seq)
<1>. DEFINE Bad == {k \in 0 .. len : ~ \E f : FoldsTo(f, 1 .. k, base, seq)}
<1>1. ASSUME Bad # {} PROVE FALSE
  <2>1. PICK k \in Bad : \A i \in Bad : k <= i
    <3>1. Bad \subseteq Nat
      OBVIOUS
    <3>. HIDE DEF Bad
    <3>. QED BY <1>1, <3>1, LeastNatural
  <2>2. k \in 0 .. len /\ ~ \E f : FoldsTo(f, 1 .. k, base, seq)
    BY <2>1
  <2>3. CASE k = 0
    <3>. DEFINE f == [T \in SUBSET (1 .. k) |-> base]
    <3>1. \A T \in SUBSET (1 .. k) : T = {}
      BY <2>3
    <3>2. FoldsTo(f, 1 .. k, base, seq)
      BY <3>1 DEF FoldsTo
    <3>. QED BY <2>2, <3>2
  <2>4. CASE k # 0
    <3>1. k - 1 \in 0 .. len /\ ~ (k <= k - 1)
      BY <2>2, <2>4
    <3>2. PICK f : FoldsTo(f, 1 .. k - 1, base, seq)
      BY <2>1, <3>1
    <3>. DEFINE g == [T \in SUBSET (1 .. k) |-> IF k \in T THEN Appended(f[T \ {k}], seq[k]) ELSE f[T]]
    <3>3. ASSUME NEW T \in SUBSET (1 .. k)
          PROVE  g[T] = IF T = {} THEN base ELSE Appended(g[T \ {Max(T)}], seq[Max(T)])
      <4>1. CASE k \in T
        <5>1. Max(T) = k
          <6>1. T # {} /\ T \subseteq 0 .. k /\ k \in Nat
            BY <2>2, <4>1
          <6>2. Max(T) \in T /\ \A y \in T : y <= Max(T)
            BY <6>1, MaxGreatest
          <6>3. Max(T) \in 0 .. k /\ k <= Max(T)
            BY <4>1, <6>1, <6>2
          <6>. QED BY <2>2, <6>3
        <5>2. T \ {k} \in SUBSET (1 .. k) /\ k \notin T \ {k}
          OBVIOUS
        <5>3. g[T \ {k}] = f[T \ {k}]
          BY <5>2
        <5>. QED BY <4>1, <5>1, <5>3
      <4>2. CASE k \notin T
        <5>1. T \in SUBSET (1 .. k - 1)
          BY <2>2, <4>2
        <5>2. g[T] = f[T] /\ f[T] = IF T = {} THEN base ELSE Appended(f[T \ {Max(T)}], seq[Max(T)])
          BY <3>2, <4>2, <5>1 DEF FoldsTo
        <5>3. T \ {Max(T)} \in SUBSET (1 .. k) /\ k \notin T \ {Max(T)}
          BY <4>2
        <5>4. g[T \ {Max(T)}] = f[T \ {Max(T)}]
          BY <5>3
        <5>. QED BY <5>2, <5>4
      <4>. QED BY <4>1, <4>2
    <3>4. g = [T \in SUBSET (1 .. k) |-> g[T]]
      OBVIOUS
    <3>. HIDE DEF g
    <3>5. FoldsTo(g, 1 .. k, base, seq)
      BY <3>3, <3>4 DEF FoldsTo
    <3>. QED BY <2>2, <3>5
  <2>. QED BY <2>3, <2>4
<1>2. len \in 0 .. len
  OBVIOUS
<1>. QED BY <1>1, <1>2

(* And the fields that are joined. *)
JoinedTo(all, field) == F!Joined(all, field.name, field.value)
JoinsTo(f, S, base, seq) ==
  f = [T \in SUBSET S |-> IF T = {} THEN base ELSE JoinedTo(f[T \ {Max(T)}], seq[Max(T)])]

LEMMA JoinExists ==
  ASSUME NEW len \in Nat, NEW base, NEW seq
  PROVE  \E f : JoinsTo(f, 1 .. len, base, seq)
<1>. DEFINE Bad == {k \in 0 .. len : ~ \E f : JoinsTo(f, 1 .. k, base, seq)}
<1>1. ASSUME Bad # {} PROVE FALSE
  <2>1. PICK k \in Bad : \A i \in Bad : k <= i
    <3>1. Bad \subseteq Nat
      OBVIOUS
    <3>. HIDE DEF Bad
    <3>. QED BY <1>1, <3>1, LeastNatural
  <2>2. k \in 0 .. len /\ ~ \E f : JoinsTo(f, 1 .. k, base, seq)
    BY <2>1
  <2>3. CASE k = 0
    <3>. DEFINE f == [T \in SUBSET (1 .. k) |-> base]
    <3>1. \A T \in SUBSET (1 .. k) : T = {}
      BY <2>3
    <3>2. JoinsTo(f, 1 .. k, base, seq)
      BY <3>1 DEF JoinsTo
    <3>. QED BY <2>2, <3>2
  <2>4. CASE k # 0
    <3>1. k - 1 \in 0 .. len /\ ~ (k <= k - 1)
      BY <2>2, <2>4
    <3>2. PICK f : JoinsTo(f, 1 .. k - 1, base, seq)
      BY <2>1, <3>1
    <3>. DEFINE g == [T \in SUBSET (1 .. k) |-> IF k \in T THEN JoinedTo(f[T \ {k}], seq[k]) ELSE f[T]]
    <3>3. ASSUME NEW T \in SUBSET (1 .. k)
          PROVE  g[T] = IF T = {} THEN base ELSE JoinedTo(g[T \ {Max(T)}], seq[Max(T)])
      <4>1. CASE k \in T
        <5>1. Max(T) = k
          <6>1. T # {} /\ T \subseteq 0 .. k /\ k \in Nat
            BY <2>2, <4>1
          <6>2. Max(T) \in T /\ \A y \in T : y <= Max(T)
            BY <6>1, MaxGreatest
          <6>3. Max(T) \in 0 .. k /\ k <= Max(T)
            BY <4>1, <6>1, <6>2
          <6>. QED BY <2>2, <6>3
        <5>2. T \ {k} \in SUBSET (1 .. k) /\ k \notin T \ {k}
          OBVIOUS
        <5>3. g[T \ {k}] = f[T \ {k}]
          BY <5>2
        <5>. QED BY <4>1, <5>1, <5>3
      <4>2. CASE k \notin T
        <5>1. T \in SUBSET (1 .. k - 1)
          BY <2>2, <4>2
        <5>2. g[T] = f[T] /\ f[T] = IF T = {} THEN base ELSE JoinedTo(f[T \ {Max(T)}], seq[Max(T)])
          BY <3>2, <4>2, <5>1 DEF JoinsTo
        <5>3. T \ {Max(T)} \in SUBSET (1 .. k) /\ k \notin T \ {Max(T)}
          BY <4>2
        <5>4. g[T \ {Max(T)}] = f[T \ {Max(T)}]
          BY <5>3
        <5>. QED BY <5>2, <5>4
      <4>. QED BY <4>1, <4>2
    <3>4. g = [T \in SUBSET (1 .. k) |-> g[T]]
      OBVIOUS
    <3>. HIDE DEF g
    <3>5. JoinsTo(g, 1 .. k, base, seq)
      BY <3>3, <3>4 DEF JoinsTo
    <3>. QED BY <2>2, <3>5
  <2>. QED BY <2>3, <2>4
<1>2. len \in 0 .. len
  OBVIOUS
<1>. QED BY <1>1, <1>2

LEMMA FoldLeaves ==
  ASSUME NEW len \in Nat, NEW seq, DOMAIN seq = 1 .. len,
         \A i \in 1 .. len : Plain(seq[i].key) /\ Plain(seq[i].value),
         NEW base, NEW other, NEW e, NEW fields,
         \A r \in base : Leaves(r, other, fields, e)
  PROVE  \A r \in FoldLeft(LAMBDA results, entry :
                              UNION {params_append(q.mem, q.head, entry.key, entry.value) : q \in results},
                           base, seq) :
            Leaves(r, other, F!FoldLeft(LAMBDA all, field : F!Joined(all, field.name, field.value),
                                        fields, FieldsOf(seq)), e)
<1>. DEFINE iter == CHOOSE f : FoldsTo(f, DOMAIN seq, base, seq)
            g == FieldsOf(seq)
            join == CHOOSE f : JoinsTo(f, DOMAIN g, fields, g)
            Holding(T) == \A r \in iter[T] : Leaves(r, other, join[T], e)
            Bad == {k \in 0 .. len : \E T \in SUBSET (1 .. k) : ~ Holding(T)}
<1>1. FoldLeft(LAMBDA results, entry :
                  UNION {params_append(q.mem, q.head, entry.key, entry.value) : q \in results},
               base, seq) = iter[DOMAIN seq]
  BY DEF FoldLeft, MapThenFoldSet, FoldsTo, Appended
<1>2. F!FoldLeft(LAMBDA all, field : F!Joined(all, field.name, field.value), fields, g) = join[DOMAIN g]
  BY DEF F!FoldLeft, F!MapThenFoldSet, JoinsTo, JoinedTo, F!Max, Max
<1>3. FoldsTo(iter, 1 .. len, base, seq)
  BY FoldExists
<1>4. DOMAIN g = 1 .. len /\ \A i \in 1 .. len : g[i].name = Fold(seq[i].key) /\ g[i].value = seq[i].value
  BY DEF FieldsOf
<1>. HIDE DEF g
<1>5. JoinsTo(join, 1 .. len, fields, g)
  BY <1>4, JoinExists
<1>. HIDE DEF iter, join
<1>6. ASSUME Bad # {} PROVE FALSE
  <2>1. PICK k \in Bad : \A i \in Bad : k <= i
    <3>1. Bad \subseteq Nat
      OBVIOUS
    <3>. HIDE DEF Bad
    <3>. QED BY <1>6, <3>1, LeastNatural
  <2>2. PICK T \in SUBSET (1 .. k) : ~ Holding(T)
    BY <2>1
  <2>3. k \in 0 .. len
    BY <2>1
  <2>4. T \in SUBSET (1 .. len)
    BY <2>3
  <2>5. iter[T] = IF T = {} THEN base ELSE Appended(iter[T \ {Max(T)}], seq[Max(T)])
    BY <1>3, <2>4 DEF FoldsTo
  <2>6. join[T] = IF T = {} THEN fields ELSE JoinedTo(join[T \ {Max(T)}], g[Max(T)])
    BY <1>5, <2>4 DEF JoinsTo
  <2>7. T # {}
    BY <2>2, <2>5, <2>6
  <2>. DEFINE x == Max(T)
  <2>8. x \in T /\ \A y \in T : y <= x
    <3>1. T \subseteq 0 .. k /\ k \in Nat
      BY <2>3
    <3>. QED BY <2>7, <3>1, MaxGreatest
  <2>. HIDE DEF x
  <2>9. x \in 1 .. k /\ x \in 1 .. len /\ x - 1 \in 0 .. len /\ ~ (k <= x - 1)
    BY <2>3, <2>8
  <2>10. T \ {x} \in SUBSET (1 .. x - 1)
    BY <2>3, <2>8, <2>9
  <2>11. Holding(T \ {x})
    BY <2>1, <2>9, <2>10
  <2>12. ASSUME NEW r \in iter[T] PROVE Leaves(r, other, join[T], e)
    <3>1. r \in Appended(iter[T \ {x}], seq[x])
      BY <2>5, <2>7 DEF x
    <3>2. PICK q \in iter[T \ {x}] : r \in params_append(q.mem, q.head, seq[x].key, seq[x].value)
      BY <3>1 DEF Appended
    <3>3. Leaves(q, other, join[T \ {x}], e)
      BY <2>11
    <3>4. Leaves(r, other, F!Joined(join[T \ {x}], Fold(seq[x].key), seq[x].value), e)
      <4>1. Plain(seq[x].key) /\ Plain(seq[x].value)
        BY <2>9
      <4>. QED BY <3>2, <3>3, <4>1, ParamsAppendLeaves DEF Leaves
    <3>5. join[T] = F!Joined(join[T \ {x}], Fold(seq[x].key), seq[x].value)
      BY <1>4, <2>6, <2>7, <2>9 DEF x, JoinedTo
    <3>. QED BY <3>4, <3>5
  <2>. QED BY <2>2, <2>12
<1>7. len \in 0 .. len /\ 1 .. len \in SUBSET (1 .. len)
  OBVIOUS
<1>8. Holding(1 .. len)
  BY <1>6, <1>7
<1>. QED BY <1>1, <1>2, <1>4, <1>8 DEF g
-----------------------------------------------------------------------------
(* The parser gives a sequence of pairs, or does not return. *)
OnePass(was, val_delim, end_delim) ==
  LET pass == Pass(was.text, was.key, val_delim, end_delim)
  IN  IF pass.ends THEN [was EXCEPT !.ends = TRUE]
      ELSE [text  |-> pass.text,
            key   |-> IF pass.field = <<>> THEN was.key ELSE pass.next,
            pairs |-> was.pairs \o pass.field,
            ends  |-> FALSE]
FirstPass(s) == [text |-> s, key |-> 1, pairs |-> <<>>, ends |-> FALSE]
Passes(f, s, len, val_delim, end_delim) ==
  f = [passes \in 0 .. len |-> IF passes = 0 THEN FirstPass(s) ELSE OnePass(f[passes - 1], val_delim, end_delim)]

LEMMA PassesExist ==
  ASSUME NEW len \in Nat, NEW s, NEW vals, NEW ends
  PROVE  \E f : Passes(f, s, len, vals, ends)
<1>. DEFINE Bad == {k \in 0 .. len : ~ \E f : Passes(f, s, k, vals, ends)}
<1>1. ASSUME Bad # {} PROVE FALSE
  <2>1. PICK k \in Bad : \A i \in Bad : k <= i
    <3>1. Bad \subseteq Nat
      OBVIOUS
    <3>. HIDE DEF Bad
    <3>. QED BY <1>1, <3>1, LeastNatural
  <2>2. k \in 0 .. len /\ ~ \E f : Passes(f, s, k, vals, ends)
    BY <2>1
  <2>3. CASE k = 0
    <3>. DEFINE f == [passes \in 0 .. k |-> FirstPass(s)]
    <3>1. \A passes \in 0 .. k : passes = 0
      BY <2>3
    <3>2. Passes(f, s, k, vals, ends)
      BY <3>1 DEF Passes
    <3>. QED BY <2>2, <3>2
  <2>4. CASE k # 0
    <3>1. k - 1 \in 0 .. len /\ ~ (k <= k - 1)
      BY <2>2, <2>4
    <3>2. PICK f : Passes(f, s, k - 1, vals, ends)
      BY <2>1, <3>1
    <3>. DEFINE g == [i \in 0 .. k |-> IF i = k THEN OnePass(f[k - 1], vals, ends) ELSE f[i]]
    <3>3. ASSUME NEW i \in 0 .. k
          PROVE  g[i] = IF i = 0 THEN FirstPass(s) ELSE OnePass(g[i - 1], vals, ends)
      <4>1. CASE i = k
        <5>1. k - 1 \in 0 .. k /\ k - 1 # k
          BY <2>2, <2>4
        <5>2. g[k - 1] = f[k - 1]
          BY <5>1
        <5>. QED BY <2>4, <4>1, <5>2
      <4>2. CASE i # k
        <5>1. i \in 0 .. k - 1 /\ (i # 0 => i - 1 \in 0 .. k /\ i - 1 # k)
          BY <2>2, <4>2
        <5>2. g[i] = f[i] /\ f[i] = IF i = 0 THEN FirstPass(s) ELSE OnePass(f[i - 1], vals, ends)
          BY <3>2, <4>2, <5>1 DEF Passes
        <5>3. i # 0 => g[i - 1] = f[i - 1]
          BY <5>1
        <5>. QED BY <5>2, <5>3
      <4>. QED BY <4>1, <4>2
    <3>4. g = [i \in 0 .. k |-> g[i]]
      OBVIOUS
    <3>. HIDE DEF g
    <3>5. Passes(g, s, k, vals, ends)
      BY <3>3, <3>4 DEF Passes
    <3>. QED BY <2>2, <3>5
  <2>. QED BY <2>3, <2>4
<1>2. len \in 0 .. len
  OBVIOUS
<1>. QED BY <1>1, <1>2

(* What the scans of string.h find is within the text, and what they have passed is none
   of the stops. *)
LEMMA EndWithin ==
  ASSUME NEW s, NEW n \in Nat, Len(s) = n, NEW i \in 1 .. n + 1, NEW stops
  PROVE  /\ End(s, i, stops) \in i .. n + 1
         /\ \A j \in i .. End(s, i, stops) - 1 : s[j] \notin stops
<1>. DEFINE Ends == {j \in i .. n + 1 : j = n + 1 \/ s[j] \in stops}
<1>1. End(s, i, stops) = Min(Ends)
  BY DEF End
<1>2. Ends \subseteq Nat /\ n + 1 \in Ends
  OBVIOUS
<1>3. Min(Ends) \in Ends /\ \A j \in Ends : Min(Ends) <= j
  <2>. HIDE DEF Ends
  <2>. QED BY <1>2, MinLeast
<1>4. ASSUME NEW j \in i .. Min(Ends) - 1, s[j] \in stops PROVE FALSE
  <2>1. Min(Ends) \in i .. n + 1
    BY <1>3
  <2>2. j \in Ends /\ ~ (Min(Ends) <= j)
    BY <1>4, <2>1
  <2>. QED BY <1>3, <2>2
<1>. QED BY <1>1, <1>3, <1>4

LEMMA SpanWithin ==
  ASSUME NEW s, NEW n \in Nat, Len(s) = n, NEW i \in 1 .. n + 1, NEW class
  PROVE  i + strspn(s, i, class) \in i .. n + 1
<1>. DEFINE Ends == {j \in i .. n + 1 : j = n + 1 \/ s[j] \notin class}
<1>1. strspn(s, i, class) = Min(Ends) - i
  BY DEF strspn
<1>2. Ends \subseteq Nat /\ n + 1 \in Ends
  OBVIOUS
<1>3. Min(Ends) \in Ends
  <2>. HIDE DEF Ends
  <2>. QED BY <1>2, MinLeast
<1>4. Min(Ends) \in i .. n + 1
  BY <1>3
<1>. HIDE DEF Ends
<1>. QED BY <1>1, <1>4

LEMMA CspanWithin ==
  ASSUME NEW s, NEW n \in Nat, Len(s) = n, NEW i \in 1 .. n + 1, NEW class
  PROVE  i + strcspn(s, i, class) \in i .. n + 1
<1>1. End(s, i, class \cup {NUL}) \in i .. n + 1
  BY EndWithin
<1>. QED BY <1>1 DEF strcspn

LEMMA StringPlain ==
  ASSUME NEW S, NEW s \in Seq(S), NEW i \in 1 .. Len(s) + 1
  PROVE  Plain(String(s, i))
<1>. DEFINE e == End(s, i, {NUL}) - 1
<1>1. Len(s) \in Nat /\ \A j \in 1 .. Len(s) : s[j] \in S
  OBVIOUS
<1>2. End(s, i, {NUL}) \in i .. Len(s) + 1 /\ \A j \in i .. End(s, i, {NUL}) - 1 : s[j] \notin {NUL}
  BY <1>1, EndWithin
<1>3. String(s, i) = SubSeq(s, i, e)
  <2>1. {} \cup {NUL} = {NUL}
    OBVIOUS
  <2>2. i + (End(s, i, {NUL}) - i) - 1 = End(s, i, {NUL}) - 1
    BY <1>1, <1>2
  <2>. QED BY <2>1, <2>2 DEF String, strcspn
<1>4. e \in Int /\ i \in Int /\ e <= Len(s) /\ \A j \in i .. e : s[j] # NUL
  <2>. DEFINE z == End(s, i, {NUL})
  <2>1. z \in i .. Len(s) + 1 /\ \A j \in i .. z - 1 : s[j] # NUL
    BY <1>2
  <2>. HIDE DEF z
  <2>2. z - 1 \in Int /\ i \in Int /\ z - 1 <= Len(s)
    BY <1>1, <2>1
  <2>. QED BY <2>1, <2>2 DEF z
<1>. HIDE DEF e
<1>. DEFINE T == S \ {NUL}
<1>5. \A j \in i .. e : s[j] \in T
  BY <1>1, <1>4
<1>6. NUL \notin T
  OBVIOUS
<1>. HIDE DEF T
<1>7. SubSeq(s, i, e) \in Seq(T)
  BY <1>4, <1>5, SubSeqProperties
<1>. QED BY <1>3, <1>6, <1>7 DEF Plain

LEMMA MemsetText ==
  ASSUME NEW S, NUL \in S, NEW s \in Seq(S), NEW i, NEW n
  PROVE  memset(s, i, n) \in Seq(S) /\ Len(memset(s, i, n)) = Len(s)
<1>. DEFINE t == memset(s, i, n)
<1>1. Len(s) \in Nat /\ DOMAIN s = 1 .. Len(s) /\ \A j \in 1 .. Len(s) : s[j] \in S
  OBVIOUS
<1>2. t \in [1 .. Len(s) -> S]
  BY <1>1 DEF memset
<1>. HIDE DEF t
<1>. QED BY <1>1, <1>2, SeqDef, LenProperties DEF t

(* A pass keeps within the text, and what it finds is plain. *)
LEMMA PassKeeps ==
  ASSUME NEW S, NUL \in S, NEW s \in Seq(S), NEW key \in 1 .. Len(s) + 1, NEW vals, NEW ends
  PROVE  LET pass == Pass(s, key, vals, ends) IN
         /\ pass.text \in Seq(S) /\ Len(pass.text) = Len(s)
         /\ pass.next \in 1 .. Len(s) + 1
         /\ pass.field # <<>> => \E x : pass.field = <<x>> /\ Plain(x.key) /\ Plain(x.value)
<1>. DEFINE n == Len(s)
            val == key + strcspn(s, key, vals)
            end == key + strcspn(s, key, ends)
            valued == val > key /\ val < end
            cut == IF valued THEN memset(s, val, strspn(s, val, vals)) ELSE s
            value == val + strspn(s, val, vals)
            next == end + strspn(cut, end, ends)
            t == memset(cut, end, next - end)
            x == [key |-> String(t, key), value |-> String(t, value)]
            pass == Pass(s, key, vals, ends)
<1>1. pass.text = t /\ pass.next = next /\ pass.field = IF valued THEN <<x>> ELSE <<>>
  BY DEF Pass
<1>2. n \in Nat
  OBVIOUS
<1>3. val \in 1 .. n + 1
  <2>1. val \in key .. n + 1
    BY <1>2, CspanWithin
  <2>. HIDE DEF val
  <2>. QED BY <1>2, <2>1
<1>4. end \in 1 .. n + 1
  <2>1. end \in key .. n + 1
    BY <1>2, CspanWithin
  <2>. HIDE DEF end
  <2>. QED BY <1>2, <2>1
<1>. HIDE DEF val, end, pass
<1>5. value \in 1 .. n + 1
  <2>1. value \in val .. n + 1
    BY <1>2, <1>3, SpanWithin
  <2>. HIDE DEF value
  <2>. QED BY <1>2, <1>3, <2>1
<1>. HIDE DEF valued, value
<1>6. cut \in Seq(S) /\ Len(cut) = n
  BY MemsetText
<1>. HIDE DEF cut
<1>7. next \in 1 .. n + 1
  <2>1. next \in end .. n + 1
    BY <1>2, <1>4, <1>6, SpanWithin
  <2>. HIDE DEF next
  <2>. QED BY <1>2, <1>4, <2>1
<1>. HIDE DEF next
<1>8. t \in Seq(S) /\ Len(t) = n
  BY <1>6, MemsetText
<1>. HIDE DEF t
<1>9. Plain(String(t, key)) /\ Plain(String(t, value))
  BY <1>2, <1>5, <1>8, StringPlain
<1>10. Plain(x.key) /\ Plain(x.value)
  BY <1>9
<1>. HIDE DEF x
<1>. QED BY <1>1, <1>7, <1>8, <1>10 DEF pass

LEMMA ParsedPairs ==
  ASSUME NEW s, Plain(s), NEW vals, NEW ends, params_new_parse_delim(s, vals, ends) # NULL
  PROVE  \E T : /\ params_new_parse_delim(s, vals, ends) \in Seq(T)
                /\ \A x \in T : Plain(x.key) /\ Plain(x.value)
<1>0. PICK S : s \in Seq(S) /\ NUL \in S
  <2>1. PICK T : s \in Seq(T)
    BY DEF Plain
  <2>2. s \in Seq(T \cup {NUL})
    BY <2>1
  <2>. QED BY <2>2
<1>. DEFINE N == Len(s) + 2
            after == CHOOSE f : Passes(f, s, N, vals, ends)
            field(i) == Pass(after[i].text, after[i].key, vals, ends).field
            Found == {x \in {field(i)[1] : i \in 0 .. N} : Plain(x.key) /\ Plain(x.value)}
            Kept(was) == /\ was = [text |-> was.text, key |-> was.key, pairs |-> was.pairs, ends |-> was.ends]
                         /\ was.text \in Seq(S) /\ Len(was.text) = Len(s)
                         /\ was.key \in 1 .. Len(s) + 1
                         /\ was.pairs \in Seq(Found)
            Bad == {i \in 0 .. N : ~ Kept(after[i])}
<1>1. params_new_parse_delim(s, vals, ends) = IF after[N].ends THEN after[N].pairs ELSE NULL
  BY DEF params_new_parse_delim, Passes, FirstPass, OnePass
<1>3. N \in Nat /\ Len(s) \in Nat
  BY <1>0
<1>2. Passes(after, s, N, vals, ends)
  <2>. HIDE DEF N
  <2>. QED BY <1>3, PassesExist
<1>. HIDE DEF after, N
<1>4. ASSUME NEW i \in 0 .. N, Kept(after[i])
      PROVE  LET pass == Pass(after[i].text, after[i].key, vals, ends) IN
             /\ pass.field \in Seq(Found)
             /\ pass.text \in Seq(S) /\ Len(pass.text) = Len(s)
             /\ pass.next \in 1 .. Len(s) + 1
  <2>. DEFINE pass == Pass(after[i].text, after[i].key, vals, ends)
  <2>1. /\ pass.text \in Seq(S) /\ Len(pass.text) = Len(s)
        /\ pass.next \in 1 .. Len(s) + 1
        /\ pass.field # <<>> => \E x : pass.field = <<x>> /\ Plain(x.key) /\ Plain(x.value)
    <3>1. after[i].text \in Seq(S) /\ Len(after[i].text) = Len(s) /\ after[i].key \in 1 .. Len(s) + 1
      BY <1>4
    <3>. QED BY <1>0, <3>1, PassKeeps
  <2>2. field(i) = pass.field
    OBVIOUS
  <2>3. CASE pass.field # <<>>
    <3>1. PICK x : pass.field = <<x>> /\ Plain(x.key) /\ Plain(x.value)
      BY <2>1, <2>3
    <3>2. field(i)[1] = x
      BY <2>2, <3>1
    <3>3. x \in Found
      BY <3>1, <3>2
    <3>. HIDE DEF Found, pass
    <3>4. <<x>> \in Seq(Found)
      BY <3>3
    <3>. QED BY <2>1, <3>1, <3>4 DEF pass
  <2>4. CASE pass.field = <<>>
    <3>. HIDE DEF Found, pass
    <3>1. <<>> \in Seq(Found)
      OBVIOUS
    <3>. QED BY <2>1, <2>4, <3>1 DEF pass
  <2>. QED BY <2>3, <2>4
<1>9. \A x \in Found : Plain(x.key) /\ Plain(x.value)
  OBVIOUS
<1>. HIDE DEF Found
<1>5. ASSUME Bad # {} PROVE FALSE
  <2>1. PICK k \in Bad : \A i \in Bad : k <= i
    <3>1. Bad \subseteq Nat
      BY <1>3
    <3>. HIDE DEF Bad
    <3>. QED BY <1>5, <3>1, LeastNatural
  <2>2. k \in 0 .. N /\ ~ Kept(after[k])
    BY <2>1
  <2>3. after[k] = IF k = 0 THEN FirstPass(s) ELSE OnePass(after[k - 1], vals, ends)
    BY <1>2, <2>2 DEF Passes
  <2>4. CASE k = 0
    <3>1. after[k] = [text |-> s, key |-> 1, pairs |-> <<>>, ends |-> FALSE]
      BY <2>3, <2>4 DEF FirstPass
    <3>2. 1 \in 1 .. Len(s) + 1 /\ <<>> \in Seq(Found)
      BY <1>3
    <3>3. Kept(after[k])
      BY <1>0, <3>1, <3>2
    <3>. QED BY <2>2, <3>3
  <2>5. CASE k # 0
    <3>1. k - 1 \in 0 .. N /\ ~ (k <= k - 1)
      BY <1>3, <2>2, <2>5
    <3>2. Kept(after[k - 1])
      BY <2>1, <3>1
    <3>. DEFINE was == after[k - 1]
                pass == Pass(was.text, was.key, vals, ends)
    <3>3. after[k] = IF pass.ends THEN [was EXCEPT !.ends = TRUE]
                     ELSE [text  |-> pass.text,
                           key   |-> IF pass.field = <<>> THEN was.key ELSE pass.next,
                           pairs |-> was.pairs \o pass.field,
                           ends  |-> FALSE]
      BY <2>3, <2>5 DEF OnePass
    <3>4. /\ pass.field \in Seq(Found)
          /\ pass.text \in Seq(S) /\ Len(pass.text) = Len(s)
          /\ pass.next \in 1 .. Len(s) + 1
      <4>. HIDE DEF Kept
      <4>. QED BY <1>4, <3>1, <3>2
    <3>5. /\ was.pairs \in Seq(Found) /\ was.key \in 1 .. Len(s) + 1
          /\ was.text \in Seq(S) /\ Len(was.text) = Len(s)
      BY <3>2
    <3>6. was = [text |-> was.text, key |-> was.key, pairs |-> was.pairs, ends |-> was.ends]
      BY <3>2
    <3>. HIDE DEF pass, was
    <3>7. was.pairs \o pass.field \in Seq(Found)
      BY <3>4, <3>5, ConcatProperties
    <3>8. CASE pass.ends
      <4>1. after[k] = [text |-> was.text, key |-> was.key, pairs |-> was.pairs, ends |-> TRUE]
        BY <3>3, <3>6, <3>8
      <4>2. Kept(after[k])
        BY <3>5, <4>1
      <4>. QED BY <2>2, <4>2
    <3>9. CASE ~ pass.ends
      <4>. DEFINE key == IF pass.field = <<>> THEN was.key ELSE pass.next
                  pairs == was.pairs \o pass.field
      <4>1. after[k] = [text |-> pass.text, key |-> key, pairs |-> pairs, ends |-> FALSE]
        BY <3>3, <3>9
      <4>2. pairs \in Seq(Found) /\ key \in 1 .. Len(s) + 1
        BY <3>4, <3>5, <3>7
      <4>. HIDE DEF key, pairs
      <4>3. Kept(after[k])
        BY <3>4, <4>1, <4>2
      <4>. QED BY <2>2, <4>3
    <3>. QED BY <3>8, <3>9
  <2>. QED BY <2>4, <2>5
<1>6. N \in 0 .. N
  BY <1>3
<1>7. after[N].pairs \in Seq(Found)
  BY <1>5, <1>6
<1>. QED BY <1>1, <1>7, <1>9
-----------------------------------------------------------------------------
(* The printer: what is in the buffer is the text of the lines so far, as much of it as
   fits before the last character. *)
LEMMA LinePlain ==
  ASSUME NEW entry, Plain(entry.key), Plain(entry.value), NEW style \in Style
  PROVE  Plain(Line(entry, style))
<1>1. Plain(<<"=">>) /\ Plain(<<"&">>)
  BY OnePlain DEF NUL
<1>2. Plain(<<":", " ">>) /\ Plain(<<"\r", "\n">>)
  <2>1. <<":", " ">> \in Seq({":", " "}) /\ <<"\r", "\n">> \in Seq({"\r", "\n"})
    OBVIOUS
  <2>2. NUL \notin {":", " "} /\ NUL \notin {"\r", "\n"}
    BY DEF NUL
  <2>. QED BY <2>1, <2>2 DEF Plain
<1>3. Plain(entry.key \o <<"=">>) /\ Plain(entry.key \o <<":", " ">>)
  BY <1>1, <1>2, BothPlain
<1>4. Plain(entry.key \o <<"=">> \o entry.value) /\ Plain(entry.key \o <<":", " ">> \o entry.value)
  BY <1>3, BothPlain
<1>5. /\ Plain(entry.key \o <<"=">> \o entry.value \o <<"&">>)
      /\ Plain(entry.key \o <<":", " ">> \o entry.value \o <<"\r", "\n">>)
  BY <1>1, <1>2, <1>4, BothPlain
<1>. QED BY <1>5 DEF Line

(* The lines one after the other. *)
Joins(f, ss, len) == f = [i \in 1 .. len |-> IF i = 1 THEN ss[i] ELSE f[i - 1] \o ss[i]]

LEMMA JoinsExist ==
  ASSUME NEW len \in Nat, NEW ss
  PROVE  \E f : Joins(f, ss, len)
<1>. DEFINE Bad == {k \in 0 .. len : ~ \E f : Joins(f, ss, k)}
<1>1. ASSUME Bad # {} PROVE FALSE
  <2>1. PICK k \in Bad : \A i \in Bad : k <= i
    <3>1. Bad \subseteq Nat
      OBVIOUS
    <3>. HIDE DEF Bad
    <3>. QED BY <1>1, <3>1, LeastNatural
  <2>2. k \in 0 .. len /\ ~ \E f : Joins(f, ss, k)
    BY <2>1
  <2>3. CASE k = 0
    <3>1. Joins(<<>>, ss, k)
      BY <2>3 DEF Joins
    <3>. QED BY <2>2, <3>1
  <2>4. CASE k # 0
    <3>1. k - 1 \in 0 .. len /\ ~ (k <= k - 1)
      BY <2>2, <2>4
    <3>2. PICK f : Joins(f, ss, k - 1)
      BY <2>1, <3>1
    <3>. DEFINE g == [i \in 1 .. k |-> IF i < k THEN f[i] ELSE IF i = 1 THEN ss[i] ELSE f[k - 1] \o ss[i]]
    <3>3. ASSUME NEW i \in 1 .. k
          PROVE  g[i] = IF i = 1 THEN ss[i] ELSE g[i - 1] \o ss[i]
      <4>1. i # 1 => i - 1 \in 1 .. k /\ i - 1 < k
        BY <2>2
      <4>2. i # 1 => g[i - 1] = f[i - 1]
        BY <4>1
      <4>3. CASE i < k
        <5>1. i \in 1 .. k - 1
          BY <2>2, <4>3
        <5>2. g[i] = f[i] /\ f[i] = IF i = 1 THEN ss[i] ELSE f[i - 1] \o ss[i]
          BY <3>2, <4>3, <5>1 DEF Joins
        <5>. QED BY <4>2, <5>2
      <4>4. CASE ~ (i < k)
        <5>1. i = k
          BY <2>2, <4>4
        <5>. QED BY <4>2, <4>4, <5>1
      <4>. QED BY <4>3, <4>4
    <3>4. g = [i \in 1 .. k |-> g[i]]
      OBVIOUS
    <3>. HIDE DEF g
    <3>5. Joins(g, ss, k)
      BY <3>3, <3>4 DEF Joins
    <3>. QED BY <2>2, <3>5
  <2>. QED BY <2>3, <2>4
<1>2. len \in 0 .. len
  OBVIOUS
<1>. QED BY <1>1, <1>2

PrintedTo(out, entry, style) ==
  LET text == Line(entry, style)
      len == Len(text)
  IN  [buf   |-> snprintf(out.buf, out.total, out.n, text),
       n     |-> IF len <= out.n THEN out.n - len ELSE 0,
       total |-> out.total + len]
PrintsTo(f, S, base, seq, style) ==
  f = [T \in SUBSET S |-> IF T = {} THEN base ELSE PrintedTo(f[T \ {Max(T)}], seq[Max(T)], style)]

LEMMA PrintExists ==
  ASSUME NEW len \in Nat, NEW base, NEW seq, NEW style
  PROVE  \E f : PrintsTo(f, 1 .. len, base, seq, style)
<1>. DEFINE Bad == {k \in 0 .. len : ~ \E f : PrintsTo(f, 1 .. k, base, seq, style)}
<1>1. ASSUME Bad # {} PROVE FALSE
  <2>1. PICK k \in Bad : \A i \in Bad : k <= i
    <3>1. Bad \subseteq Nat
      OBVIOUS
    <3>. HIDE DEF Bad
    <3>. QED BY <1>1, <3>1, LeastNatural
  <2>2. k \in 0 .. len /\ ~ \E f : PrintsTo(f, 1 .. k, base, seq, style)
    BY <2>1
  <2>3. CASE k = 0
    <3>. DEFINE f == [T \in SUBSET (1 .. k) |-> base]
    <3>1. \A T \in SUBSET (1 .. k) : T = {}
      BY <2>3
    <3>2. PrintsTo(f, 1 .. k, base, seq, style)
      BY <3>1 DEF PrintsTo
    <3>. QED BY <2>2, <3>2
  <2>4. CASE k # 0
    <3>1. k - 1 \in 0 .. len /\ ~ (k <= k - 1)
      BY <2>2, <2>4
    <3>2. PICK f : PrintsTo(f, 1 .. k - 1, base, seq, style)
      BY <2>1, <3>1
    <3>. DEFINE g == [T \in SUBSET (1 .. k) |-> IF k \in T THEN PrintedTo(f[T \ {k}], seq[k], style) ELSE f[T]]
    <3>3. ASSUME NEW T \in SUBSET (1 .. k)
          PROVE  g[T] = IF T = {} THEN base ELSE PrintedTo(g[T \ {Max(T)}], seq[Max(T)], style)
      <4>1. CASE k \in T
        <5>1. Max(T) = k
          <6>1. T # {} /\ T \subseteq 0 .. k /\ k \in Nat
            BY <2>2, <4>1
          <6>2. Max(T) \in T /\ \A y \in T : y <= Max(T)
            BY <6>1, MaxGreatest
          <6>3. Max(T) \in 0 .. k /\ k <= Max(T)
            BY <4>1, <6>1, <6>2
          <6>. QED BY <2>2, <6>3
        <5>2. T \ {k} \in SUBSET (1 .. k) /\ k \notin T \ {k}
          OBVIOUS
        <5>3. g[T \ {k}] = f[T \ {k}]
          BY <5>2
        <5>. QED BY <4>1, <5>1, <5>3
      <4>2. CASE k \notin T
        <5>1. T \in SUBSET (1 .. k - 1)
          BY <2>2, <4>2
        <5>2. g[T] = f[T] /\ f[T] = IF T = {} THEN base ELSE PrintedTo(f[T \ {Max(T)}], seq[Max(T)], style)
          BY <3>2, <4>2, <5>1 DEF PrintsTo
        <5>3. T \ {Max(T)} \in SUBSET (1 .. k) /\ k \notin T \ {Max(T)}
          BY <4>2
        <5>4. g[T \ {Max(T)}] = f[T \ {Max(T)}]
          BY <5>3
        <5>. QED BY <5>2, <5>4
      <4>. QED BY <4>1, <4>2
    <3>4. g = [T \in SUBSET (1 .. k) |-> g[T]]
      OBVIOUS
    <3>. HIDE DEF g
    <3>5. PrintsTo(g, 1 .. k, base, seq, style)
      BY <3>3, <3>4 DEF PrintsTo
    <3>. QED BY <2>2, <3>5
  <2>. QED BY <2>3, <2>4
<1>2. len \in 0 .. len
  OBVIOUS
<1>. QED BY <1>1, <1>2

(* What is printed to a buffer of n for a text so far. *)
Printed(out, text, n) ==
  /\ out.total = Len(text)
  /\ out.n = IF Len(text) <= n THEN n - Len(text) ELSE 0
  /\ DOMAIN out.buf \subseteq 0 .. n - 1
  /\ \A o \in 0 .. Len(text) - 1 : o < n - 1 => o \in DOMAIN out.buf /\ out.buf[o] = text[o + 1]

Written(w, buf, at, text, len) ==
  /\ DOMAIN w = DOMAIN buf \cup at .. at + len - 1
  /\ \A o \in at .. at + len - 1 : w[o] = text[o - at + 1]
  /\ \A o \in DOMAIN buf \ (at .. at + len - 1) : w[o] = buf[o]

LEMMA WriteIs ==
  ASSUME NEW buf, NEW at \in Nat, NEW text, NEW len \in Nat, Len(text) = len
  PROVE  Written(Write(buf, at, text), buf, at, text, len)
BY DEF Write, Written

LEMMA LinePrinted ==
  ASSUME NEW out, NEW n \in Nat, NEW entry, NEW style, NEW text,
         Plain(text), Plain(Line(entry, style)), Printed(out, text, n)
  PROVE  Printed(PrintedTo(out, entry, style), text \o Line(entry, style), n)
<1>. DEFINE line == Line(entry, style)
            next == PrintedTo(out, entry, style)
            L == Len(text)
            m == Len(line)
            all == text \o line
<1>1. L \in Nat /\ m \in Nat /\ Len(all) = L + m
      /\ (\A i \in 1 .. L : all[i] = text[i]) /\ \A i \in 1 .. m : all[L + i] = line[i]
  <2>1. PICK S : text \in Seq(S)
    BY DEF Plain
  <2>2. PICK T : line \in Seq(T)
    BY DEF Plain
  <2>3. text \in Seq(S \cup T) /\ line \in Seq(S \cup T)
    BY <2>1, <2>2
  <2>. HIDE DEF line
  <2>. QED BY <2>3, ConcatProperties
<1>2. /\ next.buf = snprintf(out.buf, out.total, out.n, line)
      /\ next.n = IF m <= out.n THEN out.n - m ELSE 0
      /\ next.total = out.total + m
  BY DEF PrintedTo
<1>3. /\ out.total = L
      /\ out.n = IF L <= n THEN n - L ELSE 0
      /\ DOMAIN out.buf \subseteq 0 .. n - 1
      /\ \A o \in 0 .. L - 1 : o < n - 1 => o \in DOMAIN out.buf /\ out.buf[o] = text[o + 1]
  BY DEF Printed
<1>4. line \in Seq({line[i] : i \in 1 .. m})
  <2>1. PICK T : line \in Seq(T)
    BY DEF Plain
  <2>. HIDE DEF line
  <2>. QED BY <2>1
<1>. HIDE DEF next, line, L, m, all
<1>5. next.total = Len(all) /\ next.n = IF Len(all) <= n THEN n - Len(all) ELSE 0
  BY <1>1, <1>2, <1>3
<1>6. CASE out.n = 0
  <2>1. n <= L
    BY <1>1, <1>3, <1>6
  <2>2. next.buf = out.buf
    BY <1>2, <1>6 DEF snprintf
  <2>3. ASSUME NEW o \in 0 .. Len(all) - 1, o < n - 1
        PROVE  o \in DOMAIN next.buf /\ next.buf[o] = all[o + 1]
    <3>1. o \in 0 .. L - 1 /\ o + 1 \in 1 .. L
      BY <1>1, <2>1, <2>3
    <3>. QED BY <1>1, <1>3, <2>2, <2>3, <3>1
  <2>4. DOMAIN next.buf \subseteq 0 .. n - 1
    BY <1>3, <2>2
  <2>. QED BY <1>5, <2>3, <2>4 DEF Printed, next, all, line
<1>7. CASE out.n # 0
  <2>1. out.n = n - L /\ L < n /\ out.n - 1 \in Nat
    BY <1>1, <1>3, <1>7
  <2>. DEFINE k == IF m <= out.n - 1 THEN m ELSE out.n - 1
              part == SubSeq(line, 1, k)
              w == part \o <<NUL>>
  <2>2. Min({m, out.n - 1}) = k
    <3>. DEFINE two == {m, out.n - 1}
    <3>1. two \subseteq Nat /\ two # {} /\ m \in two /\ out.n - 1 \in two
      BY <1>1, <2>1
    <3>2. Min(two) \in two /\ \A y \in two : Min(two) <= y
      <4>. HIDE DEF two
      <4>. QED BY <3>1, MinLeast
    <3>3. Min(two) \in Nat /\ (Min(two) = m \/ Min(two) = out.n - 1) /\ Min(two) <= m /\ Min(two) <= out.n - 1
      BY <3>1, <3>2
    <3>. HIDE DEF two
    <3>. QED BY <1>1, <2>1, <3>3 DEF two
  <2>3. next.buf = Write(out.buf, L, w)
    BY <1>2, <1>3, <1>7, <2>2 DEF snprintf, m
  <2>4. k \in Nat /\ k <= m /\ L + k <= n - 1 /\ (k < m => L + k = n - 1)
    BY <1>1, <2>1
  <2>. HIDE DEF k
  <2>5. Len(w) = k + 1 /\ \A i \in 1 .. k : w[i] = line[i]
    <3>. DEFINE S == {line[i] : i \in 1 .. m}
    <3>1. line \in Seq(S) /\ Len(line) = m
      BY <1>4 DEF m
    <3>. HIDE DEF S
    <3>2. \A i \in 1 .. k : line[i] \in S
      BY <1>1, <2>4, <3>1
    <3>3. part \in Seq(S) /\ Len(part) = k /\ \A i \in 1 .. k : part[i] = line[i]
      BY <1>1, <2>4, <3>1, <3>2, SubSeqProperties
    <3>. HIDE DEF part
    <3>4. part \in Seq(S \cup {NUL}) /\ <<NUL>> \in Seq(S \cup {NUL}) /\ Len(<<NUL>>) = 1
      BY <3>3
    <3>. QED BY <2>4, <3>3, <3>4, ConcatProperties
  <2>. HIDE DEF w
  <2>6. /\ DOMAIN next.buf = DOMAIN out.buf \cup L .. L + (k + 1) - 1
        /\ \A o \in L .. L + (k + 1) - 1 : next.buf[o] = w[o - L + 1]
        /\ \A o \in DOMAIN out.buf \ (L .. L + (k + 1) - 1) : next.buf[o] = out.buf[o]
    <3>1. k + 1 \in Nat /\ Len(w) = k + 1 /\ L \in Nat
      BY <1>1, <2>4, <2>5
    <3>2. Written(next.buf, out.buf, L, w, k + 1)
      BY <2>3, <3>1, WriteIs
    <3>. QED BY <3>2 DEF Written
  <2>7. DOMAIN next.buf \subseteq 0 .. n - 1
    <3>1. L .. L + (k + 1) - 1 \subseteq 0 .. n - 1
      BY <1>1, <2>4
    <3>. QED BY <1>3, <2>6, <3>1
  <2>8. ASSUME NEW o \in 0 .. Len(all) - 1, o < n - 1
        PROVE  o \in DOMAIN next.buf /\ next.buf[o] = all[o + 1]
    <3>1. CASE o < L
      <4>1. o \in 0 .. L - 1 /\ o + 1 \in 1 .. L /\ o \notin L .. L + (k + 1) - 1
        BY <1>1, <2>4, <3>1
      <4>2. o \in DOMAIN out.buf /\ out.buf[o] = text[o + 1]
        BY <1>3, <2>8, <4>1
      <4>. QED BY <1>1, <2>6, <4>1, <4>2
    <3>2. CASE ~ (o < L)
      <4>. DEFINE i == o - L + 1
      <4>1. i \in 1 .. k /\ i \in 1 .. m /\ o \in L .. L + (k + 1) - 1 /\ L + i = o + 1
        BY <1>1, <2>4, <2>8, <3>2
      <4>2. next.buf[o] = w[i] /\ w[i] = line[i] /\ all[L + i] = line[i]
        BY <1>1, <2>5, <2>6, <4>1
      <4>. HIDE DEF i
      <4>. QED BY <2>6, <4>1, <4>2
    <3>. QED BY <3>1, <3>2
  <2>. QED BY <1>5, <2>7, <2>8 DEF Printed, next, all, line
<1>. QED BY <1>6, <1>7

LinesOf(entries, style) == FlattenSeq([i \in DOMAIN entries |-> Line(entries[i], style)])

LEMMA FormatPrinted ==
  ASSUME NEW n \in Nat, NEW style \in Style, NEW len \in Nat, NEW entries, Pairs(entries, len)
  PROVE  /\ Plain(LinesOf(entries, style))
         /\ Printed(snprint_params_format(n, entries, style), LinesOf(entries, style), n)
<1>. DEFINE ss == [i \in DOMAIN entries |-> Line(entries[i], style)]
            flatten == CHOOSE f : Joins(f, ss, Len(ss))
            lines(k) == IF k = 0 THEN <<>> ELSE flatten[k]
            base == [buf |-> <<>>, n |-> n, total |-> 0]
            iter == CHOOSE f : PrintsTo(f, DOMAIN entries, base, entries, style)
            Kept(k) == Plain(lines(k)) /\ Printed(iter[1 .. k], lines(k), n)
            Bad == {k \in 0 .. len : ~ Kept(k)}
<1>1. /\ DOMAIN entries = 1 .. len
      /\ \A i \in 1 .. len : Plain(entries[i].key) /\ Plain(entries[i].value)
  BY DEF Pairs
<1>2. ss = [i \in 1 .. len |-> Line(entries[i], style)]
  BY <1>1
<1>3. Len(ss) = len
  <2>. DEFINE S == {Line(entries[i], style) : i \in 1 .. len}
  <2>1. ss \in [1 .. len -> S]
    BY <1>2
  <2>. HIDE DEF ss, S
  <2>2. ss \in Seq(S)
    BY <2>1, SeqDef
  <2>3. DOMAIN ss = 1 .. len
    BY <2>1
  <2>. QED BY <2>2, <2>3, LenProperties
<1>4. LinesOf(entries, style) = IF Len(ss) = 0 THEN ss ELSE flatten[Len(ss)]
  BY DEF LinesOf, FlattenSeq, Joins
<1>5. ss = <<>> \/ len # 0
  BY <1>2
<1>6. \A i \in 1 .. len : ss[i] = Line(entries[i], style) /\ Plain(ss[i])
  BY <1>1, <1>2, LinePlain
<1>. HIDE DEF ss
<1>7. Joins(flatten, ss, len)
  BY <1>3, JoinsExist
<1>. HIDE DEF flatten
<1>8. snprint_params_format(n, entries, style) = iter[DOMAIN entries]
  BY DEF snprint_params_format, FoldLeft, MapThenFoldSet, PrintsTo, PrintedTo
<1>. HIDE DEF base
<1>9. PrintsTo(iter, 1 .. len, base, entries, style)
  BY <1>1, PrintExists
<1>. HIDE DEF iter
<1>10. LinesOf(entries, style) = lines(len)
  BY <1>3, <1>4, <1>5
<1>11. ASSUME Bad # {} PROVE FALSE
  <2>1. PICK k \in Bad : \A i \in Bad : k <= i
    <3>1. Bad \subseteq Nat
      OBVIOUS
    <3>. HIDE DEF Bad
    <3>. QED BY <1>11, <3>1, LeastNatural
  <2>2. k \in 0 .. len /\ ~ Kept(k)
    BY <2>1
  <2>3. 1 .. k \in SUBSET (1 .. len)
    BY <2>2
  <2>4. iter[1 .. k] = IF 1 .. k = {} THEN base ELSE PrintedTo(iter[(1 .. k) \ {Max(1 .. k)}], entries[Max(1 .. k)], style)
    BY <1>9, <2>3 DEF PrintsTo
  <2>5. CASE k = 0
    <3>1. iter[1 .. k] = base /\ lines(k) = <<>>
      BY <2>4, <2>5
    <3>2. Plain(<<>>)
      <4>. DEFINE T == {}
      <4>1. <<>> \in Seq(T) /\ NUL \notin T
        OBVIOUS
      <4>. HIDE DEF T
      <4>. QED BY <4>1 DEF Plain
    <3>3. Printed(base, <<>>, n)
      BY DEF Printed, base
    <3>. QED BY <2>2, <3>1, <3>2, <3>3
  <2>6. CASE k # 0
    <3>1. k - 1 \in 0 .. len /\ ~ (k <= k - 1) /\ k \in 1 .. len
      BY <2>2, <2>6
    <3>2. Kept(k - 1)
      BY <2>1, <3>1
    <3>3. Max(1 .. k) = k
      <4>1. 1 .. k \subseteq 0 .. k /\ k \in 1 .. k /\ k \in Nat
        BY <3>1
      <4>2. Max(1 .. k) \in 1 .. k /\ \A y \in 1 .. k : y <= Max(1 .. k)
        BY <4>1, MaxGreatest
      <4>3. Max(1 .. k) \in 1 .. k /\ k <= Max(1 .. k)
        BY <4>1, <4>2
      <4>. QED BY <4>1, <4>3
    <3>4. (1 .. k) \ {k} = 1 .. k - 1 /\ 1 .. k # {}
      <4>1. k \in Nat /\ k \in 1 .. k
        BY <3>1
      <4>2. \A i \in Int : i \in 1 .. k /\ i # k <=> i \in 1 .. k - 1
        BY <4>1
      <4>3. \A i : i \in (1 .. k) \ {k} <=> i \in 1 .. k - 1
        BY <4>1, <4>2
      <4>. QED BY <4>1, <4>3
    <3>5. iter[1 .. k] = PrintedTo(iter[1 .. k - 1], entries[k], style)
      BY <2>4, <3>3, <3>4
    <3>6. lines(k) = lines(k - 1) \o Line(entries[k], style)
      <4>1. flatten[k] = IF k = 1 THEN ss[k] ELSE flatten[k - 1] \o ss[k]
        BY <1>7, <3>1 DEF Joins
      <4>2. Line(entries[k], style) = ss[k]
        BY <1>6, <3>1
      <4>3. <<>> \o ss[k] = ss[k]
        <5>1. PICK T : ss[k] \in Seq(T)
          BY <1>6, <3>1 DEF Plain
        <5>. QED BY <5>1, ConcatEmptySeq
      <4>4. k - 1 = 0 <=> k = 1
        BY <3>1
      <4>. QED BY <2>6, <4>1, <4>2, <4>3, <4>4
    <3>7. Plain(Line(entries[k], style))
      BY <1>6, <3>1
    <3>. HIDE DEF lines
    <3>8. Plain(lines(k)) /\ Printed(iter[1 .. k], lines(k), n)
      BY <3>2, <3>5, <3>6, <3>7, BothPlain, LinePrinted
    <3>. QED BY <2>2, <3>8
  <2>. QED BY <2>5, <2>6
<1>12. len \in 0 .. len
  OBVIOUS
<1>13. Kept(len)
  BY <1>11, <1>12
<1>. HIDE DEF lines
<1>14. DOMAIN entries = 1 .. len
  BY <1>1
<1>. QED BY <1>8, <1>10, <1>13, <1>14

(* A string ends before its first NUL. *)
LEMMA TextIs ==
  ASSUME NEW buf, NEW n, DOMAIN buf \subseteq 0 .. n - 1, NEW text, Plain(text),
         Len(text) \in DOMAIN buf, buf[Len(text)] = NUL,
         \A o \in 0 .. Len(text) - 1 : buf[o] = text[o + 1]
  PROVE  Text(buf) = text
<1>. DEFINE Ends == {o \in DOMAIN buf : buf[o] = NUL}
            L == Len(text)
<1>1. L \in Nat /\ text = [i \in 1 .. L |-> text[i]] /\ \A i \in 1 .. L : text[i] # NUL
  <2>1. PICK T : text \in Seq(T) /\ NUL \notin T
    BY DEF Plain
  <2>. QED BY <2>1
<1>2. Ends \subseteq Nat /\ L \in Ends /\ \A o \in Ends : ~ (o < L)
  <2>1. ASSUME NEW o \in Ends, o < L PROVE FALSE
    <3>1. o \in 0 .. L - 1 /\ o + 1 \in 1 .. L /\ buf[o] = NUL
      BY <1>1, <2>1
    <3>. QED BY <1>1, <3>1
  <2>. QED BY <2>1
<1>3. Min(Ends) = L
  <2>. HIDE DEF Ends, L
  <2>1. Min(Ends) \in Ends /\ \A y \in Ends : Min(Ends) <= y
    BY <1>2, MinLeast
  <2>2. Min(Ends) \in Nat /\ Min(Ends) <= L /\ ~ (Min(Ends) < L)
    BY <1>2, <2>1
  <2>. QED BY <1>1, <2>2
<1>4. Text(buf) = [i \in 1 .. L |-> buf[i - 1]]
  BY <1>3 DEF Text
<1>5. \A i \in 1 .. L : buf[i - 1] = text[i]
  <2>1. ASSUME NEW i \in 1 .. L PROVE buf[i - 1] = text[i]
    <3>1. i - 1 \in 0 .. L - 1 /\ (i - 1) + 1 = i
      BY <1>1
    <3>. QED BY <3>1
  <2>. QED BY <2>1
<1>. HIDE DEF L
<1>. QED BY <1>1, <1>4, <1>5

LEMMA SmallMod == ASSUME NEW a \in Nat, NEW b \in Nat, a < b PROVE a % b = a
OBVIOUS

(* A text ended at the place of its last character, or behind a line end of its own. *)
LEMMA QueryFits ==
  ASSUME NEW n \in 0 .. MaxBuffer, NEW entries, NEW lines, Plain(lines), Len(lines) <= SizeMod, lines # <<>>,
         Printed(snprint_params_format(n, entries, "query"), lines, n), Len(lines) - 1 # n
  PROVE  LET printed == params_snprint(n, entries, "query")
             whole == SubSeq(lines, 1, Len(lines) - 1) IN
         /\ DOMAIN printed.buf \subseteq 0 .. n - 1
         /\ printed.len = Len(whole)
         /\ n > Len(whole) => Text(printed.buf) = whole
<1>. DEFINE out == snprint_params_format(n, entries, "query")
            printed == params_snprint(n, entries, "query")
            L == Len(lines)
            whole == SubSeq(lines, 1, L - 1)
            short == (out.total - 1) % SizeMod
<1>1. printed.len = short /\ printed.buf = IF short <= n THEN Write(out.buf, short, <<NUL>>) ELSE out.buf
  BY DEF params_snprint
<1>2. PICK T : lines \in Seq(T) /\ NUL \notin T
  BY DEF Plain
<1>3. L \in Nat /\ L >= 1 /\ \A i \in 1 .. L : lines[i] \in T
  <2>1. L \in Nat /\ L # 0 /\ \A i \in 1 .. L : lines[i] \in T
    BY <1>2, EmptySeq
  <2>. HIDE DEF L
  <2>. QED BY <2>1
<1>4. whole \in Seq(T) /\ Len(whole) = L - 1 /\ \A i \in 1 .. L - 1 : whole[i] = lines[i]
  <2>1. \A i \in 1 .. L - 1 : lines[i] \in T
    BY <1>3
  <2>2. 1 \in Int /\ L - 1 \in Int /\ L - 1 <= Len(lines)
    BY <1>3
  <2>3. whole \in Seq(T) /\ Len(whole) = (IF 1 <= L - 1 THEN L - 1 - 1 + 1 ELSE 0)
        /\ \A i \in 1 .. L - 1 - 1 + 1 : whole[i] = lines[1 + i - 1]
    BY <1>2, <2>1, <2>2, SubSeqProperties
  <2>. HIDE DEF whole, L
  <2>. QED BY <1>3, <2>3
<1>5. /\ out.total = L
      /\ DOMAIN out.buf \subseteq 0 .. n - 1
      /\ \A o \in 0 .. L - 1 : o < n - 1 => o \in DOMAIN out.buf /\ out.buf[o] = lines[o + 1]
  BY DEF Printed
<1>6. n \in Nat /\ SizeMod \in Nat
  BY PrintAssumption
<1>. HIDE DEF out, printed, whole
<1>7. short = L - 1
  <2>1. L <= SizeMod
    OBVIOUS
  <2>. HIDE DEF L
  <2>2. L - 1 \in Nat /\ L - 1 < SizeMod
    BY <1>3, <1>6, <2>1
  <2>. QED BY <1>5, <1>6, <2>2, SmallMod
<1>. HIDE DEF short
<1>8. L - 1 # n
  OBVIOUS
<1>. HIDE DEF L
<1>9. CASE L - 1 <= n
  <2>1. L - 1 \in Nat /\ L - 1 < n /\ 1 \in Nat /\ Len(<<NUL>>) = 1 /\ <<NUL>>[1] = NUL
    BY <1>3, <1>6, <1>8, <1>9
  <2>2. printed.buf = Write(out.buf, L - 1, <<NUL>>)
    BY <1>1, <1>7, <1>9
  <2>3. Written(printed.buf, out.buf, L - 1, <<NUL>>, 1)
    BY <2>1, <2>2, WriteIs
  <2>4. /\ DOMAIN printed.buf = DOMAIN out.buf \cup {L - 1}
        /\ printed.buf[L - 1] = NUL
        /\ \A o \in DOMAIN out.buf \ {L - 1} : printed.buf[o] = out.buf[o]
    <3>1. L - 1 .. (L - 1) + 1 - 1 = {L - 1}
      BY <2>1
    <3>2. (L - 1) - (L - 1) + 1 = 1 /\ L - 1 \in {L - 1}
      BY <2>1
    <3>. QED BY <2>1, <2>3, <3>1, <3>2 DEF Written
  <2>5. DOMAIN printed.buf \subseteq 0 .. n - 1
    <3>1. L - 1 \in 0 .. n - 1
      BY <1>6, <2>1
    <3>. QED BY <1>5, <2>4, <3>1
  <2>6. \A o \in 0 .. Len(whole) - 1 : printed.buf[o] = whole[o + 1]
    <3>1. ASSUME NEW o \in 0 .. L - 1 - 1 PROVE printed.buf[o] = whole[o + 1]
      <4>1. o \in 0 .. L - 1 /\ o < n - 1 /\ o # L - 1 /\ o + 1 \in 1 .. L - 1
        BY <1>3, <1>6, <2>1
      <4>2. o \in DOMAIN out.buf /\ out.buf[o] = lines[o + 1]
        BY <1>5, <4>1
      <4>. QED BY <1>4, <2>4, <4>1, <4>2
    <3>. QED BY <1>4, <3>1
  <2>7. Plain(whole)
    BY <1>2, <1>4 DEF Plain
  <2>8. Len(whole) \in DOMAIN printed.buf /\ printed.buf[Len(whole)] = NUL
    BY <1>4, <2>4
  <2>9. Text(printed.buf) = whole
    BY <2>5, <2>6, <2>7, <2>8, TextIs
  <2>. QED BY <1>1, <1>4, <1>7, <2>5, <2>9 DEF printed, whole, L
<1>10. CASE ~ (L - 1 <= n)
  <2>1. printed.buf = out.buf
    BY <1>1, <1>7, <1>10
  <2>2. ~ (n > Len(whole))
    BY <1>3, <1>4, <1>6, <1>10
  <2>. QED BY <1>1, <1>4, <1>5, <1>7, <2>1, <2>2 DEF printed, whole, L
<1>. QED BY <1>9, <1>10

LEMMA HeadersFit ==
  ASSUME NEW n \in 0 .. MaxBuffer, n # 1, NEW entries, NEW lines, Plain(lines),
         Printed(snprint_params_format(n, entries, "headers"), lines, n)
  PROVE  LET printed == params_snprint(n, entries, "headers")
             whole == lines \o <<"\r", "\n">> IN
         /\ DOMAIN printed.buf \subseteq 0 .. n - 1
         /\ printed.len = Len(whole)
         /\ n > Len(whole) => Text(printed.buf) = whole
<1>. DEFINE out == snprint_params_format(n, entries, "headers")
            printed == params_snprint(n, entries, "headers")
            L == Len(lines)
            end == <<"\r", "\n", NUL>>
            whole == lines \o <<"\r", "\n">>
            room == n > 0 /\ out.total < (n - 2) % SizeMod
<1>1. printed.len = out.total + 2 /\ printed.buf = IF room THEN Write(out.buf, out.total, end) ELSE out.buf
  BY DEF params_snprint
<1>2. Plain(whole)
  <2>1. <<"\r", "\n">> \in Seq({"\r", "\n"}) /\ NUL \notin {"\r", "\n"}
    BY DEF NUL
  <2>2. Plain(<<"\r", "\n">>)
    BY <2>1 DEF Plain
  <2>. QED BY <2>2, BothPlain
<1>3. /\ L \in Nat /\ Len(whole) = L + 2
      /\ \A i \in 1 .. L : whole[i] = lines[i]
      /\ whole[L + 1] = "\r" /\ whole[L + 2] = "\n"
  <2>1. PICK T : lines \in Seq(T)
    BY DEF Plain
  <2>. DEFINE U == T \cup {"\r", "\n"}
              two == <<"\r", "\n">>
  <2>2. lines \in Seq(U) /\ two \in Seq(U) /\ Len(two) = 2 /\ two[1] = "\r" /\ two[2] = "\n"
    BY <2>1
  <2>. HIDE DEF U, two
  <2>3. L \in Nat
    BY <2>1
  <2>4. /\ Len(lines \o two) = L + 2
        /\ \A i \in 1 .. L + 2 : (lines \o two)[i] = IF i <= L THEN lines[i] ELSE two[i - L]
    <3>1. /\ Len(lines \o two) = Len(lines) + Len(two)
          /\ \A i \in 1 .. Len(lines) + Len(two) :
                (lines \o two)[i] = IF i <= Len(lines) THEN lines[i] ELSE two[i - Len(lines)]
      BY <2>2, ConcatProperties
    <3>. QED BY <2>2, <3>1
  <2>. HIDE DEF L
  <2>5. /\ \A i \in 1 .. L : i \in 1 .. L + 2 /\ i <= L
        /\ L + 1 \in 1 .. L + 2 /\ ~ (L + 1 <= L) /\ (L + 1) - L = 1
        /\ L + 2 \in 1 .. L + 2 /\ ~ (L + 2 <= L) /\ (L + 2) - L = 2
    BY <2>3
  <2>6. /\ \A i \in 1 .. L : (lines \o two)[i] = lines[i]
        /\ (lines \o two)[L + 1] = two[1] /\ (lines \o two)[L + 2] = two[2]
    BY <2>4, <2>5
  <2>. QED BY <2>2, <2>3, <2>4, <2>6 DEF two
<1>4. /\ out.total = L
      /\ DOMAIN out.buf \subseteq 0 .. n - 1
      /\ \A o \in 0 .. L - 1 : o < n - 1 => o \in DOMAIN out.buf /\ out.buf[o] = lines[o + 1]
  BY DEF Printed
<1>5. n \in Nat /\ SizeMod \in Nat /\ n < SizeMod /\ n # 1
  BY PrintAssumption
<1>6. Len(end) = 3 /\ end[1] = "\r" /\ end[2] = "\n" /\ end[3] = NUL
  OBVIOUS
<1>. HIDE DEF out, printed, whole, L, end
<1>7. room <=> n > L + 2
  <2>1. CASE n = 0
    BY <1>3, <2>1
  <2>2. CASE n # 0
    <3>1. n - 2 \in Nat /\ n - 2 < SizeMod /\ n > 0
      BY <1>5, <2>2
    <3>2. (n - 2) % SizeMod = n - 2
      BY <1>5, <3>1, SmallMod
    <3>3. room <=> L < n - 2
      BY <1>4, <3>1, <3>2
    <3>. HIDE DEF room
    <3>. QED BY <1>3, <1>5, <3>3
  <2>. QED BY <2>1, <2>2
<1>. HIDE DEF room
<1>8. CASE room
  <2>1. printed.buf = Write(out.buf, L, end) /\ 3 \in Nat
    BY <1>1, <1>4, <1>8
  <2>2. Written(printed.buf, out.buf, L, end, 3)
    <3>1. L \in Nat /\ Len(end) = 3
      BY <1>3, <1>6
    <3>. QED BY <2>1, <3>1, WriteIs
  <2>3. /\ DOMAIN printed.buf = DOMAIN out.buf \cup L .. L + 2
        /\ printed.buf[L] = "\r" /\ printed.buf[L + 1] = "\n" /\ printed.buf[L + 2] = NUL
        /\ \A o \in DOMAIN out.buf \ (L .. L + 2) : printed.buf[o] = out.buf[o]
    <3>1. L + 3 - 1 = L + 2 /\ L \in L .. L + 2 /\ L + 1 \in L .. L + 2 /\ L + 2 \in L .. L + 2
          /\ L - L + 1 = 1 /\ (L + 1) - L + 1 = 2 /\ (L + 2) - L + 1 = 3
      BY <1>3
    <3>2. /\ DOMAIN printed.buf = DOMAIN out.buf \cup L .. L + 2
          /\ \A o \in L .. L + 2 : printed.buf[o] = end[o - L + 1]
          /\ \A o \in DOMAIN out.buf \ (L .. L + 2) : printed.buf[o] = out.buf[o]
      BY <2>2, <3>1 DEF Written
    <3>3. printed.buf[L] = end[1] /\ printed.buf[L + 1] = end[2] /\ printed.buf[L + 2] = end[3]
      BY <3>1, <3>2
    <3>. QED BY <1>6, <3>2, <3>3
  <2>4. DOMAIN printed.buf \subseteq 0 .. n - 1
    <3>1. L .. L + 2 \subseteq 0 .. n - 1
      BY <1>3, <1>5, <1>7, <1>8
    <3>. QED BY <1>4, <2>3, <3>1
  <2>5. ASSUME NEW o \in 0 .. Len(whole) - 1 PROVE printed.buf[o] = whole[o + 1]
    <3>1. CASE o < L
      <4>1. o \in 0 .. L - 1 /\ o < n - 1 /\ o \notin L .. L + 2 /\ o + 1 \in 1 .. L
        BY <1>3, <1>5, <1>7, <1>8, <3>1
      <4>2. o \in DOMAIN out.buf /\ out.buf[o] = lines[o + 1]
        BY <1>4, <4>1
      <4>. QED BY <1>3, <2>3, <4>1, <4>2
    <3>2. CASE o = L
      BY <1>3, <2>3, <3>2
    <3>3. CASE o = L + 1
      <4>1. o + 1 = L + 2
        BY <1>3, <3>3
      <4>. QED BY <1>3, <2>3, <3>3, <4>1
    <3>4. o < L \/ o = L \/ o = L + 1
      BY <1>3
    <3>. QED BY <3>1, <3>2, <3>3, <3>4
  <2>6. Len(whole) \in DOMAIN printed.buf /\ printed.buf[Len(whole)] = NUL
    <3>1. L + 2 \in L .. L + 2
      BY <1>3
    <3>. QED BY <1>3, <2>3, <3>1
  <2>7. Text(printed.buf) = whole
    BY <1>2, <2>4, <2>5, <2>6, TextIs
  <2>8. printed.len = Len(whole)
    BY <1>1, <1>3, <1>4
  <2>. QED BY <2>4, <2>7, <2>8 DEF printed, whole
<1>9. CASE ~ room
  <2>1. printed.buf = out.buf
    BY <1>1, <1>9
  <2>2. ~ (n > Len(whole)) /\ printed.len = Len(whole)
    BY <1>1, <1>3, <1>4, <1>7, <1>9
  <2>. QED BY <1>4, <2>1, <2>2 DEF printed, whole
<1>. QED BY <1>8, <1>9
-----------------------------------------------------------------------------
(* The specification: the lists are sound and no name comes twice on one of them. *)
ListsGood == Sound(mem, dest, src) /\ Good(Entries(mem, dest)) /\ Good(Entries(mem, src))

LEMMA NoneGood == Good(<<>>) /\ FieldsOf(<<>>) = <<>>
<1>1. Pairs(<<>>, 0)
  BY DEF Pairs
<1>. QED BY <1>1 DEF Good, Unique, FieldsOf

LEMMA InitGood == Init => ListsGood
<1>. SUFFICES ASSUME Init PROVE ListsGood
  OBVIOUS
<1>1. mem = Empty /\ dest = NULL /\ src = NULL
  BY DEF Init, list_new
<1>2. <<>> \in Seq(Node) /\ Len(<<>>) = 0
  OBVIOUS
<1>3. mem.live = {} /\ mem.node = [x \in Node |-> Garbage]
  BY <1>1 DEF Empty
<1>4. Heap(mem)
  BY <1>1, <1>3 DEF Heap, Empty, Garbage
<1>5. Chain(mem, NULL, <<>>)
  BY <1>2 DEF Chain
<1>6. Apart(mem, NULL, NULL, <<>>, <<>>)
  BY <1>2, <1>3, <1>4, <1>5 DEF Apart
<1>7. Sound(mem, dest, src)
  BY <1>1, <1>2, <1>6 DEF Sound
<1>8. Entries(mem, dest) = <<>> /\ Entries(mem, src) = <<>>
  <2>1. Entries(mem, NULL) = [i \in 1 .. Len(<<>>) |-> mem.node[<<>>[i]].data]
    BY <1>5, ChainEntries
  <2>. QED BY <1>1, <1>2, <2>1
<1>. QED BY <1>7, <1>8, NoneGood DEF ListsGood

LEMMA FieldsAre == ASSUME NEW m, NEW list PROVE Fields(m, list) = FieldsOf(Entries(m, list))
BY DEF Fields

(* A call on dest or on src that leaves these fields. *)
LEMMA DestLeaves ==
  ASSUME ListsGood, NEW f, NEW r, Leaves(r, src, f, Entries(mem, src)),
         mem' = r.mem, dest' = r.head, src' = src
  PROVE  ListsGood' /\ Fields(mem', dest') = f /\ Fields(mem', src') = Fields(mem, src)
<1>1. Sound(mem', dest', src') /\ Good(Entries(mem', dest')) /\ Entries(mem', src') = Entries(mem, src)
      /\ FieldsOf(Entries(mem', dest')) = f
  BY DEF Leaves
<1>2. Good(Entries(mem', src'))
  BY <1>1 DEF ListsGood
<1>. QED BY <1>1, <1>2, FieldsAre DEF ListsGood

LEMMA SrcLeaves ==
  ASSUME ListsGood, NEW f, NEW r, Leaves(r, dest, f, Entries(mem, dest)),
         mem' = r.mem, src' = r.head, dest' = dest
  PROVE  ListsGood' /\ Fields(mem', src') = f /\ Fields(mem', dest') = Fields(mem, dest)
<1>1. Sound(mem', src', dest') /\ Good(Entries(mem', src')) /\ Entries(mem', dest') = Entries(mem, dest)
      /\ FieldsOf(Entries(mem', src')) = f
  BY DEF Leaves
<1>2. Good(Entries(mem', dest')) /\ Sound(mem', dest', src')
  BY <1>1, SoundSwaps DEF ListsGood
<1>. QED BY <1>1, <1>2, FieldsAre DEF ListsGood

LEMMA FreeLeaves ==
  ASSUME NEW m, NEW list, NEW other, Sound(m, list, other)
  PROVE  Leaves(params_free(m, list), other, <<>>, Entries(m, other))
BY FreeHolds, NoneGood DEF params_free, Holds, Leaves

LEMMA MergeLeaves ==
  ASSUME NEW m, NEW to, NEW from, Sound(m, to, from), Good(Entries(m, to)), Good(Entries(m, from)),
         NEW r \in params_merge(m, to, from)
  PROVE  Leaves(r, from, F!Merged(FieldsOf(Entries(m, to)), FieldsOf(Entries(m, from))), Entries(m, from))
<1>. DEFINE base == {[head |-> to, mem |-> m]}
            seq == Entries(m, from)
            all == F!FoldLeft(LAMBDA all, field : F!Joined(all, field.name, field.value),
                              FieldsOf(Entries(m, to)), FieldsOf(seq))
<1>1. PICK n \in Nat : Pairs(seq, n)
  BY DEF Good
<1>2. DOMAIN seq = 1 .. n /\ \A i \in 1 .. n : Plain(seq[i].key) /\ Plain(seq[i].value)
  BY <1>1 DEF Pairs
<1>3. \A q \in base : Leaves(q, from, FieldsOf(Entries(m, to)), Entries(m, from))
  BY DEF Leaves
<1>4. \A q \in params_merge(m, to, from) : Leaves(q, from, all, Entries(m, from))
  <2>. HIDE DEF base, seq
  <2>1. \A q \in FoldLeft(LAMBDA results, entry :
                             UNION {params_append(p.mem, p.head, entry.key, entry.value) : p \in results},
                          base, seq) : Leaves(q, from, all, Entries(m, from))
    BY <1>2, <1>3, FoldLeaves
  <2>. QED BY <2>1 DEF params_merge, base, seq
<1>5. all = F!Merged(FieldsOf(Entries(m, to)), FieldsOf(Entries(m, from)))
  BY DEF F!Merged
<1>. QED BY <1>4, <1>5

(* All fields joined to none. *)
AllJoined(g) == F!FoldLeft(LAMBDA all, field : F!Joined(all, field.name, field.value), <<>>, g)

(* The pairs of a query, one after the other, on the list that was empty. *)
LEMMA ParseLeaves ==
  ASSUME ListsGood, NEW text \in Query, Parse(text), params_new_parse_query(text) # NULL
  PROVE  /\ ~ stuck'
         /\ ListsGood' /\ Fields(mem', src') = AllJoined(FieldsOf(params_new_parse_query(text)))
         /\ Fields(mem', dest') = Fields(mem, dest) /\ Fields(mem, src) = <<>>
<1>. DEFINE pairs == params_new_parse_query(text)
            base == {[head |-> src, mem |-> mem]}
            f == F!FoldLeft(LAMBDA all, field : F!Joined(all, field.name, field.value),
                            FieldsOf(Entries(mem, src)), FieldsOf(pairs))
<1>. DEFINE results == FoldLeft(LAMBDA results, pair :
                                UNION {params_append(r.mem, r.head, pair.key, pair.value) : r \in results},
                             base, pairs)
<1>1. dest' = dest /\ src = NULL /\ ~ stuck' /\ \E result \in results : mem' = result.mem /\ src' = result.head
  <2>1. /\ ~ stuck /\ src = NULL /\ dest' = dest
        /\ \/ pairs = NULL
           \/ stuck' = stuck /\ \E result \in results : mem' = result.mem /\ src' = result.head
    BY Zenon DEF Parse, list_new
  <2>. HIDE DEF results
  <2>. QED BY <2>1
<1>2. Plain(text)
  BY GivenPlain
<1>3. PICK T : pairs \in Seq(T) /\ \A x \in T : Plain(x.key) /\ Plain(x.value)
  BY <1>2, ParsedPairs DEF params_new_parse_query
<1>. HIDE DEF pairs
<1>4. /\ Len(pairs) \in Nat /\ DOMAIN pairs = 1 .. Len(pairs)
      /\ \A i \in 1 .. Len(pairs) : Plain(pairs[i].key) /\ Plain(pairs[i].value)
  BY <1>3
<1>5. \A q \in base : Leaves(q, dest, FieldsOf(Entries(mem, src)), Entries(mem, dest))
  BY SoundSwaps DEF Leaves, ListsGood
<1>. HIDE DEF base
<1>6. \A q \in FoldLeft(LAMBDA before, entry :
                         UNION {params_append(p.mem, p.head, entry.key, entry.value) : p \in before},
                      base, pairs) : Leaves(q, dest, f, Entries(mem, dest))
  BY <1>4, <1>5, FoldLeaves
<1>. HIDE DEF f
<1>7. PICK r : mem' = r.mem /\ src' = r.head /\ Leaves(r, dest, f, Entries(mem, dest))
  <2>1. \A q \in results : Leaves(q, dest, f, Entries(mem, dest))
    BY <1>6
  <2>. HIDE DEF results
  <2>. QED BY <1>1, <2>1
<1>8. ListsGood' /\ Fields(mem', src') = f /\ Fields(mem', dest') = Fields(mem, dest)
  BY <1>1, <1>7, SrcLeaves
<1>9. Entries(mem, src) = <<>>
  <2>1. Sound(mem, src, dest)
    BY SoundSwaps DEF ListsGood
  <2>2. PICK w \in Seq(Node) : Chain(mem, src, w)
    BY <2>1 DEF Sound, Apart
  <2>3. w = <<>>
    <3>1. w # <<>> => 1 \in 1 .. Len(w)
      BY EmptySeq
    <3>2. w # <<>> => w[1] \in Node
      BY <3>1
    <3>. QED BY <1>1, <2>2, <3>2, NodeAssumption DEF Chain
  <2>4. Entries(mem, src) = [i \in 1 .. Len(w) |-> mem.node[w[i]].data]
    BY <2>2, ChainEntries
  <2>. QED BY <2>3, <2>4
<1>10. Fields(mem, src) = <<>> /\ FieldsOf(Entries(mem, src)) = <<>>
  BY <1>9, NoneGood, FieldsAre
<1>11. f = AllJoined(FieldsOf(pairs))
  BY <1>10 DEF f, AllJoined
<1>. QED BY <1>1, <1>8, <1>10, <1>11 DEF pairs

LEMMA StepGood == ListsGood /\ [Next]_vars => ListsGood'
<1>. SUFFICES ASSUME ListsGood, [Next]_vars PROVE ListsGood'
  OBVIOUS
<1>0. /\ Sound(mem, dest, src) /\ Good(Entries(mem, dest)) /\ Good(Entries(mem, src))
      /\ Fields(mem, dest) = FieldsOf(Entries(mem, dest)) /\ Fields(mem, src) = FieldsOf(Entries(mem, src))
  BY FieldsAre DEF ListsGood
<1>1. ASSUME NEW key \in Key, NEW value \in Value, AppendField(key, value) PROVE ListsGood'
  <2>1. PICK r \in params_append(mem, dest, key, value) : mem' = r.mem /\ dest' = r.head /\ src' = src
    BY <1>1 DEF AppendField, Dest
  <2>. DEFINE f == F!Joined(FieldsOf(Entries(mem, dest)), Fold(key), value)
  <2>2. Leaves(r, src, f, Entries(mem, src))
    BY <1>0, GivenPlain, ParamsAppendLeaves
  <2>. HIDE DEF f
  <2>. QED BY <2>1, <2>2, DestLeaves
<1>2. ASSUME NEW key \in Key, NEW value \in Value, ReplaceField(key, value) PROVE ListsGood'
  <2>1. PICK r \in params_replace(mem, dest, key, value) : mem' = r.mem /\ dest' = r.head /\ src' = src
    BY <1>2 DEF ReplaceField, Dest
  <2>. DEFINE f == F!Replaced(FieldsOf(Entries(mem, dest)), Fold(key), value)
  <2>2. Leaves(r, src, f, Entries(mem, src))
    BY <1>0, ParamsReplaceLeaves
  <2>. HIDE DEF f
  <2>. QED BY <2>1, <2>2, DestLeaves
<1>3. ASSUME NEW key \in Key, RemoveField(key) PROVE ListsGood'
  <2>. DEFINE r == params_remove(mem, dest, key)
  <2>1. mem' = r.mem /\ dest' = r.head /\ src' = src
    BY <1>3 DEF RemoveField, Dest
  <2>2. PICK f : Leaves(r, src, f, Entries(mem, src))
    BY <1>0, ParamsRemoveLeaves
  <2>. HIDE DEF r
  <2>. QED BY <2>1, <2>2, DestLeaves
<1>4. ASSUME Merge PROVE ListsGood'
  <2>1. PICK r \in params_merge(mem, dest, src) : mem' = r.mem /\ dest' = r.head /\ src' = src
    BY <1>4 DEF Merge, Dest
  <2>2. PICK f : Leaves(r, src, f, Entries(mem, src))
    BY <1>0, MergeLeaves
  <2>. QED BY <2>1, <2>2, DestLeaves
<1>5. ASSUME Free PROVE ListsGood'
  <2>. DEFINE r == params_free(mem, dest)
  <2>1. mem' = r.mem /\ dest' = r.head /\ src' = src
    BY <1>5 DEF Free, Dest
  <2>2. Leaves(r, src, <<>>, Entries(mem, src))
    BY <1>0, FreeLeaves
  <2>. HIDE DEF r
  <2>. QED BY <2>1, <2>2, DestLeaves
<1>6. ASSUME FreeSrc PROVE ListsGood'
  <2>. DEFINE r == params_free(mem, src)
  <2>1. mem' = r.mem /\ src' = r.head /\ dest' = dest
    BY <1>6 DEF FreeSrc
  <2>2. Leaves(r, dest, <<>>, Entries(mem, dest))
    BY <1>0, SoundSwaps, FreeLeaves
  <2>. HIDE DEF r
  <2>. QED BY <2>1, <2>2, SrcLeaves
<1>7. ASSUME NEW text \in Query, Parse(text) PROVE ListsGood'
  <2>. DEFINE pairs == params_new_parse_query(text)
  <2>1. dest' = dest
    BY <1>7 DEF Parse
  <2>2. CASE mem' = mem /\ src' = src
    BY <1>0, <2>1, <2>2 DEF ListsGood
  <2>3. CASE pairs # NULL
    BY <1>7, <2>3, ParseLeaves
  <2>4. pairs = NULL => mem' = mem /\ src' = src
    BY <1>7 DEF Parse
  <2>. QED BY <2>2, <2>3, <2>4
<1>8. ASSUME UNCHANGED vars PROVE ListsGood'
  <2>1. mem' = mem /\ dest' = dest /\ src' = src
    BY <1>8 DEF vars
  <2>. QED BY <1>0, <2>1 DEF ListsGood
<1>. QED BY <1>1, <1>2, <1>3, <1>4, <1>5, <1>6, <1>7, <1>8 DEF Next

LEMMA AlwaysGood == Spec => []ListsGood
<1>1. Init => ListsGood
  BY InitGood
<1>2. ListsGood /\ [Next]_vars => ListsGood'
  BY StepGood
<1>. QED BY <1>1, <1>2, PTL DEF Spec

(* The text of a query is no longer than a size_t can count: its names and values are all in
   memory, and each takes more than the two characters that are put with it. *)
QueryInSize == Len(LinesOf(Entries(mem, dest), "query")) <= SizeMod

LEMMA GoodFits == Good(Entries(mem, dest)) => (QueryInSize => PrintFits)
<1>. SUFFICES ASSUME Good(Entries(mem, dest)), QueryInSize PROVE PrintFits
  OBVIOUS
<1>. DEFINE entries == Entries(mem, dest)
            whole(style) == IF style = "query"
                            THEN SubSeq(LinesOf(entries, style), 1, Len(LinesOf(entries, style)) - 1)
                            ELSE LinesOf(entries, style) \o <<"\r", "\n">>
            odd(style, n) == IF style = "query" THEN LinesOf(entries, style) = <<>> \/ Len(whole(style)) = n ELSE n = 1
            Fits(style, n) == LET printed == params_snprint(n, entries, style) IN
                              /\ DOMAIN printed.buf \subseteq 0 .. n - 1
                              /\ printed.len = Len(whole(style))
                              /\ n > Len(whole(style)) => Text(printed.buf) = whole(style)
<1>1. PICK len \in Nat : Pairs(entries, len)
  BY DEF Good
<1>2. Len(LinesOf(entries, "query")) <= SizeMod
  BY DEF QueryInSize
<1>. HIDE DEF entries
<1>3. ASSUME NEW style \in Style, NEW n \in 0 .. MaxBuffer, ~ odd(style, n) PROVE Fits(style, n)
  <2>. DEFINE lines == LinesOf(entries, style)
  <2>1. n \in Nat
    BY PrintAssumption
  <2>2. Plain(lines) /\ Printed(snprint_params_format(n, entries, style), lines, n)
    BY <1>1, <2>1, FormatPrinted
  <2>3. CASE style = "query"
    <3>1. lines # <<>> /\ Len(SubSeq(lines, 1, Len(lines) - 1)) # n /\ Len(lines) <= SizeMod
      BY <1>2, <1>3, <2>3
    <3>2. Len(SubSeq(lines, 1, Len(lines) - 1)) = Len(lines) - 1
      <4>1. PICK T : lines \in Seq(T)
        BY <2>2 DEF Plain
      <4>. HIDE DEF lines
      <4>2. /\ Len(lines) \in Nat /\ Len(lines) # 0
            /\ \A i \in 1 .. Len(lines) - 1 : lines[i] \in T
        BY <3>1, <4>1, EmptySeq
      <4>3. 1 \in Int /\ Len(lines) - 1 \in Int
        BY <4>2
      <4>4. Len(SubSeq(lines, 1, Len(lines) - 1)) = IF 1 <= Len(lines) - 1 THEN Len(lines) - 1 - 1 + 1 ELSE 0
        BY <4>1, <4>2, <4>3, SubSeqProperties
      <4>. DEFINE L == Len(lines)
      <4>5. L \in Nat /\ L # 0
        BY <4>2
      <4>6. (IF 1 <= L - 1 THEN L - 1 - 1 + 1 ELSE 0) = L - 1
        <5>. HIDE DEF L
        <5>. QED BY <4>5
      <4>. QED BY <4>4, <4>6
    <3>3. Len(lines) - 1 # n /\ Printed(snprint_params_format(n, entries, "query"), lines, n)
      BY <2>2, <2>3, <3>1, <3>2
    <3>. HIDE DEF lines
    <3>4. LET printed == params_snprint(n, entries, "query")
              all == SubSeq(lines, 1, Len(lines) - 1) IN
          /\ DOMAIN printed.buf \subseteq 0 .. n - 1
          /\ printed.len = Len(all)
          /\ n > Len(all) => Text(printed.buf) = all
      BY <2>2, <3>1, <3>3, QueryFits
    <3>. QED BY <2>3, <3>4 DEF lines
  <2>4. CASE style = "headers"
    <3>1. n # 1 /\ Printed(snprint_params_format(n, entries, "headers"), lines, n)
      BY <1>3, <2>2, <2>4
    <3>. HIDE DEF lines
    <3>2. LET printed == params_snprint(n, entries, "headers")
              all == lines \o <<"\r", "\n">> IN
          /\ DOMAIN printed.buf \subseteq 0 .. n - 1
          /\ printed.len = Len(all)
          /\ n > Len(all) => Text(printed.buf) = all
      BY <2>2, <3>1, HeadersFit
    <3>. QED BY <2>4, <3>2 DEF lines
  <2>. QED BY <2>3, <2>4 DEF Style
<1>. QED BY <1>3 DEF PrintFits, LinesOf, entries

LEMMA ChainIsChained ==
  ASSUME NEW m, NEW list, NEW w, Chain(m, list, w) PROVE Chained(m, list)
<1>1. Walk(m, list) = w
  BY WalkFinds
<1>2. w \in Seq(Node)
  BY DEF Chain
<1>3. DOMAIN w = 1 .. Len(w) /\ ToSet(w) = {w[i] : i \in 1 .. Len(w)}
  BY <1>2 DEF ToSet
<1>4. IsInjective(w)
  BY <1>3 DEF Chain, IsInjective
<1>5. ToSet(w) \subseteq m.live
  <2>1. \A i \in 1 .. Len(w) : w[i] \in m.live
    BY DEF Chain
  <2>. QED BY <1>3, <2>1
<1>6. \A i \in DOMAIN w : /\ m.node[w[i]].prev = IF i = 1 THEN NULL ELSE w[i - 1]
                          /\ m.node[w[i]].next = IF i = Len(w) THEN NULL ELSE w[i + 1]
  BY <1>3 DEF Chain
<1>. QED BY <1>1, <1>4, <1>5, <1>6 DEF Chained

LEMMA SoundLists == Sound(mem, dest, src) => ListsSound
<1>. SUFFICES ASSUME Sound(mem, dest, src) PROVE ListsSound
  OBVIOUS
<1>1. PICK w, v \in Seq(Node) : Apart(mem, dest, src, w, v)
  BY DEF Sound
<1>2. Walk(mem, dest) = w /\ Walk(mem, src) = v /\ Chained(mem, dest) /\ Chained(mem, src)
  BY <1>1, WalkFinds, ChainIsChained DEF Apart
<1>3. ToSet(w) = {w[i] : i \in 1 .. Len(w)} /\ ToSet(v) = {v[i] : i \in 1 .. Len(v)}
  BY DEF ToSet
<1>4. ToSet(w) \cap ToSet(v) = {}
  BY <1>1, <1>3 DEF Apart
<1>5. mem.live \subseteq ToSet(w) \cup ToSet(v)
  BY <1>1, <1>3 DEF Apart
<1>6. ToSet(w) \subseteq mem.live /\ ToSet(v) \subseteq mem.live
  BY <1>1, <1>3 DEF Apart, Chain
<1>. QED BY <1>2, <1>4, <1>5, <1>6 DEF ListsSound

\* The lists of params.c stay linked in both directions, apart, and in possession of all
\* that malloc has handed out, whatever calls are made in whatever order: params_append,
\* params_replace, params_remove, params_merge, params_free and the parser on any query,
\* for any names and values and any way of comparing names.
THEOREM ListsAlwaysSound == Spec => []ListsSound
<1>1. ListsGood => ListsSound
  BY SoundLists DEF ListsGood
<1>. QED BY <1>1, AlwaysGood, PTL

(* What a call on dest leaves, and what is left of src. *)
LEMMA LeavesGives ==
  ASSUME NEW r, NEW f, Leaves(r, src, f, Entries(mem, src)) PROVE Gives(r, f)
BY FieldsAre DEF Leaves, Gives

LEMMA GoodUnique == ASSUME NEW d, Unique(d) PROVE F!Unique(FieldsOf(d))
<1>1. ASSUME NEW i \in DOMAIN FieldsOf(d) PROVE F!Named(FieldsOf(d), FieldsOf(d)[i].name) = {i}
  <2>1. i \in DOMAIN d /\ FieldsOf(d)[i].name = Fold(d[i].key)
    BY DEF FieldsOf
  <2>. QED BY <2>1, NamedIs
<1>. QED BY <1>1 DEF F!Unique

LEMMA GoodMeans == ListsGood => CallsMean
<1>. SUFFICES ASSUME ListsGood PROVE CallsMean
  OBVIOUS
<1>. DEFINE d == Entries(mem, dest)
            fields == FieldsOf(d)
            others == FieldsOf(Entries(mem, src))
<1>0. /\ Sound(mem, dest, src) /\ Good(d) /\ Good(Entries(mem, src)) /\ Sound(mem, src, dest)
      /\ Fields(mem, dest) = fields /\ Fields(mem, src) = others
  BY SoundSwaps, FieldsAre DEF ListsGood
<1>1. F!Unique(fields) /\ F!Unique(others)
  BY <1>0, GoodUnique DEF Good
<1>2. ASSUME NEW key \in Key, NEW value \in Value, NEW r \in params_append(mem, dest, key, value)
      PROVE  Gives(r, F!Joined(fields, Fold(key), value))
  BY <1>0, GivenPlain, ParamsAppendLeaves, LeavesGives
<1>3. ASSUME NEW key \in Key, NEW value \in Value, NEW r \in params_replace(mem, dest, key, value)
      PROVE  Gives(r, F!Replaced(fields, Fold(key), value))
  BY <1>0, ParamsReplaceLeaves, LeavesGives
<1>4. ASSUME NEW key \in Key
      PROVE  Gives(params_remove(mem, dest, key),
                   IF Spelt(key) THEN F!Removed(fields, Fold(key)) ELSE fields)
  <2>1. Spelt(key) <=> \E i \in DOMAIN d : d[i].key = key
    BY DEF Spelt, ToSet
  <2>2. Leaves(params_remove(mem, dest, key), src, Remains(d, key), Entries(mem, src))
    BY <1>0, ParamsRemoveLeaves
  <2>3. Gives(params_remove(mem, dest, key), Remains(d, key))
    BY <2>2, LeavesGives
  <2>. QED BY <2>1, <2>3 DEF Remains
<1>5. ASSUME NEW r \in params_merge(mem, dest, src) PROVE Gives(r, F!Merged(fields, others))
  BY <1>0, MergeLeaves, LeavesGives
<1>6. Gives(params_free(mem, dest), <<>>)
  BY <1>0, FreeLeaves, LeavesGives
<1>7. Fields(params_free(mem, src).mem, dest) = fields
  <2>1. Entries(params_free(mem, src).mem, dest) = d
    BY <1>0, FreeLeaves DEF Leaves
  <2>. QED BY <2>1, FieldsAre
<1>. HIDE DEF fields, others
<1>. QED BY <1>0, <1>1, <1>2, <1>3, <1>4, <1>5, <1>6, <1>7 DEF CallsMean

\* What params.h promises, after whatever calls, of each call there can be: params_append
\* and params_merge join values by commas, params_replace and params_remove change the
\* field of that name alone, no call touches the other set, and no name comes twice
\* whatever its case. A name that is there in another spelling is not removed.
THEOREM CallsAlwaysMean == Spec => []CallsMean
BY GoodMeans, AlwaysGood, PTL

\* params_snprint of the set that is built, with whatever is appended, replaced, removed
\* or merged: for a buffer of any size it writes nothing outside, says the length of the
\* whole text, and leaves all of it in the buffer, ended by a NUL, when it fits. The
\* three cases PrintFits excepts are those in which the code does otherwise.
THEOREM PrintsWhatFits == Spec => [](QueryInSize => PrintFits)
<1>1. ListsGood => (QueryInSize => PrintFits)
  BY GoodFits DEF ListsGood
<1>. QED BY <1>1, AlwaysGood, PTL

-----------------------------------------------------------------------------
(* What a text is made of: the fields between the ends, the key of each and its value. *)
CutsOf(s, ends) == {0, Len(s) + 1} \cup {i \in DOMAIN s : s[i] \in ends}
FromsOf(s, ends) == {i \in 0 .. Len(s) - 1 : i \in CutsOf(s, ends) /\ i + 1 \notin CutsOf(s, ends)}
FieldAt(s, ends, i) == SubSeq(s, i + 1, Min({j \in CutsOf(s, ends) : j > i}) - 1)
Delims(f, vals) == {i \in DOMAIN f : f[i] \in vals}
KeyOf(f, vals) == SubSeq(f, 1, Min(Delims(f, vals)) - 1)
RestOf(f, vals) == {i \in DOMAIN f : i > Len(KeyOf(f, vals)) /\ f[i] \notin vals}
ValueIn(f, vals) == IF RestOf(f, vals) = {} THEN <<>> ELSE SubSeq(f, Min(RestOf(f, vals)), Len(f))
PairOf(f, vals) == [key |-> KeyOf(f, vals), value |-> ValueIn(f, vals)]
ProperIn(f, vals) == f[1] \notin vals /\ Delims(f, vals) # {}

LEMMA MinIs ==
  ASSUME NEW S, S \subseteq Nat, NEW x \in S, \A y \in S : x <= y PROVE Min(S) = x
<1>1. Min(S) \in S /\ \A y \in S : Min(S) <= y
  BY MinLeast
<1>2. Min(S) \in Nat /\ x \in Nat /\ Min(S) <= x /\ x <= Min(S)
  BY <1>1
<1>. QED BY <1>2

(* Where a scan stops: at the end, or at the first character that stops it. *)
Stops(s, n, i, e, stops) ==
  /\ e \in i .. n + 1
  /\ e = n + 1 \/ s[e] \in stops
  /\ \A j \in i .. e - 1 : s[j] \notin stops
Spans(s, n, i, e, class) ==
  /\ e \in i .. n + 1
  /\ e = n + 1 \/ s[e] \notin class
  /\ \A j \in i .. e - 1 : s[j] \in class

LEMMA StopsAt ==
  ASSUME NEW s, NEW n \in Nat, Len(s) = n, NEW i \in 1 .. n + 1, NEW stops
  PROVE  Stops(s, n, i, End(s, i, stops), stops)
<1>. DEFINE Ends == {j \in i .. n + 1 : j = n + 1 \/ s[j] \in stops}
<1>1. End(s, i, stops) = Min(Ends)
  BY DEF End
<1>2. Ends \subseteq Nat /\ n + 1 \in Ends
  OBVIOUS
<1>3. Min(Ends) \in Ends /\ \A j \in Ends : Min(Ends) <= j
  <2>. HIDE DEF Ends
  <2>. QED BY <1>2, MinLeast
<1>4. ASSUME NEW j \in i .. Min(Ends) - 1, s[j] \in stops PROVE FALSE
  <2>1. Min(Ends) \in i .. n + 1
    BY <1>3
  <2>2. j \in Ends /\ ~ (Min(Ends) <= j)
    BY <1>4, <2>1
  <2>. QED BY <1>3, <2>2
<1>. QED BY <1>1, <1>3, <1>4 DEF Stops

LEMMA CspanStops ==
  ASSUME NEW s, NEW n \in Nat, Len(s) = n, NEW i \in 1 .. n + 1, NEW stops
  PROVE  Stops(s, n, i, i + strcspn(s, i, stops), stops \cup {NUL})
<1>1. Stops(s, n, i, End(s, i, stops \cup {NUL}), stops \cup {NUL})
  BY StopsAt
<1>2. End(s, i, stops \cup {NUL}) \in i .. n + 1
  BY <1>1 DEF Stops
<1>3. i + strcspn(s, i, stops) = End(s, i, stops \cup {NUL})
  <2>. DEFINE e == End(s, i, stops \cup {NUL})
  <2>1. e \in i .. n + 1
    BY <1>2
  <2>2. strcspn(s, i, stops) = e - i
    BY DEF strcspn
  <2>. HIDE DEF e
  <2>3. i + (e - i) = e
    BY <2>1
  <2>. QED BY <2>2, <2>3 DEF e
<1>. QED BY <1>1, <1>3

LEMMA SpanSpans ==
  ASSUME NEW s, NEW n \in Nat, Len(s) = n, NEW i \in 1 .. n + 1, NEW class
  PROVE  Spans(s, n, i, i + strspn(s, i, class), class)
<1>. DEFINE Ends == {j \in i .. n + 1 : j = n + 1 \/ s[j] \notin class}
<1>1. strspn(s, i, class) = Min(Ends) - i
  BY DEF strspn
<1>2. Ends \subseteq Nat /\ n + 1 \in Ends
  OBVIOUS
<1>3. Min(Ends) \in Ends /\ \A j \in Ends : Min(Ends) <= j
  <2>. HIDE DEF Ends
  <2>. QED BY <1>2, MinLeast
<1>4. ASSUME NEW j \in i .. Min(Ends) - 1, s[j] \notin class PROVE FALSE
  <2>1. Min(Ends) \in i .. n + 1
    BY <1>3
  <2>2. j \in Ends /\ ~ (Min(Ends) <= j)
    BY <1>4, <2>1
  <2>. QED BY <1>3, <2>2
<1>5. Min(Ends) \in i .. n + 1 /\ (Min(Ends) = n + 1 \/ s[Min(Ends)] \notin class)
  BY <1>3
<1>. HIDE DEF Ends
<1>6. i + (Min(Ends) - i) = Min(Ends)
  BY <1>5
<1>. QED BY <1>1, <1>4, <1>5, <1>6 DEF Spans

LEMMA StringIs ==
  ASSUME NEW s, NEW n \in Nat, Len(s) = n, NEW i \in 1 .. n + 1, NEW e \in i .. n + 1,
         e = n + 1 \/ s[e] = NUL, \A j \in i .. e - 1 : s[j] # NUL
  PROVE  String(s, i) = SubSeq(s, i, e - 1)
<1>. DEFINE z == End(s, i, {NUL})
<1>1. Stops(s, n, i, z, {NUL})
  BY StopsAt
<1>2. String(s, i) = SubSeq(s, i, i + (z - i) - 1)
  <2>1. {} \cup {NUL} = {NUL}
    OBVIOUS
  <2>. QED BY <2>1 DEF String, strcspn
<1>. HIDE DEF z
<1>3. z \in i .. n + 1 /\ (z = n + 1 \/ s[z] = NUL) /\ \A j \in i .. z - 1 : s[j] # NUL
  BY <1>1 DEF Stops
<1>4. z = e
  <2>1. ~ (z < e)
    <3>1. ASSUME z < e PROVE FALSE
      <4>1. z \in i .. e - 1 /\ z # n + 1
        BY <1>3, <3>1
      <4>. QED BY <1>3, <4>1
    <3>. QED BY <3>1
  <2>2. ~ (e < z)
    <3>1. ASSUME e < z PROVE FALSE
      <4>1. e \in i .. z - 1 /\ e # n + 1
        BY <1>3, <3>1
      <4>. QED BY <1>3, <4>1
    <3>. QED BY <3>1
  <2>. QED BY <1>3, <2>1, <2>2
<1>5. i + (z - i) - 1 = e - 1
  BY <1>3, <1>4
<1>. QED BY <1>2, <1>5

LEMMA SubSeqIs ==
  ASSUME NEW S, NEW s \in Seq(S), NEW m \in 1 .. Len(s) + 1, NEW k \in 0 .. Len(s), m <= k + 1
  PROVE  /\ SubSeq(s, m, k) = [i \in 1 .. k - m + 1 |-> s[m + i - 1]]
         /\ SubSeq(s, m, k) \in Seq(S) /\ Len(SubSeq(s, m, k)) = k - m + 1
<1>1. Len(s) \in Nat /\ \A i \in 1 .. Len(s) : s[i] \in S
  OBVIOUS
<1>2. m \in Int /\ k \in Int /\ \A i \in m .. k : s[i] \in S
  BY <1>1
<1>. DEFINE r == SubSeq(s, m, k)
<1>3. /\ r \in Seq(S)
      /\ Len(r) = IF m <= k THEN k - m + 1 ELSE 0
      /\ \A i \in 1 .. k - m + 1 : r[i] = s[m + i - 1]
  BY <1>2, SubSeqProperties
<1>. HIDE DEF r
<1>4. Len(r) = k - m + 1
  BY <1>1, <1>3
<1>5. r = [i \in 1 .. k - m + 1 |-> r[i]]
  BY <1>3, <1>4, LenProperties
<1>. QED BY <1>3, <1>4, <1>5 DEF r

LEMMA PrefixIs ==
  ASSUME NEW S, NEW s \in Seq(S), NEW k \in 0 .. Len(s)
  PROVE  SubSeq(s, 1, k) = [i \in 1 .. k |-> s[i]] /\ Len(SubSeq(s, 1, k)) = k
<1>1. 1 \in 1 .. Len(s) + 1 /\ 1 <= k + 1 /\ k \in Nat
  OBVIOUS
<1>2. SubSeq(s, 1, k) = [i \in 1 .. k - 1 + 1 |-> s[1 + i - 1]] /\ Len(SubSeq(s, 1, k)) = k - 1 + 1
  BY <1>1, SubSeqIs
<1>3. k - 1 + 1 = k /\ \A i \in 1 .. k : 1 + i - 1 = i
  BY <1>1
<1>. QED BY <1>2, <1>3

LEMMA SubSeqSame ==
  ASSUME NEW S, NEW s \in Seq(S), NEW T, NEW t \in Seq(T), Len(s) = Len(t),
         NEW m \in 1 .. Len(s) + 1, NEW k \in 0 .. Len(s), m <= k + 1, \A j \in m .. k : s[j] = t[j]
  PROVE  SubSeq(s, m, k) = SubSeq(t, m, k)
<1>1. SubSeq(s, m, k) = [i \in 1 .. k - m + 1 |-> s[m + i - 1]] /\ SubSeq(t, m, k) = [i \in 1 .. k - m + 1 |-> t[m + i - 1]]
  BY SubSeqIs
<1>2. Len(s) \in Nat
  OBVIOUS
<1>3. \A i \in 1 .. k - m + 1 : m + i - 1 \in m .. k
  BY <1>2
<1>4. \A i \in 1 .. k - m + 1 : s[m + i - 1] = t[m + i - 1]
  BY <1>3
<1>. QED BY <1>1, <1>4

(* A pass over a text that has no NUL from key on. *)
Takes(t, n, key, vals, ends, pass, val, end, value, next) ==
  /\ Stops(t, n, key, val, vals)
  /\ Stops(t, n, key, end, ends)
  /\ Spans(t, n, val, value, vals)
  /\ Spans(t, n, end, next, ends)
  /\ pass.ends = (end = key)
  /\ pass.next = next
  /\ Len(pass.text) = n
  /\ \A j \in next .. n : pass.text[j] = t[j]
  /\ pass.field = IF val > key /\ val < end
                  THEN <<[key |-> SubSeq(t, key, val - 1), value |-> SubSeq(t, value, end - 1)]>> ELSE <<>>

LEMMA PassTakes ==
  ASSUME NEW S, NUL \in S, NEW t \in Seq(S), NEW n, n = Len(t), NEW key \in 1 .. n + 1, NEW vals, NEW ends,
         vals \cap ends = {}, \A j \in key .. n : t[j] # NUL
  PROVE  \E val, end, value, next : Takes(t, n, key, vals, ends, Pass(t, key, vals, ends), val, end, value, next)
<1>. DEFINE val == key + strcspn(t, key, vals)
            end == key + strcspn(t, key, ends)
            valued == val > key /\ val < end
            cut == IF valued THEN memset(t, val, strspn(t, val, vals)) ELSE t
            value == val + strspn(t, val, vals)
            next == end + strspn(cut, end, ends)
            u == memset(cut, end, next - end)
            pass == Pass(t, key, vals, ends)
<1>1. /\ pass.ends = (end = key) /\ pass.text = u /\ pass.next = next
      /\ pass.field = IF valued THEN <<[key |-> String(u, key), value |-> String(u, value)]>> ELSE <<>>
  BY DEF Pass
<1>2. n \in Nat /\ Len(t) = n /\ DOMAIN t = 1 .. n
  OBVIOUS
<1>3. Stops(t, n, key, val, vals)
  <2>1. Stops(t, n, key, val, vals \cup {NUL})
    BY <1>2, CspanStops
  <2>. HIDE DEF val
  <2>2. val \in key .. n + 1 /\ (val # n + 1 => val \in key .. n)
    BY <1>2, <2>1 DEF Stops
  <2>. QED BY <2>1, <2>2 DEF Stops
<1>4. Stops(t, n, key, end, ends)
  <2>1. Stops(t, n, key, end, ends \cup {NUL})
    BY <1>2, CspanStops
  <2>. HIDE DEF end
  <2>2. end \in key .. n + 1 /\ (end # n + 1 => end \in key .. n)
    BY <1>2, <2>1 DEF Stops
  <2>. QED BY <2>1, <2>2 DEF Stops
<1>. HIDE DEF pass
<1>5. val \in 1 .. n + 1 /\ end \in 1 .. n + 1 /\ end \in key .. n + 1 /\ val \in key .. n + 1
  <2>. HIDE DEF val, end
  <2>. QED BY <1>2, <1>3, <1>4 DEF Stops
<1>6. Spans(t, n, val, value, vals)
  <2>. HIDE DEF val
  <2>. QED BY <1>2, <1>5, SpanSpans
<1>7. strspn(t, val, vals) = value - val
  <2>. DEFINE k == strspn(t, val, vals)
  <2>1. value = val + k
    OBVIOUS
  <2>2. value \in Int /\ val \in Int /\ k \in Int
    <3>1. k = Min({j \in val .. n + 1 : j = n + 1 \/ t[j] \notin vals}) - val
      BY <1>2 DEF strspn
    <3>. DEFINE e == Min({j \in val .. n + 1 : j = n + 1 \/ t[j] \notin vals})
                E == {j \in val .. n + 1 : j = n + 1 \/ t[j] \notin vals}
    <3>. HIDE DEF val, k
    <3>2. E \subseteq Nat /\ n + 1 \in E
      BY <1>2, <1>5
    <3>. HIDE DEF E
    <3>3. Min(E) \in Nat
      BY <3>2, MinLeast
    <3>4. e \in Int
      BY <3>3 DEF E
    <3>. HIDE DEF e
    <3>5. k \in Int /\ val \in Int
      BY <1>5, <3>1, <3>4 DEF e
    <3>6. value \in Int
      BY <3>5, <2>1
    <3>. QED BY <3>5, <3>6
  <2>. HIDE DEF k, value, val
  <2>3. k = value - val
    BY <2>1, <2>2
  <2>. QED BY <2>3 DEF k
<1>8. cut = IF valued THEN memset(t, val, value - val) ELSE t
  BY <1>7
<1>9. next = end + strspn(cut, end, ends)
  OBVIOUS
<1>. HIDE DEF val, end, value, cut
<1>10. cut \in Seq(S) /\ Len(cut) = n
  BY <1>2, <1>8, MemsetText
<1>11. Spans(cut, n, end, next, ends)
  BY <1>2, <1>5, <1>10, SpanSpans
<1>. HIDE DEF next
<1>12. u \in Seq(S) /\ Len(u) = n /\ DOMAIN cut = 1 .. n
  BY <1>10, MemsetText
<1>13. \A j \in 1 .. n : u[j] = IF j \in end .. end + (next - end) - 1 THEN NUL ELSE cut[j]
  BY <1>12 DEF memset
<1>14. next \in end .. n + 1 /\ end + (next - end) - 1 = next - 1
  BY <1>5, <1>11 DEF Spans
<1>15. \A j \in 1 .. n : u[j] = IF j \in end .. next - 1 THEN NUL ELSE cut[j]
  BY <1>13, <1>14
<1>. HIDE DEF u
<1>16. valued => value \in val + 1 .. end
  <2>. SUFFICES ASSUME valued PROVE value \in val + 1 .. end
    OBVIOUS
  <2>1. val \in key .. n /\ t[val] \in vals
    BY <1>2, <1>3, <1>5 DEF Stops
  <2>2. value \in val .. n + 1 /\ (value = n + 1 \/ t[value] \notin vals) /\ \A j \in val .. value - 1 : t[j] \in vals
    BY <1>6 DEF Spans
  <2>3. value # val
    BY <1>2, <2>1, <2>2
  <2>4. ~ (end < value)
    <3>1. ASSUME end < value PROVE FALSE
      <4>1. end \in val .. value - 1 /\ end # n + 1
        BY <1>2, <1>5, <2>2, <3>1
      <4>2. t[end] \in vals /\ t[end] \in ends
        BY <1>4, <2>2, <4>1 DEF Stops
      <4>. QED BY <4>2
    <3>. QED BY <3>1
  <2>. QED BY <1>2, <1>5, <2>2, <2>3, <2>4
<1>17. \A j \in 1 .. n : cut[j] = IF valued /\ j \in val .. value - 1 THEN NUL ELSE t[j]
  <2>1. CASE valued
    <3>1. val + (value - val) - 1 = value - 1
      BY <1>2, <1>5, <1>16, <2>1
    <3>. QED BY <1>2, <1>8, <2>1, <3>1 DEF memset
  <2>2. CASE ~ valued
    BY <1>8, <2>2
  <2>. QED BY <2>1, <2>2
<1>18. \A j \in end .. n : cut[j] = t[j]
  <2>1. ASSUME NEW j \in end .. n PROVE cut[j] = t[j]
    <3>1. j \in 1 .. n /\ (valued => j \notin val .. value - 1)
      BY <1>2, <1>5, <1>16
    <3>. QED BY <1>17, <3>1
  <2>. QED BY <2>1
<1>19. Spans(t, n, end, next, ends)
  <2>1. \A j \in end .. next - 1 : t[j] \in ends
    <3>1. ASSUME NEW j \in end .. next - 1 PROVE t[j] \in ends
      <4>1. j \in end .. n /\ cut[j] \in ends
        BY <1>2, <1>5, <1>11, <1>14 DEF Spans
      <4>. QED BY <1>18, <4>1
    <3>. QED BY <3>1
  <2>2. next = n + 1 \/ t[next] \notin ends
    <3>1. next # n + 1 => next \in end .. n
      BY <1>2, <1>5, <1>14
    <3>. QED BY <1>11, <1>18, <3>1 DEF Spans
  <2>. QED BY <1>14, <2>1, <2>2 DEF Spans
<1>20. \A j \in next .. n : u[j] = t[j]
  <2>1. ASSUME NEW j \in next .. n PROVE u[j] = t[j]
    <3>1. j \in 1 .. n /\ j \in end .. n /\ j \notin end .. next - 1
      BY <1>2, <1>5, <1>14
    <3>. QED BY <1>15, <1>18, <3>1
  <2>. QED BY <2>1
<1>21. ASSUME valued
       PROVE  String(u, key) = SubSeq(t, key, val - 1) /\ String(u, value) = SubSeq(t, value, end - 1)
  <2>1. val \in key + 1 .. end - 1 /\ value \in val + 1 .. end /\ end <= n + 1 /\ key >= 1
    BY <1>2, <1>5, <1>16, <1>21
  <2>2. u[val] = NUL
    <3>1. val \in 1 .. n /\ val \in val .. value - 1 /\ val \notin end .. next - 1
      BY <1>2, <1>5, <1>14, <2>1
    <3>. QED BY <1>15, <1>17, <1>21, <3>1
  <2>3. \A j \in key .. val - 1 : u[j] = t[j] /\ t[j] # NUL
    <3>1. ASSUME NEW j \in key .. val - 1 PROVE u[j] = t[j] /\ t[j] # NUL
      <4>1. j \in 1 .. n /\ j \in key .. n /\ j \notin val .. value - 1 /\ j \notin end .. next - 1
        BY <1>2, <1>5, <1>14, <2>1
      <4>. QED BY <1>15, <1>17, <4>1
    <3>. QED BY <3>1
  <2>4. \A j \in value .. end - 1 : u[j] = t[j] /\ t[j] # NUL
    <3>1. ASSUME NEW j \in value .. end - 1 PROVE u[j] = t[j] /\ t[j] # NUL
      <4>1. j \in 1 .. n /\ j \in key .. n /\ j \notin val .. value - 1 /\ j \notin end .. next - 1
        BY <1>2, <1>5, <1>14, <2>1
      <4>. QED BY <1>15, <1>17, <4>1
    <3>. QED BY <3>1
  <2>5. end = n + 1 \/ u[end] = NUL
    <3>1. ASSUME end # n + 1 PROVE u[end] = NUL
      <4>1. end \in 1 .. n /\ t[end] \in ends
        BY <1>2, <1>4, <1>5, <3>1 DEF Stops
      <4>2. next # end
        BY <1>19, <3>1, <4>1 DEF Spans
      <4>3. end \in end .. next - 1
        BY <1>2, <1>14, <4>1, <4>2
      <4>. QED BY <1>15, <4>1, <4>3
    <3>. QED BY <3>1
  <2>6. String(u, key) = SubSeq(u, key, val - 1)
    <3>1. val \in key .. n + 1 /\ \A j \in key .. val - 1 : u[j] # NUL
      BY <1>2, <1>5, <2>1, <2>3
    <3>. QED BY <1>2, <1>12, <2>2, <3>1, StringIs
  <2>7. String(u, value) = SubSeq(u, value, end - 1)
    <3>1. value \in 1 .. n + 1 /\ end \in value .. n + 1 /\ \A j \in value .. end - 1 : u[j] # NUL
      BY <1>2, <1>5, <2>1, <2>4
    <3>. QED BY <1>2, <1>12, <2>5, <3>1, StringIs
  <2>8. SubSeq(u, key, val - 1) = SubSeq(t, key, val - 1)
    <3>1. key \in 1 .. Len(u) + 1 /\ val - 1 \in 0 .. Len(u) /\ key <= (val - 1) + 1 /\ Len(u) = Len(t)
      BY <1>2, <1>5, <1>12, <2>1
    <3>2. \A j \in key .. val - 1 : u[j] = t[j]
      BY <2>3
    <3>. QED BY <1>12, <3>1, <3>2, SubSeqSame
  <2>9. SubSeq(u, value, end - 1) = SubSeq(t, value, end - 1)
    <3>1. value \in 1 .. Len(u) + 1 /\ end - 1 \in 0 .. Len(u) /\ value <= (end - 1) + 1 /\ Len(u) = Len(t)
      BY <1>2, <1>5, <1>12, <2>1
    <3>2. \A j \in value .. end - 1 : u[j] = t[j]
      BY <2>4
    <3>. QED BY <1>12, <3>1, <3>2, SubSeqSame
  <2>. QED BY <2>6, <2>7, <2>8, <2>9
<1>22. pass.field = IF valued THEN <<[key |-> SubSeq(t, key, val - 1), value |-> SubSeq(t, value, end - 1)]>> ELSE <<>>
  BY <1>1, <1>21
<1>23. Takes(t, n, key, vals, ends, pass, val, end, value, next)
  BY <1>1, <1>3, <1>4, <1>6, <1>12, <1>19, <1>20, <1>22 DEF Takes
<1>. QED BY <1>23 DEF pass

(* The field that begins behind a cut. *)
LEMMA FieldIs ==
  ASSUME NEW S, NEW s \in Seq(S), NEW n, n = Len(s), NEW ends, NEW i \in FromsOf(s, ends),
         NEW end, Stops(s, n, i + 1, end, ends)
  PROVE  i \in 0 .. n - 1 /\ end \in i + 2 .. n + 1 /\ FieldAt(s, ends, i) = SubSeq(s, i + 1, end - 1)
<1>. DEFINE Later == {j \in CutsOf(s, ends) : j > i}
<1>1. n \in Nat /\ DOMAIN s = 1 .. n
  OBVIOUS
<1>2. i \in 0 .. n - 1 /\ i + 1 \in 1 .. n /\ s[i + 1] \notin ends
  <2>1. i \in 0 .. n - 1 /\ i + 1 \notin CutsOf(s, ends)
    BY DEF FromsOf
  <2>2. i + 1 \in 1 .. n
    BY <1>1, <2>1
  <2>. QED BY <1>1, <2>1, <2>2 DEF CutsOf
<1>3. end \in i + 1 .. n + 1 /\ (end = n + 1 \/ s[end] \in ends) /\ \A j \in i + 1 .. end - 1 : s[j] \notin ends
  BY DEF Stops
<1>4. end \in i + 2 .. n + 1
  <2>1. end # i + 1
    BY <1>1, <1>2, <1>3
  <2>. QED BY <1>1, <1>2, <1>3, <2>1
<1>5. end \in Later
  <2>1. end = n + 1 \/ end \in 1 .. n
    BY <1>1, <1>2, <1>4
  <2>2. end \in CutsOf(s, ends)
    BY <1>1, <1>3, <2>1 DEF CutsOf
  <2>3. end > i
    BY <1>2, <1>4
  <2>. QED BY <2>2, <2>3
<1>6. Later \subseteq Nat
  <2>1. CutsOf(s, ends) \subseteq Nat
    BY <1>1 DEF CutsOf
  <2>. QED BY <2>1
<1>7. ASSUME NEW y \in Later PROVE end <= y
  <2>1. y \in Nat /\ y > i /\ (y = n + 1 \/ (y \in 1 .. n /\ s[y] \in ends))
    <3>1. y \in Nat /\ y > i /\ y \in CutsOf(s, ends)
      BY <1>6
    <3>2. y # 0
      BY <1>2, <3>1
    <3>. QED BY <1>1, <3>1, <3>2 DEF CutsOf
  <2>2. CASE y = n + 1
    BY <1>1, <1>2, <1>4, <2>2
  <2>3. CASE y \in 1 .. n /\ s[y] \in ends
    <3>1. y \notin i + 1 .. end - 1
      BY <1>3, <2>3
    <3>. QED BY <1>1, <1>2, <1>4, <2>1, <2>3, <3>1
  <2>. QED BY <2>1, <2>2, <2>3
<1>8. Min(Later) = end
  <2>. HIDE DEF Later
  <2>. QED BY <1>5, <1>6, <1>7, MinIs
<1>. QED BY <1>2, <1>4, <1>8 DEF FieldAt

(* Its key and its value. *)
LEMMA PairIs ==
  ASSUME NEW S, NEW t \in Seq(S), NEW n, n = Len(t), NEW key \in 1 .. n, NEW end \in key + 1 .. n + 1,
         NEW vals, NEW val, Stops(t, n, key, val, vals), NEW value, Spans(t, n, val, value, vals),
         val < end => value <= end
  PROVE  LET f == SubSeq(t, key, end - 1) IN
         /\ val > key /\ val < end =>
               /\ ProperIn(f, vals)
               /\ PairOf(f, vals) = [key |-> SubSeq(t, key, val - 1), value |-> SubSeq(t, value, end - 1)]
         /\ ~ (val > key /\ val < end) => ~ ProperIn(f, vals)
<1>. DEFINE f == SubSeq(t, key, end - 1)
            l == end - key
            d == val - key + 1
<1>1. n \in Nat /\ DOMAIN t = 1 .. n /\ Len(t) = n /\ l \in Nat /\ l >= 1 /\ key + l = end
  OBVIOUS
<1>2. /\ val \in key .. n + 1 /\ (val = n + 1 \/ t[val] \in vals) /\ (\A j \in key .. val - 1 : t[j] \notin vals)
      /\ value \in val .. n + 1 /\ (value = n + 1 \/ t[value] \notin vals) /\ \A j \in val .. value - 1 : t[j] \in vals
  BY DEF Stops, Spans
<1>3. f = [x \in 1 .. l |-> t[key + x - 1]] /\ f \in Seq(S) /\ Len(f) = l
  <2>1. key \in 1 .. Len(t) + 1 /\ end - 1 \in 0 .. Len(t) /\ key <= (end - 1) + 1
    BY <1>1
  <2>2. (end - 1) - key + 1 = l
    BY <1>1
  <2>3. f = [x \in 1 .. (end - 1) - key + 1 |-> t[key + x - 1]] /\ f \in Seq(S) /\ Len(f) = (end - 1) - key + 1
    BY <2>1, SubSeqIs
  <2>. HIDE DEF l, f
  <2>. QED BY <2>2, <2>3
<1>. HIDE DEF f, l
<1>4. DOMAIN f = 1 .. l /\ \A x \in 1 .. l : f[x] = t[key + x - 1]
  BY <1>3
<1>5. Delims(f, vals) \subseteq 1 .. l /\ Delims(f, vals) \subseteq Nat
  BY <1>1, <1>4 DEF Delims
<1>6. CASE ~ (val < end)
  <2>1. ASSUME NEW x \in Delims(f, vals) PROVE FALSE
    <3>1. x \in 1 .. l /\ t[key + x - 1] \in vals
      BY <1>4, <2>1 DEF Delims
    <3>2. key + x - 1 \in key .. val - 1
      BY <1>1, <1>2, <1>6, <3>1
    <3>. QED BY <1>2, <3>1, <3>2
  <2>2. ~ ProperIn(f, vals)
    BY <2>1 DEF ProperIn
  <2>. QED BY <1>6, <2>2 DEF f
<1>7. CASE val < end /\ ~ (val > key)
  <2>1. val = key /\ val # n + 1
    BY <1>1, <1>2, <1>7
  <2>2. 1 \in 1 .. l /\ key + 1 - 1 = key
    BY <1>1
  <2>3. f[1] \in vals
    BY <1>2, <1>4, <2>1, <2>2
  <2>4. ~ ProperIn(f, vals)
    BY <2>3 DEF ProperIn
  <2>. QED BY <1>7, <2>4 DEF f
<1>8. CASE val < end /\ val > key
  <2>1. d \in 2 .. l /\ key + d - 1 = val /\ val # n + 1 /\ value <= end /\ d - 1 \in 1 .. l
    BY <1>1, <1>2, <1>8
  <2>. DEFINE v == value - key + 1
  <2>2. v \in d .. l + 1 /\ key + v - 1 = value
    BY <1>1, <1>2, <2>1
  <2>. HIDE DEF d, v
  <2>3. d \in Delims(f, vals)
    BY <1>2, <1>4, <2>1 DEF Delims
  <2>4. ASSUME NEW y \in Delims(f, vals) PROVE d <= y
    <3>1. y \in 1 .. l /\ t[key + y - 1] \in vals
      BY <1>4, <2>4 DEF Delims
    <3>2. key + y - 1 \notin key .. val - 1
      BY <1>2, <3>1
    <3>. QED BY <1>1, <1>2, <2>1, <3>1, <3>2
  <2>5. Min(Delims(f, vals)) = d
    BY <1>5, <2>3, <2>4, MinIs
  <2>6. ProperIn(f, vals)
    <3>1. 1 \in 1 .. l /\ key + 1 - 1 = key /\ key \in key .. val - 1
      BY <1>1, <1>2, <1>8
    <3>2. f[1] \notin vals
      BY <1>2, <1>4, <3>1
    <3>. QED BY <2>3, <3>2 DEF ProperIn
  <2>7. KeyOf(f, vals) = SubSeq(f, 1, d - 1)
    BY <2>5 DEF KeyOf
  <2>8. SubSeq(f, 1, d - 1) = [x \in 1 .. d - 1 |-> f[x]] /\ Len(SubSeq(f, 1, d - 1)) = d - 1
    <3>1. d - 1 \in 0 .. Len(f)
      BY <1>1, <1>3, <2>1
    <3>. QED BY <1>3, <3>1, PrefixIs
  <2>9. KeyOf(f, vals) = SubSeq(t, key, val - 1) /\ Len(KeyOf(f, vals)) = d - 1
    <3>1. (val - 1) - key + 1 = d - 1
      BY <1>1, <1>2, <2>1
    <3>2. \A x \in 1 .. d - 1 : f[x] = t[key + x - 1]
      <4>1. ASSUME NEW x \in 1 .. d - 1 PROVE f[x] = t[key + x - 1]
        <5>1. x \in 1 .. l
          BY <1>1, <2>1
        <5>. QED BY <1>4, <5>1
      <4>. QED BY <4>1
    <3>3. SubSeq(t, key, val - 1) = [x \in 1 .. (val - 1) - key + 1 |-> t[key + x - 1]]
      <4>1. key \in 1 .. Len(t) + 1 /\ val - 1 \in 0 .. Len(t) /\ key <= (val - 1) + 1
        BY <1>1, <1>2, <1>8
      <4>. QED BY <4>1, SubSeqIs
    <3>. QED BY <2>7, <2>8, <3>1, <3>2, <3>3
  <2>10. RestOf(f, vals) = {x \in 1 .. l : x > d - 1 /\ f[x] \notin vals}
    BY <1>4, <2>9 DEF RestOf
  <2>11. SubSeq(t, value, end - 1) = [x \in 1 .. (end - 1) - value + 1 |-> t[value + x - 1]]
    <3>1. value \in 1 .. Len(t) + 1 /\ end - 1 \in 0 .. Len(t) /\ value <= (end - 1) + 1
      BY <1>1, <1>2, <2>1
    <3>. QED BY <3>1, SubSeqIs
  <2>12. ValueIn(f, vals) = SubSeq(t, value, end - 1)
    <3>1. CASE value = end
      <4>1. ASSUME NEW x \in RestOf(f, vals) PROVE FALSE
        <5>1. x \in 1 .. l /\ x > d - 1 /\ t[key + x - 1] \notin vals
          BY <1>4, <2>10, <4>1
        <5>2. key + x - 1 \in val .. value - 1
          BY <1>1, <1>2, <2>1, <3>1, <5>1
        <5>. QED BY <1>2, <5>1, <5>2
      <4>2. ValueIn(f, vals) = <<>>
        BY <4>1 DEF ValueIn
      <4>3. value \in Int /\ end - 1 \in Int /\ end - 1 < value
        BY <1>1, <3>1
      <4>4. SubSeq(t, value, end - 1) = <<>>
        BY <4>3, SubSeqEmpty
      <4>. QED BY <4>2, <4>4
    <3>2. CASE value # end
      <4>1. v \in 1 .. l /\ v > d - 1 /\ value # n + 1
        BY <1>1, <1>2, <2>1, <2>2, <3>2
      <4>2. v \in RestOf(f, vals)
        BY <1>2, <1>4, <2>2, <2>10, <4>1
      <4>3. ASSUME NEW y \in RestOf(f, vals) PROVE v <= y
        <5>1. y \in 1 .. l /\ y > d - 1 /\ t[key + y - 1] \notin vals
          BY <1>4, <2>10, <4>3
        <5>2. key + y - 1 \notin val .. value - 1
          BY <1>2, <5>1
        <5>. QED BY <1>1, <1>2, <2>1, <2>2, <5>1, <5>2
      <4>4. RestOf(f, vals) \subseteq Nat
        BY <1>1, <2>10
      <4>5. Min(RestOf(f, vals)) = v
        BY <4>2, <4>3, <4>4, MinIs
      <4>6. ValueIn(f, vals) = SubSeq(f, v, l)
        BY <1>3, <4>2, <4>5 DEF ValueIn
      <4>7. SubSeq(f, v, l) = [x \in 1 .. l - v + 1 |-> f[v + x - 1]]
        <5>1. v \in 1 .. Len(f) + 1 /\ l \in 0 .. Len(f) /\ v <= l + 1
          BY <1>1, <1>3, <4>1
        <5>. QED BY <1>3, <5>1, SubSeqIs
      <4>8. l - v + 1 = (end - 1) - value + 1
        BY <1>1, <2>2, <4>1
      <4>9. \A x \in 1 .. l - v + 1 : f[v + x - 1] = t[value + x - 1]
        <5>1. ASSUME NEW x \in 1 .. l - v + 1 PROVE f[v + x - 1] = t[value + x - 1]
          <6>1. v + x - 1 \in 1 .. l /\ key + (v + x - 1) - 1 = value + x - 1
            BY <1>1, <2>2, <4>1
          <6>. QED BY <1>4, <6>1
        <5>. QED BY <5>1
      <4>. QED BY <2>11, <4>6, <4>7, <4>8, <4>9
    <3>. QED BY <3>1, <3>2
  <2>13. PairOf(f, vals) = [key |-> SubSeq(t, key, val - 1), value |-> SubSeq(t, value, end - 1)]
    BY <2>9, <2>12 DEF PairOf
  <2>. QED BY <1>8, <2>6, <2>13 DEF f
<1>. QED BY <1>6, <1>7, <1>8

(* The fields in order: the one before which there are k is the k+1st. *)
Under(from, i) == {j \in from : j < i}
Upto(from, i) == {j \in from : j <= i}
Nth(from, k) == CHOOSE i \in from : Cardinality(Upto(from, i)) = k

LEMMA NthIs ==
  ASSUME NEW n \in Nat, NEW from, from \subseteq 0 .. n - 1, NEW i \in from, NEW k \in Nat,
         Cardinality(Under(from, i)) = k
  PROVE  Nth(from, k + 1) = i /\ Cardinality(Upto(from, i)) = k + 1
<1>1. IsFiniteSet(from)
  <2>1. IsFiniteSet(0 .. n - 1)
    BY FS_Interval
  <2>. QED BY <2>1, FS_Subset
<1>2. IsFiniteSet(Under(from, i)) /\ \A x : IsFiniteSet(Upto(from, x))
  BY <1>1, FS_Subset DEF Under, Upto
<1>0. \A x \in from : x \in Int
  OBVIOUS
<1>3. Upto(from, i) = Under(from, i) \cup {i} /\ i \notin Under(from, i)
  <2>1. \A x \in from : x <= i <=> x < i \/ x = i
    BY <1>0
  <2>2. \A x : x \in Upto(from, i) <=> x \in Under(from, i) \cup {i}
    BY <1>0, <2>1 DEF Upto, Under
  <2>3. i \notin Under(from, i)
    BY <1>0 DEF Under
  <2>. QED BY <2>2, <2>3
<1>4. Cardinality(Upto(from, i)) = k + 1
  <2>2. Cardinality(Under(from, i) \cup {i}) = Cardinality(Under(from, i)) + 1
    BY <1>2, <1>3, FS_AddElement
  <2>. QED BY <1>3, <2>2
<1>5. ASSUME NEW x \in from, NEW y \in from, x < y, Cardinality(Upto(from, x)) = Cardinality(Upto(from, y)) PROVE FALSE
  <2>1. \A z \in from : z <= x => z <= y
    BY <1>0, <1>5
  <2>2. Upto(from, x) \subseteq Upto(from, y)
    BY <2>1 DEF Upto
  <2>3. y \in Upto(from, y) /\ y \notin Upto(from, x)
    BY <1>0, <1>5 DEF Upto
  <2>4. Upto(from, x) = Upto(from, y)
    BY <1>2, <1>5, <2>2, FS_Subset
  <2>. QED BY <2>3, <2>4
<1>6. ASSUME NEW x \in from, Cardinality(Upto(from, x)) = k + 1 PROVE x = i
  <2>1. x \in Int /\ i \in Int
    BY <1>0
  <2>2. ~ (x < i) /\ ~ (i < x)
    BY <1>4, <1>5, <1>6
  <2>. QED BY <2>1, <2>2
<1>. QED BY <1>4, <1>6 DEF Nth

(* A text that is read from key on holds the parser when its field has no delimiter or
   begins with one. *)
Held(t, n, key, vals, ends) ==
  /\ key \in 1 .. n
  /\ t[key] \notin ends \cup {NUL}
  /\ \/ t[key] \in vals
     \/ \A j \in key .. n : t[j] \in vals => \E i \in key .. j : t[i] \in ends \cup {NUL}

LEMMA HeldStays ==
  ASSUME NEW S, NUL \in S, NEW t \in Seq(S), NEW n, n = Len(t), NEW key, NEW vals, NEW ends, NUL \notin vals,
         Held(t, n, key, vals, ends)
  PROVE  LET pass == Pass(t, key, vals, ends) IN
         /\ ~ pass.ends /\ pass.field = <<>>
         /\ pass.text \in Seq(S) /\ Len(pass.text) = n /\ Held(pass.text, n, key, vals, ends)
<1>. DEFINE val == key + strcspn(t, key, vals)
            end == key + strcspn(t, key, ends)
            valued == val > key /\ val < end
            cut == IF valued THEN memset(t, val, strspn(t, val, vals)) ELSE t
            value == val + strspn(t, val, vals)
            next == end + strspn(cut, end, ends)
            u == memset(cut, end, next - end)
            pass == Pass(t, key, vals, ends)
<1>1. /\ pass.ends = (end = key) /\ pass.text = u
      /\ pass.field = IF valued THEN <<[key |-> String(u, key), value |-> String(u, value)]>> ELSE <<>>
  BY DEF Pass
<1>2. n \in Nat /\ Len(t) = n /\ DOMAIN t = 1 .. n
  OBVIOUS
<1>3. /\ key \in 1 .. n /\ key \in 1 .. n + 1 /\ t[key] \notin ends \cup {NUL}
      /\ \/ t[key] \in vals
         \/ \A j \in key .. n : t[j] \in vals => \E i \in key .. j : t[i] \in ends \cup {NUL}
  BY <1>2 DEF Held
<1>4. Stops(t, n, key, val, vals \cup {NUL}) /\ Stops(t, n, key, end, ends \cup {NUL})
  BY <1>2, <1>3, CspanStops
<1>5. val \in key .. n + 1 /\ end \in key + 1 .. n + 1
  <2>. HIDE DEF val, end
  <2>1. end # key
    BY <1>2, <1>3, <1>4 DEF Stops
  <2>. QED BY <1>2, <1>3, <1>4, <2>1 DEF Stops
<1>. HIDE DEF pass
<1>6. ~ valued
  <2>. HIDE DEF val, end
  <2>1. CASE t[key] \in vals
    <3>1. val = key
      <4>1. ASSUME val # key PROVE FALSE
        <5>1. key \in key .. val - 1
          BY <1>2, <1>3, <1>5, <4>1
        <5>. QED BY <1>4, <2>1, <5>1 DEF Stops
      <4>. QED BY <4>1
    <3>. QED BY <1>3, <3>1
  <2>2. CASE \A j \in key .. n : t[j] \in vals => \E i \in key .. j : t[i] \in ends \cup {NUL}
    <3>1. ASSUME val < end PROVE FALSE
      <4>1. val \in key .. n /\ val # n + 1
        BY <1>2, <1>3, <1>5, <3>1
      <4>2. t[val] \in vals \cup {NUL}
        BY <1>4, <4>1 DEF Stops
      <4>3. PICK i \in key .. val : t[i] \in ends \cup {NUL}
        <5>1. CASE t[val] \in vals
          BY <2>2, <4>1, <5>1
        <5>2. CASE t[val] = NUL
          BY <1>3, <4>1, <5>2
        <5>. QED BY <4>2, <5>1, <5>2
      <4>4. i \in key .. end - 1
        BY <1>2, <1>3, <1>5, <3>1
      <4>. QED BY <1>4, <4>3, <4>4 DEF Stops
    <3>. QED BY <3>1
  <2>. QED BY <1>3, <2>1, <2>2
<1>7. cut = t
  BY <1>6
<1>. HIDE DEF cut, valued, val, value
<1>8. u \in Seq(S) /\ Len(u) = n /\ \A j \in 1 .. n : (u[j] = NUL /\ end <= j) \/ u[j] = t[j]
  <2>1. u \in Seq(S) /\ Len(u) = n
    BY <1>2, <1>7, MemsetText
  <2>. HIDE DEF end, next
  <2>. QED BY <1>2, <1>5, <1>7, <2>1 DEF memset
<1>. HIDE DEF u, next
<1>9. Held(u, n, key, vals, ends)
  <2>1. u[key] = t[key]
    <3>. HIDE DEF end
    <3>1. ~ (end <= key)
      BY <1>2, <1>3, <1>5
    <3>. QED BY <1>3, <1>8, <3>1
  <2>2. CASE t[key] \in vals
    BY <1>3, <2>1, <2>2 DEF Held
  <2>3. CASE \A j \in key .. n : t[j] \in vals => \E i \in key .. j : t[i] \in ends \cup {NUL}
    <3>1. ASSUME NEW j \in key .. n, u[j] \in vals PROVE \E i \in key .. j : u[i] \in ends \cup {NUL}
      <4>1. j \in 1 .. n
        BY <1>2, <1>3
      <4>2. t[j] \in vals
        BY <1>8, <3>1, <4>1
      <4>3. PICK i \in key .. j : t[i] \in ends \cup {NUL}
        BY <2>3, <4>2
      <4>4. i \in 1 .. n
        BY <1>2, <1>3, <4>1
      <4>. QED BY <1>8, <4>3, <4>4
    <3>. QED BY <1>3, <2>1, <3>1 DEF Held
  <2>. QED BY <1>3, <2>2, <2>3
<1>10. end # key
  <2>. HIDE DEF end
  <2>. QED BY <1>2, <1>3, <1>5
<1>. QED BY <1>1, <1>6, <1>8, <1>9, <1>10 DEF pass

FieldsIn(s, ends) ==
  LET from == FromsOf(s, ends) IN [k \in 1 .. Cardinality(from) |-> FieldAt(s, ends, Nth(from, k))]
PairsOf(s, vals, ends) == LET fields == FieldsIn(s, ends) IN [k \in DOMAIN fields |-> PairOf(fields[k], vals)]

LEMMA Prolonged ==
  ASSUME NEW h, NEW k \in Nat, NEW p, p = [i \in 1 .. k |-> h[i]]
  PROVE  p \o <<h[k + 1]>> = [i \in 1 .. k + 1 |-> h[i]]
<1>. DEFINE H == {h[i] : i \in 1 .. k + 1}
            q == <<h[k + 1]>>
<1>1. p \in [1 .. k -> H] /\ q \in Seq(H) /\ Len(q) = 1 /\ q[1] = h[k + 1]
  <2>1. \A i \in 1 .. k : i \in 1 .. k + 1
    OBVIOUS
  <2>2. k + 1 \in 1 .. k + 1
    OBVIOUS
  <2>. QED BY <2>1, <2>2
<1>. HIDE DEF H, q
<1>2. p \in Seq(H) /\ Len(p) = k
  BY <1>1, SeqDef, LenProperties
<1>. DEFINE r == p \o q
<1>3. r \in Seq(H) /\ Len(r) = k + 1 /\ \A i \in 1 .. k + 1 : r[i] = IF i <= k THEN p[i] ELSE q[i - k]
  <2>1. /\ r \in Seq(H) /\ Len(r) = Len(p) + Len(q)
        /\ \A i \in 1 .. Len(p) + Len(q) : r[i] = IF i <= Len(p) THEN p[i] ELSE q[i - Len(p)]
    BY <1>1, <1>2, ConcatProperties
  <2>2. Len(p) + Len(q) = k + 1
    BY <1>1, <1>2
  <2>. HIDE DEF r
  <2>. QED BY <1>2, <2>1, <2>2
<1>4. ASSUME NEW i \in 1 .. k + 1 PROVE r[i] = h[i]
  <2>1. CASE i <= k
    <3>1. i \in 1 .. k
      BY <2>1
    <3>2. p[i] = h[i]
      BY <3>1
    <3>. QED BY <1>3, <2>1, <3>2
  <2>2. CASE ~ (i <= k)
    <3>1. i = k + 1 /\ i - k = 1
      BY <2>2
    <3>. QED BY <1>1, <1>3, <2>2, <3>1
  <2>. QED BY <2>1, <2>2
<1>. HIDE DEF r
<1>5. r = [i \in 1 .. k + 1 |-> r[i]]
  BY <1>3, LenProperties
<1>6. r = [i \in 1 .. k + 1 |-> h[i]]
  BY <1>4, <1>5
<1>. QED BY <1>6 DEF r, q

(* The parser between two passes: it has taken k fields and stands before the next one, or at
   the end; or it has returned; or it is held. *)
Record(was, S, n) ==
  /\ was = [text |-> was.text, key |-> was.key, pairs |-> was.pairs, ends |-> was.ends]
  /\ was.text \in Seq(S) /\ Len(was.text) = n
Before(was, s, S, n, k, vals, ends) ==
  /\ Record(was, S, n)
  /\ was.key \in 1 .. n + 1 /\ (was.key = n + 1 \/ was.key - 1 \in FromsOf(s, ends))
  /\ \A j \in was.key .. n : was.text[j] = s[j]
  /\ k \in Nat /\ Cardinality(Under(FromsOf(s, ends), was.key - 1)) = k
  /\ was.pairs = [i \in 1 .. k |-> PairsOf(s, vals, ends)[i]]
  /\ \A i \in 1 .. k : ProperIn(FieldsIn(s, ends)[i], vals)
  /\ was.ends = FALSE
Returned(was, S, n, pairs, ends) ==
  /\ Record(was, S, n)
  /\ was.key \in 1 .. n + 1 /\ (was.key = n + 1 \/ was.text[was.key] \in ends \cup {NUL})
  /\ was.pairs = pairs
  /\ was.ends = TRUE
Holding(was, S, n, vals, ends) ==
  /\ Record(was, S, n)
  /\ Held(was.text, n, was.key, vals, ends)
  /\ was.ends = FALSE

LEMMA ReturnedStays ==
  ASSUME NEW S, NUL \in S, NEW n \in Nat, NEW vals, NEW ends, NEW pairs, NEW was, Returned(was, S, n, pairs, ends)
  PROVE  Returned(OnePass(was, vals, ends), S, n, pairs, ends)
<1>. DEFINE pass == Pass(was.text, was.key, vals, ends)
            end == was.key + strcspn(was.text, was.key, ends)
<1>1. /\ was = [text |-> was.text, key |-> was.key, pairs |-> was.pairs, ends |-> was.ends]
      /\ was.text \in Seq(S) /\ Len(was.text) = n /\ was.key \in 1 .. n + 1
      /\ was.key = n + 1 \/ was.text[was.key] \in ends \cup {NUL}
      /\ was.ends = TRUE
  BY DEF Returned, Record
<1>2. Stops(was.text, n, was.key, end, ends \cup {NUL})
  BY <1>1, CspanStops
<1>3. pass.ends = (end = was.key)
  BY DEF Pass
<1>. HIDE DEF pass, end
<1>4. end = was.key
  <2>1. ASSUME end # was.key PROVE FALSE
    <3>1. was.key \in was.key .. end - 1 /\ was.key # n + 1
      BY <1>1, <1>2, <2>1 DEF Stops
    <3>. QED BY <1>1, <1>2, <3>1 DEF Stops
  <2>. QED BY <2>1
<1>5. OnePass(was, vals, ends) = [was EXCEPT !.ends = TRUE]
  BY <1>3, <1>4 DEF OnePass, pass
<1>6. [was EXCEPT !.ends = TRUE] = was
  BY <1>1
<1>. QED BY <1>5, <1>6

LEMMA HoldingStays ==
  ASSUME NEW S, NUL \in S, NEW n \in Nat, NEW vals, NEW ends, NUL \notin vals, NEW was, Holding(was, S, n, vals, ends)
  PROVE  Holding(OnePass(was, vals, ends), S, n, vals, ends)
<1>. DEFINE pass == Pass(was.text, was.key, vals, ends)
<1>1. /\ was.text \in Seq(S) /\ Len(was.text) = n /\ Held(was.text, n, was.key, vals, ends)
  BY DEF Holding, Record
<1>2. /\ ~ pass.ends /\ pass.field = <<>>
      /\ pass.text \in Seq(S) /\ Len(pass.text) = n /\ Held(pass.text, n, was.key, vals, ends)
  BY <1>1, HeldStays
<1>3. OnePass(was, vals, ends) = [text |-> pass.text, key |-> was.key, pairs |-> was.pairs \o pass.field, ends |-> FALSE]
  BY <1>2 DEF OnePass
<1>. HIDE DEF pass
<1>. QED BY <1>2, <1>3 DEF Holding, Record

LEMMA FieldsCounted ==
  ASSUME NEW s, NEW S, s \in Seq(S), NEW n, n = Len(s), NEW ends
  PROVE  LET from == FromsOf(s, ends) IN
         /\ n \in Nat /\ from \subseteq 0 .. n - 1 /\ IsFiniteSet(from) /\ Cardinality(from) \in Nat
         /\ \A i \in from : IsFiniteSet(Upto(from, i)) /\ Cardinality(Upto(from, i)) <= Cardinality(from)
<1>. DEFINE from == FromsOf(s, ends)
<1>1. n \in Nat
  OBVIOUS
<1>2. from \subseteq 0 .. n - 1
  BY DEF FromsOf
<1>. HIDE DEF from
<1>3. IsFiniteSet(from)
  <2>1. IsFiniteSet(0 .. n - 1)
    BY <1>1, FS_Interval
  <2>. QED BY <1>2, <2>1, FS_Subset
<1>4. Cardinality(from) \in Nat
  BY <1>3, FS_CardinalityType
<1>5. \A i \in from : IsFiniteSet(Upto(from, i)) /\ Cardinality(Upto(from, i)) <= Cardinality(from)
  BY <1>3, FS_Subset DEF Upto
<1>. QED BY <1>1, <1>2, <1>3, <1>4, <1>5 DEF from

LEMMA Ended ==
  ASSUME NEW a, NEW b, NEW c, NEW d, NEW was, was = [text |-> a, key |-> b, pairs |-> c, ends |-> d]
  PROVE  [was EXCEPT !.ends = TRUE] = [text |-> a, key |-> b, pairs |-> c, ends |-> TRUE]
<1>1. ASSUME NEW e PROVE [was EXCEPT !.ends = e] = [text |-> a, key |-> b, pairs |-> c, ends |-> e]
  OBVIOUS
<1>. QED BY <1>1

(* A pass from before a field takes it, is held by it, or, behind the last one, returns. *)
LEMMA BeforeStays ==
  ASSUME NEW S, NUL \in S, NEW s \in Seq(S), NEW n, n = Len(s), \A j \in 1 .. n : s[j] # NUL,
         NEW vals, NEW ends, vals \cap ends = {}, NUL \notin vals, NUL \notin ends,
         NEW was, NEW k, Before(was, s, S, n, k, vals, ends)
  PROVE  LET next == OnePass(was, vals, ends)
             fields == FieldsIn(s, ends) IN
         \/ /\ was.key = n + 1 /\ k = Cardinality(FromsOf(s, ends))
            /\ Returned(next, S, n, PairsOf(s, vals, ends), ends)
            /\ \A i \in DOMAIN fields : ProperIn(fields[i], vals)
         \/ Before(next, s, S, n, k + 1, vals, ends) /\ next.key > was.key
         \/ Holding(next, S, n, vals, ends) /\ \E i \in DOMAIN fields : ~ ProperIn(fields[i], vals)
<1>. DEFINE from == FromsOf(s, ends)
            fields == FieldsIn(s, ends)
            pairs == PairsOf(s, vals, ends)
            N == Cardinality(from)
            t == was.text
            key == was.key
            pass == Pass(t, key, vals, ends)
            r == OnePass(was, vals, ends)
<1>1. /\ was = [text |-> t, key |-> key, pairs |-> was.pairs, ends |-> FALSE]
      /\ t \in Seq(S) /\ Len(t) = n /\ key \in 1 .. n + 1 /\ (key = n + 1 \/ key - 1 \in from)
      /\ \A j \in key .. n : t[j] = s[j]
      /\ k \in Nat /\ Cardinality(Under(from, key - 1)) = k
      /\ was.pairs = [i \in 1 .. k |-> pairs[i]]
      /\ \A i \in 1 .. k : ProperIn(fields[i], vals)
  BY DEF Before, Record
<1>2. /\ n \in Nat /\ from \subseteq 0 .. n - 1 /\ IsFiniteSet(from) /\ N \in Nat
      /\ \A i \in from : Cardinality(Upto(from, i)) <= N
  BY FieldsCounted
<1>3. DOMAIN fields = 1 .. N /\ DOMAIN pairs = 1 .. N /\ pairs = [i \in 1 .. N |-> PairOf(fields[i], vals)]
      /\ \A i \in 1 .. N : fields[i] = FieldAt(s, ends, Nth(from, i))
  BY DEF FieldsIn, PairsOf
<1>4. \A j \in key .. n : t[j] # NUL
  <2>1. ASSUME NEW j \in key .. n PROVE t[j] # NUL
    <3>1. j \in 1 .. n
      BY <1>1, <1>2
    <3>. QED BY <1>1, <3>1
  <2>. QED BY <2>1
<1>5. PICK val, end, value, next : Takes(t, n, key, vals, ends, pass, val, end, value, next)
  <2>. HIDE DEF pass, key, t, from
  <2>1. \E val, end, value, next : Takes(t, n, key, vals, ends, Pass(t, key, vals, ends), val, end, value, next)
    BY <1>1, <1>4, PassTakes
  <2>. QED BY <2>1 DEF pass
<1>6. r = IF pass.ends THEN [was EXCEPT !.ends = TRUE]
          ELSE [text |-> pass.text, key |-> IF pass.field = <<>> THEN key ELSE pass.next,
                pairs |-> was.pairs \o pass.field, ends |-> FALSE]
  BY DEF OnePass
<1>7. pass.text \in Seq(S)
  <2>. HIDE DEF key, t, from
  <2>. QED BY <1>1, PassKeeps DEF pass
<1>. HIDE DEF from, fields, pairs, N, t, key, pass, r
<1>8. /\ Stops(t, n, key, val, vals) /\ Stops(t, n, key, end, ends)
      /\ Spans(t, n, val, value, vals) /\ Spans(t, n, end, next, ends)
      /\ pass.ends = (end = key) /\ pass.next = next /\ Len(pass.text) = n
      /\ \A j \in next .. n : pass.text[j] = t[j]
      /\ pass.field = IF val > key /\ val < end
                      THEN <<[key |-> SubSeq(t, key, val - 1), value |-> SubSeq(t, value, end - 1)]>> ELSE <<>>
  BY <1>5 DEF Takes
<1>9. CASE key = n + 1
  <2>1. end = key
    <3>1. end \in key .. n + 1
      BY <1>8 DEF Stops
    <3>. QED BY <1>2, <1>9, <3>1
  <2>2. k = N
    <3>1. \A j \in from : j < key - 1
      BY <1>2, <1>9
    <3>2. Under(from, key - 1) = from
      BY <3>1 DEF Under
    <3>. QED BY <1>1, <3>2 DEF N
  <2>3. r = [text |-> t, key |-> key, pairs |-> was.pairs, ends |-> TRUE]
    <3>1. r = [was EXCEPT !.ends = TRUE]
      BY <1>6, <1>8, <2>1
    <3>2. was = [text |-> t, key |-> key, pairs |-> was.pairs, ends |-> FALSE]
      BY <1>1
    <3>. QED BY <3>1, <3>2, Ended
  <2>4. was.pairs = pairs
    BY <1>1, <1>3, <2>2
  <2>5. Returned(r, S, n, pairs, ends)
    BY <1>1, <1>9, <2>3, <2>4 DEF Returned, Record
  <2>6. \A i \in DOMAIN fields : ProperIn(fields[i], vals)
    BY <1>1, <1>3, <2>2
  <2>. QED BY <1>9, <2>2, <2>5, <2>6 DEF r, pairs, fields, N, key, from
<1>10. CASE key # n + 1
  <2>. DEFINE i == key - 1
  <2>1. i \in from /\ key \in 1 .. n /\ i + 1 = key
    BY <1>1, <1>2, <1>10
  <2>2. Stops(s, n, key, end, ends)
    <3>1. /\ end \in key .. n + 1 /\ (end = n + 1 \/ t[end] \in ends) /\ \A j \in key .. end - 1 : t[j] \notin ends
      BY <1>8 DEF Stops
    <3>2. end # n + 1 => end \in key .. n
      BY <1>2, <2>1, <3>1
    <3>3. \A j \in key .. end - 1 : j \in key .. n
      BY <1>2, <2>1, <3>1
    <3>. QED BY <1>1, <3>1, <3>2, <3>3 DEF Stops
  <2>3. end \in key + 1 .. n + 1 /\ FieldAt(s, ends, i) = SubSeq(s, key, end - 1)
    <3>1. i \in FromsOf(s, ends) /\ Stops(s, n, i + 1, end, ends)
      BY <2>1, <2>2 DEF from
    <3>. HIDE DEF i
    <3>2. end \in i + 2 .. n + 1 /\ FieldAt(s, ends, i) = SubSeq(s, i + 1, end - 1)
      BY <3>1, FieldIs
    <3>3. i + 2 = key + 1
      BY <1>2, <2>1
    <3>. QED BY <2>1, <3>2, <3>3
  <2>4. Nth(from, k + 1) = i /\ Cardinality(Upto(from, i)) = k + 1
    <3>1. Cardinality(Under(from, i)) = k
      BY <1>1
    <3>2. n \in Nat /\ from \subseteq 0 .. n - 1 /\ i \in from /\ k \in Nat
      BY <1>1, <1>2, <2>1
    <3>. HIDE DEF i
    <3>. QED BY <3>1, <3>2, NthIs
  <2>5. k + 1 \in 1 .. N
    BY <1>1, <1>2, <2>1, <2>4
  <2>6. fields[k + 1] = SubSeq(t, key, end - 1)
    <3>1. fields[k + 1] = SubSeq(s, key, end - 1)
      BY <1>3, <2>3, <2>4, <2>5
    <3>2. /\ key \in 1 .. Len(s) + 1 /\ end - 1 \in 0 .. Len(s) /\ key <= (end - 1) + 1 /\ Len(s) = Len(t)
          /\ \A j \in key .. end - 1 : s[j] = t[j]
      BY <1>1, <1>2, <2>1, <2>3
    <3>3. SubSeq(s, key, end - 1) = SubSeq(t, key, end - 1)
      <4>. HIDE DEF i
      <4>1. t \in Seq(S)
        BY <1>1
      <4>2. \A j \in key .. end - 1 : s[j] = t[j]
        BY <3>2
      <4>. QED BY <3>2, <4>1, <4>2, SubSeqSame
    <3>. QED BY <3>1, <3>3
  <2>7. val < end => value <= end
    <3>1. ASSUME val < end, end < value PROVE FALSE
      <4>1. /\ val \in key .. n + 1 /\ value \in val .. n + 1 /\ \A j \in val .. value - 1 : t[j] \in vals
        BY <1>8 DEF Stops, Spans
      <4>2. end \in val .. value - 1 /\ end # n + 1
        BY <1>2, <2>1, <2>3, <3>1, <4>1
      <4>3. t[end] \in vals /\ t[end] \in ends
        BY <1>8, <4>1, <4>2 DEF Stops
      <4>. QED BY <4>3
    <3>2. value \in Int /\ end \in Int
      BY <1>8 DEF Stops, Spans
    <3>. QED BY <3>1, <3>2
  <2>8. /\ val > key /\ val < end => /\ ProperIn(fields[k + 1], vals)
                                     /\ PairOf(fields[k + 1], vals) = [key |-> SubSeq(t, key, val - 1), value |-> SubSeq(t, value, end - 1)]
        /\ ~ (val > key /\ val < end) => ~ ProperIn(fields[k + 1], vals)
    <3>1. t \in Seq(S) /\ n = Len(t)
      BY <1>1
    <3>2. LET f == SubSeq(t, key, end - 1) IN
          /\ val > key /\ val < end =>
                /\ ProperIn(f, vals)
                /\ PairOf(f, vals) = [key |-> SubSeq(t, key, val - 1), value |-> SubSeq(t, value, end - 1)]
          /\ ~ (val > key /\ val < end) => ~ ProperIn(f, vals)
      BY <1>8, <2>1, <2>3, <2>7, <3>1, PairIs
    <3>. QED BY <2>6, <3>2
  <2>9. ~ pass.ends
    <3>1. end # key
      BY <1>2, <2>1, <2>3
    <3>. QED BY <1>8, <3>1
  <2>10. CASE val > key /\ val < end
    <3>1. pass.field = <<pairs[k + 1]>> /\ pass.field # <<>>
      <4>1. pairs[k + 1] = PairOf(fields[k + 1], vals)
        BY <1>3, <2>5
      <4>2. pairs[k + 1] = [key |-> SubSeq(t, key, val - 1), value |-> SubSeq(t, value, end - 1)]
        BY <2>8, <2>10, <4>1
      <4>3. pass.field = <<pairs[k + 1]>>
        BY <1>8, <2>10, <4>2
      <4>. QED BY <4>3
    <3>2. r = [text |-> pass.text, key |-> next, pairs |-> was.pairs \o <<pairs[k + 1]>>, ends |-> FALSE]
      BY <1>6, <1>8, <2>9, <3>1
    <3>3. was.pairs \o <<pairs[k + 1]>> = [x \in 1 .. k + 1 |-> pairs[x]]
      BY <1>1, Prolonged
    <3>4. /\ next \in end .. n + 1 /\ (next = n + 1 \/ t[next] \notin ends) /\ \A j \in end .. next - 1 : t[j] \in ends
      BY <1>8 DEF Spans
    <3>5. next > key /\ next \in 1 .. n + 1 /\ next - 1 \in 0 .. n
      BY <1>2, <2>1, <2>3, <3>4
    <3>6. \A j \in next .. n : pass.text[j] = s[j]
      <4>1. ASSUME NEW j \in next .. n PROVE pass.text[j] = s[j]
        <5>1. j \in key .. n
          BY <1>2, <2>1, <3>5
        <5>. QED BY <1>1, <1>8, <5>1
      <4>. QED BY <4>1
    <3>7. \A j \in 1 .. n : j >= key => t[j] = s[j]
      BY <1>1, <1>2, <2>1
    <3>8. next = n + 1 \/ next - 1 \in from
      <4>1. ASSUME next # n + 1 PROVE next - 1 \in from
        <5>1. next \in 1 .. n /\ s[next] \notin ends
          BY <1>2, <2>1, <3>4, <3>5, <3>7, <4>1
        <5>2. next # end
          <6>1. end # n + 1 => t[end] \in ends
            BY <1>8 DEF Stops
          <6>. QED BY <1>2, <2>3, <3>4, <4>1, <6>1
        <5>3. next - 1 \in 1 .. n /\ s[next - 1] \in ends
          <6>1. next - 1 \in end .. next - 1 /\ next - 1 \in 1 .. n /\ next - 1 >= key
            BY <1>2, <2>1, <2>3, <3>4, <5>1, <5>2
          <6>. QED BY <3>4, <3>7, <6>1
        <5>4. DOMAIN s = 1 .. n /\ Len(s) = n
          OBVIOUS
        <5>5. next - 1 \in CutsOf(s, ends) /\ next \notin CutsOf(s, ends)
          BY <1>2, <5>1, <5>3, <5>4 DEF CutsOf
        <5>6. next - 1 \in 0 .. n - 1 /\ (next - 1) + 1 = next
          BY <1>2, <5>1
        <5>. QED BY <5>4, <5>5, <5>6 DEF from, FromsOf
      <4>. QED BY <4>1
    <3>9. Cardinality(Under(from, next - 1)) = k + 1
      <4>1. ASSUME NEW j \in from PROVE j < next - 1 <=> j <= i
        <5>1. j \in 0 .. n - 1 /\ j \in CutsOf(s, ends) /\ j + 1 \notin CutsOf(s, ends)
          BY <1>2, <4>1 DEF from, FromsOf
        <5>2. DOMAIN s = 1 .. n /\ Len(s) = n
          OBVIOUS
        <5>3. j <= i => j < next - 1
          BY <1>2, <2>1, <2>3, <3>4, <5>1
        <5>4. ASSUME j < next - 1, i < j PROVE FALSE
          <6>1. j \in 1 .. n /\ j # 0 /\ j # n + 1 /\ j + 1 \in 1 .. n
            BY <1>2, <2>1, <3>5, <5>1, <5>4
          <6>2. s[j] \in ends /\ s[j + 1] \notin ends
            BY <5>1, <5>2, <6>1 DEF CutsOf
          <6>3. j \notin key .. end - 1
            BY <2>2, <6>2 DEF Stops
          <6>4. j + 1 \in end .. next - 1 /\ j + 1 >= key
            BY <1>2, <2>1, <2>3, <3>4, <5>1, <5>4, <6>3
          <6>. QED BY <3>4, <3>7, <6>1, <6>2, <6>4
        <5>. QED BY <1>2, <2>1, <3>5, <5>1, <5>3, <5>4
      <4>2. Under(from, next - 1) = Upto(from, i)
        BY <4>1 DEF Under, Upto
      <4>. QED BY <2>4, <4>2
    <3>10. \A x \in 1 .. k + 1 : ProperIn(fields[x], vals)
      <4>1. \A x \in 1 .. k + 1 : x \in 1 .. k \/ x = k + 1
        BY <1>1
      <4>. QED BY <1>1, <2>8, <2>10, <4>1
    <3>11. k + 1 \in Nat
      BY <1>1
    <3>12. Before(r, s, S, n, k + 1, vals, ends)
      BY <1>7, <1>8, <3>2, <3>3, <3>5, <3>6, <3>8, <3>9, <3>10, <3>11 DEF Before, Record, from, pairs, fields
    <3>. QED BY <3>2, <3>5, <3>12 DEF r, key
  <2>11. CASE ~ (val > key /\ val < end)
    <3>1. Held(t, n, key, vals, ends)
      <4>1. t[key] \notin ends \cup {NUL}
        <5>1. key \in key .. n /\ key \in key .. end - 1
          BY <1>2, <2>1, <2>3
        <5>. QED BY <1>4, <1>8, <5>1 DEF Stops
      <4>2. /\ val \in key .. n + 1 /\ (val = n + 1 \/ t[val] \in vals) /\ \A j \in key .. val - 1 : t[j] \notin vals
        BY <1>8 DEF Stops
      <4>3. CASE val = key
        <5>1. t[key] \in vals
          BY <1>2, <2>1, <4>2, <4>3
        <5>. QED BY <2>1, <4>1, <5>1 DEF Held
      <4>4. CASE val # key
        <5>1. ASSUME NEW j \in key .. n, t[j] \in vals PROVE \E x \in key .. j : t[x] \in ends \cup {NUL}
          <6>1. j \notin key .. val - 1
            BY <4>2, <5>1
          <6>2. end <= j /\ end \in key .. j /\ end # n + 1
            BY <1>2, <2>1, <2>3, <2>11, <4>2, <4>4, <5>1, <6>1
          <6>3. t[end] \in ends
            BY <1>8, <6>2 DEF Stops
          <6>. QED BY <6>2, <6>3
        <5>. QED BY <2>1, <4>1, <5>1 DEF Held
      <4>. QED BY <4>3, <4>4
    <3>2. /\ pass.field = <<>> /\ Held(pass.text, n, key, vals, ends)
      <4>1. t \in Seq(S) /\ n = Len(t)
        BY <1>1
      <4>. QED BY <3>1, <4>1, HeldStays DEF pass
    <3>3. r = [text |-> pass.text, key |-> key, pairs |-> was.pairs \o pass.field, ends |-> FALSE]
      BY <1>6, <2>9, <3>2
    <3>4. Holding(r, S, n, vals, ends)
      BY <1>7, <1>8, <3>2, <3>3 DEF Holding, Record
    <3>5. \E x \in DOMAIN fields : ~ ProperIn(fields[x], vals)
      BY <1>3, <2>5, <2>8, <2>11
    <3>. QED BY <3>4, <3>5 DEF r, fields
  <2>. QED BY <2>10, <2>11
<1>. QED BY <1>9, <1>10

(* What a text says: nothing when it begins with an end. The parser returns just when every
   field is proper, and then gives the pair of each. *)
Says(s, ends) == IF s # <<>> /\ s[1] \in ends THEN <<>> ELSE FieldsIn(s, ends)

LEMMA FirstBefore ==
  ASSUME NEW S, NEW s \in Seq(S), NEW n, n = Len(s), NEW vals, NEW ends, s = <<>> \/ s[1] \notin ends
  PROVE  Before(FirstPass(s), s, S, n, 0, vals, ends)
<1>. DEFINE from == FromsOf(s, ends)
            was == FirstPass(s)
<1>1. n \in Nat /\ DOMAIN s = 1 .. n /\ (s = <<>> <=> n = 0)
  BY EmptySeq
<1>2. was = [text |-> s, key |-> 1, pairs |-> <<>>, ends |-> FALSE]
  BY DEF FirstPass
<1>3. /\ was.text = s /\ was.key = 1 /\ was.pairs = <<>> /\ was.ends = FALSE
      /\ was = [text |-> was.text, key |-> was.key, pairs |-> was.pairs, ends |-> was.ends]
  BY <1>2
<1>. HIDE DEF was
<1>4. 1 \in 1 .. n + 1 /\ (1 = n + 1 \/ 1 - 1 \in from)
  <2>1. ASSUME n # 0 PROVE 0 \in from
    <3>1. 0 \in 0 .. n - 1 /\ 0 \in CutsOf(s, ends)
      BY <1>1, <2>1 DEF CutsOf
    <3>2. 0 + 1 = 1 /\ 1 \notin CutsOf(s, ends)
      BY <1>1, <2>1 DEF CutsOf
    <3>. QED BY <3>1, <3>2 DEF FromsOf
  <2>2. 1 - 1 = 0
    OBVIOUS
  <2>. QED BY <1>1, <2>1, <2>2
<1>5. Cardinality(Under(from, 1 - 1)) = 0
  <2>1. from \subseteq Nat
    BY <1>1 DEF FromsOf
  <2>2. Under(from, 1 - 1) = {}
    BY <2>1 DEF Under
  <2>. QED BY <2>2, FS_EmptySet
<1>6. <<>> = [i \in 1 .. 0 |-> PairsOf(s, vals, ends)[i]]
  OBVIOUS
<1>7. \A i \in 1 .. 0 : ProperIn(FieldsIn(s, ends)[i], vals)
  OBVIOUS
<1>8. Record(was, S, n)
  BY <1>3 DEF Record
<1>9. \A j \in was.key .. n : was.text[j] = s[j]
  BY <1>3
<1>10. 0 \in Nat
  OBVIOUS
<1>. QED BY <1>3, <1>4, <1>5, <1>6, <1>7, <1>8, <1>9, <1>10 DEF Before, was

LEMMA ParsedIs ==
  ASSUME NEW S, NUL \in S, NEW s \in Seq(S), \A j \in 1 .. Len(s) : s[j] # NUL,
         NEW vals, NEW ends, vals \cap ends = {}, NUL \notin vals, NUL \notin ends
  PROVE  LET fields == Says(s, ends) IN
         params_new_parse_delim(s, vals, ends) =
            IF \A i \in DOMAIN fields : ProperIn(fields[i], vals)
            THEN [i \in DOMAIN fields |-> PairOf(fields[i], vals)] ELSE NULL
<1>. DEFINE n == Len(s)
            N == n + 2
            fields == Says(s, ends)
            pairs == [i \in DOMAIN fields |-> PairOf(fields[i], vals)]
            proper == \A i \in DOMAIN fields : ProperIn(fields[i], vals)
            starts == s # <<>> /\ s[1] \in ends
            after == CHOOSE f : Passes(f, s, N, vals, ends)
            Reached(was, p) ==
              \/ p = 0 /\ starts /\ was = FirstPass(s)
              \/ \E k : Before(was, s, S, n, k, vals, ends) /\ was.key >= p + 1 /\ ~ starts
              \/ Returned(was, S, n, pairs, ends) /\ proper
              \/ Holding(was, S, n, vals, ends) /\ ~ proper
            Bad == {i \in 0 .. N : ~ Reached(after[i], i)}
<1>1. params_new_parse_delim(s, vals, ends) = IF after[N].ends THEN after[N].pairs ELSE NULL
  BY DEF params_new_parse_delim, Passes, FirstPass, OnePass
<1>2. N \in Nat /\ n \in Nat /\ N = n + 2 /\ DOMAIN s = 1 .. n
  OBVIOUS
<1>3. Passes(after, s, N, vals, ends)
  <2>. HIDE DEF N
  <2>. QED BY <1>2, PassesExist
<1>4. starts => fields = <<>> /\ pairs = <<>> /\ proper
  BY DEF Says
<1>5. ~ starts => fields = FieldsIn(s, ends) /\ pairs = PairsOf(s, vals, ends)
  BY DEF Says, PairsOf
<1>. HIDE DEF after, N, fields, pairs
<1>6. ASSUME NEW p \in 0 .. N, Reached(after[p], p) PROVE Reached(OnePass(after[p], vals, ends), p + 1)
  <2>. DEFINE was == after[p]
              next == OnePass(was, vals, ends)
  <2>. HIDE DEF was
  <2>1. CASE starts /\ was = FirstPass(s)
    <3>. DEFINE end == 1 + strcspn(s, 1, ends)
    <3>1. was = [text |-> s, key |-> 1, pairs |-> <<>>, ends |-> FALSE]
      BY <2>1 DEF FirstPass
    <3>2. 1 \in 1 .. n /\ 1 \in 1 .. n + 1
      BY <1>2, <2>1, EmptySeq
    <3>3. Stops(s, n, 1, end, ends \cup {NUL})
      BY <1>2, <3>2, CspanStops
    <3>4. end = 1
      <4>. HIDE DEF end
      <4>1. ASSUME end # 1 PROVE FALSE
        <5>1. 1 \in 1 .. end - 1
          BY <1>2, <3>2, <3>3, <4>1 DEF Stops
        <5>. QED BY <2>1, <3>3, <5>1 DEF Stops
      <4>. QED BY <4>1
    <3>5. Pass(s, 1, vals, ends).ends
      BY <3>4 DEF Pass
    <3>6. next = [was EXCEPT !.ends = TRUE]
      BY <3>1, <3>5 DEF OnePass
    <3>7. next = [text |-> s, key |-> 1, pairs |-> <<>>, ends |-> TRUE]
      BY <3>1, <3>6, Ended
    <3>. HIDE DEF next
    <3>8. Returned(next, S, n, pairs, ends)
      BY <1>4, <2>1, <3>2, <3>7 DEF Returned, Record
    <3>. QED BY <1>4, <2>1, <3>8 DEF next, was
  <2>2. ASSUME NEW k, Before(was, s, S, n, k, vals, ends), was.key >= p + 1, ~ starts
        PROVE  Reached(next, p + 1)
    <3>. DEFINE g == FieldsIn(s, ends)
    <3>1. \/ Returned(next, S, n, PairsOf(s, vals, ends), ends) /\ \A i \in DOMAIN g : ProperIn(g[i], vals)
          \/ Before(next, s, S, n, k + 1, vals, ends) /\ next.key > was.key
          \/ Holding(next, S, n, vals, ends) /\ \E i \in DOMAIN g : ~ ProperIn(g[i], vals)
      BY <1>2, <2>2, BeforeStays
    <3>. HIDE DEF next
    <3>2. CASE Before(next, s, S, n, k + 1, vals, ends) /\ next.key > was.key
      <4>1. next.key \in Int /\ was.key \in Int
        BY <2>2, <3>2 DEF Before
      <4>2. next.key >= (p + 1) + 1
        BY <2>2, <3>2, <4>1
      <4>. QED BY <2>2, <3>2, <4>2
    <3>. QED BY <1>5, <2>2, <3>1, <3>2
  <2>3. CASE Returned(was, S, n, pairs, ends) /\ proper
    BY <1>2, <2>3, ReturnedStays DEF was
  <2>4. CASE Holding(was, S, n, vals, ends) /\ ~ proper
    BY <1>2, <2>4, HoldingStays DEF was
  <2>. HIDE DEF next
  <2>5. Reached(next, p + 1)
    BY <1>6, <2>1, <2>2, <2>3, <2>4 DEF was, next
  <2>. QED BY <2>5 DEF was, next
<1>7. ASSUME Bad # {} PROVE FALSE
  <2>1. PICK k \in Bad : \A i \in Bad : k <= i
    <3>1. Bad \subseteq Nat
      BY <1>2
    <3>. HIDE DEF Bad
    <3>. QED BY <1>7, <3>1, LeastNatural
  <2>2. k \in 0 .. N /\ ~ Reached(after[k], k)
    BY <2>1
  <2>3. after[k] = IF k = 0 THEN FirstPass(s) ELSE OnePass(after[k - 1], vals, ends)
    BY <1>3, <2>2 DEF Passes
  <2>4. CASE k = 0
    <3>1. after[k] = FirstPass(s)
      BY <2>3, <2>4
    <3>2. ~ starts => Before(FirstPass(s), s, S, n, 0, vals, ends) /\ FirstPass(s).key = 1
      BY FirstBefore DEF FirstPass
    <3>3. 1 >= k + 1
      BY <2>4
    <3>4. Reached(after[k], k)
      BY <2>4, <3>1, <3>2, <3>3
    <3>. QED BY <2>2, <3>4
  <2>5. CASE k # 0
    <3>1. k - 1 \in 0 .. N /\ ~ (k <= k - 1) /\ (k - 1) + 1 = k
      BY <1>2, <2>2, <2>5
    <3>2. Reached(after[k - 1], k - 1)
      BY <2>1, <3>1
    <3>. HIDE DEF Reached
    <3>3. Reached(after[k], (k - 1) + 1)
      BY <1>6, <2>3, <2>5, <3>1, <3>2
    <3>. QED BY <2>2, <3>1, <3>3
  <2>. QED BY <2>4, <2>5
<1>8. Reached(after[N], N)
  <2>1. N \in 0 .. N
    BY <1>2
  <2>. QED BY <1>7, <2>1
<1>9. ASSUME NEW k, Before(after[N], s, S, n, k, vals, ends), after[N].key >= N + 1 PROVE FALSE
  BY <1>2, <1>9 DEF Before
<1>10. N # 0
  BY <1>2
<1>11. CASE Returned(after[N], S, n, pairs, ends) /\ proper
  BY <1>1, <1>11 DEF Returned, fields, pairs
<1>12. CASE Holding(after[N], S, n, vals, ends) /\ ~ proper
  BY <1>1, <1>12 DEF Holding, fields, pairs
<1>. QED BY <1>8, <1>9, <1>10, <1>11, <1>12

Comma == ","

(* The fields of a set while fields are joined to it: what each name says is a comma and its
   value, and the names so far are those of the fields. *)
Tally(all, names, seen, said, U) ==
  /\ \E m \in Nat : all = [i \in 1 .. m |-> all[i]] /\ DOMAIN all = 1 .. m
  /\ \A i \in DOMAIN all : /\ all[i] = [name |-> all[i].name, value |-> all[i].value]
                           /\ all[i].value \in Seq(U)
                           /\ said[all[i].name] = <<Comma>> \o all[i].value
  /\ \A i, j \in DOMAIN all : all[i].name = all[j].name => i = j
  /\ seen = {all[i].name : i \in DOMAIN all}
  /\ \A name \in names \ seen : said[name] = <<>>

(* One name says one value more. *)
Gains(said, now, names, name, value) ==
  \A x \in names : now[x] = IF x = name THEN said[x] \o (<<Comma>> \o value) ELSE said[x]

LEMMA OneSeq == ASSUME NEW U, NEW c \in U PROVE <<c>> \in Seq(U)
OBVIOUS

LEMMA JoinedTallies ==
  ASSUME NEW U, Comma \in U, NEW all, NEW names, NEW seen, NEW said, Tally(all, names, seen, said, U),
         NEW name \in names, NEW value \in Seq(U), NEW now, seen \subseteq names,
         Gains(said, now, names, name, value)
  PROVE  Tally(F!Joined(all, name, value), names, seen \cup {name}, now, U)
<1>. DEFINE named == F!Named(all, name)
            joined == F!Joined(all, name, value)
            new == [name |-> name, value |-> value]
<1>1. PICK m \in Nat : all = [i \in 1 .. m |-> all[i]] /\ DOMAIN all = 1 .. m
  BY DEF Tally
<1>0. m \in Nat
  OBVIOUS
<1>8. now[name] = said[name] \o (<<Comma>> \o value) /\ \A x \in names : x # name => now[x] = said[x]
  BY DEF Gains
<1>2. /\ \A i \in 1 .. m : /\ all[i] = [name |-> all[i].name, value |-> all[i].value]
                           /\ all[i].value \in Seq(U)
                           /\ said[all[i].name] = <<Comma>> \o all[i].value
      /\ \A i, j \in 1 .. m : all[i].name = all[j].name => i = j
      /\ seen = {all[i].name : i \in 1 .. m}
      /\ \A x \in names \ seen : said[x] = <<>>
  BY <1>1 DEF Tally
<1>3. named = {i \in 1 .. m : all[i].name = name}
  BY <1>1 DEF F!Named
<1>4. <<Comma>> \in Seq(U) /\ <<Comma>> \o value \in Seq(U)
  <2>1. <<Comma>> \in Seq(U)
    BY OneSeq
  <2>. QED BY <2>1, ConcatProperties
<1>5. joined = IF named = {} THEN Append(all, new)
               ELSE [i \in DOMAIN all |-> IF i \in named
                        THEN [all[i] EXCEPT !.value = @ \o <<Comma>> \o value] ELSE all[i]]
  BY DEF F!Joined, F!Change, Comma
<1>. HIDE DEF named, joined
<1>6. CASE named = {}
  <2>1. name \notin seen
    BY <1>2, <1>3, <1>6
  <2>. DEFINE T == {all[i] : i \in 1 .. m} \cup {new}
  <2>2. all \in [1 .. m -> T]
    BY <1>1
  <2>4. new \in T
    OBVIOUS
  <2>. HIDE DEF T
  <2>3. all \in Seq(T) /\ Len(all) = m
    <3>1. all \in Seq(T)
      BY <1>0, <2>2, SeqDef
    <3>2. Len(all) \in Nat /\ DOMAIN all = 1 .. Len(all)
      BY <3>1, LenProperties
    <3>. QED BY <1>0, <1>1, <3>1, <3>2
  <2>5. joined \in Seq(T) /\ Len(joined) = m + 1 /\ (\A i \in 1 .. m : joined[i] = all[i]) /\ joined[m + 1] = new
    BY <1>5, <1>6, <2>3, <2>4, AppendProperties
  <2>6. joined = [i \in 1 .. m + 1 |-> joined[i]] /\ DOMAIN joined = 1 .. m + 1 /\ m + 1 \in Nat
    BY <1>1, <2>5, LenProperties
  <2>7. now[name] = <<Comma>> \o value
    <3>1. said[name] = <<>>
      BY <1>2, <2>1
    <3>2. now[name] = <<>> \o (<<Comma>> \o value)
      BY <1>8, <3>1
    <3>. QED BY <1>4, <3>2, ConcatEmptySeq
  <2>8. ASSUME NEW i \in 1 .. m PROVE all[i].name # name /\ now[all[i].name] = said[all[i].name]
    <3>1. all[i].name \in seen /\ all[i].name \in names
      BY <1>2
    <3>. QED BY <1>8, <2>1, <3>1
  <2>9. ASSUME NEW i \in 1 .. m + 1
        PROVE  /\ joined[i] = [name |-> joined[i].name, value |-> joined[i].value]
               /\ joined[i].value \in Seq(U)
               /\ now[joined[i].name] = <<Comma>> \o joined[i].value
    <3>1. CASE i \in 1 .. m
      <4>1. joined[i] = all[i] /\ now[all[i].name] = said[all[i].name]
        BY <2>5, <2>8, <3>1
      <4>2. /\ all[i] = [name |-> all[i].name, value |-> all[i].value]
            /\ all[i].value \in Seq(U)
            /\ said[all[i].name] = <<Comma>> \o all[i].value
        BY <1>2, <3>1
      <4>. QED BY <4>1, <4>2
    <3>2. CASE i = m + 1
      <4>1. joined[i] = new /\ new.name = name /\ new.value = value
        BY <2>5, <3>2
      <4>. QED BY <2>7, <4>1
    <3>. QED BY <1>0, <3>1, <3>2
  <2>10. ASSUME NEW i \in 1 .. m + 1, NEW j \in 1 .. m + 1, joined[i].name = joined[j].name PROVE i = j
    <3>1. \A x \in 1 .. m + 1 : x \in 1 .. m \/ x = m + 1
      BY <1>0
    <3>2. joined[m + 1].name = name
      BY <2>5
    <3>3. \A x \in 1 .. m : joined[x].name = all[x].name
      BY <2>5
    <3>. QED BY <1>2, <2>8, <2>10, <3>1, <3>2, <3>3
  <2>11. seen \cup {name} = {joined[i].name : i \in 1 .. m + 1}
    <3>1. \A x \in 1 .. m + 1 : x \in 1 .. m \/ x = m + 1
      BY <1>0
    <3>2. joined[m + 1].name = name /\ m + 1 \in 1 .. m + 1
      BY <1>0, <2>5
    <3>3. \A x \in 1 .. m : joined[x].name = all[x].name /\ x \in 1 .. m + 1
      BY <1>0, <2>5
    <3>. QED BY <1>2, <3>1, <3>2, <3>3
  <2>12. \A x \in names \ (seen \cup {name}) : now[x] = <<>>
    BY <1>2, <1>8
  <2>. QED BY <2>6, <2>9, <2>10, <2>11, <2>12 DEF Tally, joined
<1>7. CASE named # {}
  <2>1. PICK k \in 1 .. m : all[k].name = name
    BY <1>3, <1>7
  <2>2. named = {k}
    BY <1>2, <1>3, <2>1
  <2>3. joined = [i \in 1 .. m |-> IF i = k THEN [all[i] EXCEPT !.value = @ \o <<Comma>> \o value] ELSE all[i]]
    BY <1>1, <1>5, <1>7, <2>2
  <2>. DEFINE v == all[k].value
              w == v \o <<Comma>> \o value
  <2>4. [all[k] EXCEPT !.value = @ \o <<Comma>> \o value] = [name |-> name, value |-> w]
    <3>1. all[k] = [name |-> name, value |-> v]
      BY <1>2, <2>1
    <3>2. ASSUME NEW r, r = [name |-> name, value |-> v], NEW x
          PROVE  [r EXCEPT !.value = x] = [name |-> name, value |-> x]
      BY <3>2
    <3>3. [all[k] EXCEPT !.value = @ \o <<Comma>> \o value] = [all[k] EXCEPT !.value = w]
      OBVIOUS
    <3>. QED BY <3>1, <3>2, <3>3
  <2>5. v \in Seq(U) /\ said[name] = <<Comma>> \o v
    BY <1>2, <2>1
  <2>. HIDE DEF v
  <2>6. w \in Seq(U) /\ now[name] = <<Comma>> \o w
    <3>1. v \o <<Comma>> \in Seq(U)
      BY <1>4, <2>5, ConcatProperties
    <3>2. w \in Seq(U)
      BY <3>1, ConcatProperties
    <3>3. w = v \o (<<Comma>> \o value)
      BY <1>4, <2>5, ConcatAssociative
    <3>4. (<<Comma>> \o v) \o (<<Comma>> \o value) = <<Comma>> \o (v \o (<<Comma>> \o value))
      BY <1>4, <2>5, ConcatAssociative
    <3>5. now[name] = (<<Comma>> \o v) \o (<<Comma>> \o value)
      BY <1>8, <2>5
    <3>. HIDE DEF w
    <3>. QED BY <3>2, <3>3, <3>4, <3>5
  <2>. HIDE DEF w
  <2>7. joined[k] = [name |-> name, value |-> w] /\ \A i \in 1 .. m : i # k => joined[i] = all[i]
    BY <2>3, <2>4
  <2>8. joined = [i \in 1 .. m |-> joined[i]] /\ DOMAIN joined = 1 .. m
    BY <2>3
  <2>9. \A i \in 1 .. m : joined[i].name = all[i].name
    BY <2>1, <2>7
  <2>10. ASSUME NEW i \in 1 .. m
         PROVE  /\ joined[i] = [name |-> joined[i].name, value |-> joined[i].value]
                /\ joined[i].value \in Seq(U)
                /\ now[joined[i].name] = <<Comma>> \o joined[i].value
    <3>1. CASE i = k
      BY <2>6, <2>7, <3>1
    <3>2. CASE i # k
      <4>1. joined[i] = all[i] /\ all[i].name # name /\ all[i].name \in names
        BY <1>2, <2>1, <2>7, <3>2
      <4>. QED BY <1>2, <1>8, <4>1
    <3>. QED BY <3>1, <3>2
  <2>11. \A i, j \in 1 .. m : joined[i].name = joined[j].name => i = j
    BY <1>2, <2>9
  <2>12. seen \cup {name} = {joined[i].name : i \in 1 .. m}
    BY <1>2, <2>1, <2>9
  <2>13. \A x \in names \ (seen \cup {name}) : now[x] = <<>>
    BY <1>2, <1>8
  <2>. QED BY <2>8, <2>10, <2>11, <2>12, <2>13 DEF Tally, joined
<1>. QED BY <1>6, <1>7

(* What a name says in all: its values, each behind a comma. *)
Pieces(g, name) == [i \in DOMAIN g |-> IF g[i].name = name THEN <<Comma>> \o g[i].value ELSE <<>>]

FlatBy(f, ss, len, U) ==
  /\ f[0] = <<>> /\ FlattenSeq(ss) = f[len]
  /\ \A k \in 0 .. len : f[k] \in Seq(U)
  /\ \A k \in 1 .. len : f[k] = f[k - 1] \o ss[k]

LEMMA PiecesFlat ==
  ASSUME NEW len \in Nat, NEW ss, NEW U, \A i \in 1 .. len : ss[i] \in Seq(U), ss = [i \in 1 .. len |-> ss[i]]
  PROVE  \E f : FlatBy(f, ss, len, U)
<1>. DEFINE flatten == CHOOSE h : Joins(h, ss, Len(ss))
            f == [k \in 0 .. len |-> IF k = 0 THEN <<>> ELSE flatten[k]]
            Bad == {k \in 0 .. len : ~ (f[k] \in Seq(U))}
<1>1. Len(ss) = len
  <2>1. ss \in [1 .. len -> Seq(U)] /\ DOMAIN ss = 1 .. len
    OBVIOUS
  <2>2. ss \in Seq(Seq(U))
    BY <2>1, SeqDef
  <2>. QED BY <2>1, <2>2, LenProperties
<1>2. FlattenSeq(ss) = IF Len(ss) = 0 THEN ss ELSE flatten[Len(ss)]
  BY DEF FlattenSeq, Joins
<1>3. Joins(flatten, ss, len)
  BY <1>1, JoinsExist
<1>. HIDE DEF flatten
<1>4. f[0] = <<>> /\ (\A k \in 1 .. len : f[k] = flatten[k]) /\ f = [k \in 0 .. len |-> f[k]]
  BY DEF f
<1>. HIDE DEF f
<1>5. ASSUME NEW k \in 1 .. len PROVE f[k] = IF k = 1 THEN ss[k] ELSE f[k - 1] \o ss[k]
  <2>1. k # 1 => k - 1 \in 1 .. len
    OBVIOUS
  <2>2. flatten[k] = IF k = 1 THEN ss[k] ELSE flatten[k - 1] \o ss[k]
    BY <1>3 DEF Joins
  <2>. QED BY <1>4, <2>1, <2>2
<1>6. ASSUME NEW k \in 1 .. len PROVE f[k] = f[k - 1] \o ss[k]
  <2>1. CASE k = 1
    <3>1. f[k] = ss[k] /\ k - 1 = 0 /\ ss[k] \in Seq(U)
      BY <1>5, <2>1
    <3>2. <<>> \o ss[k] = ss[k]
      BY <3>1, ConcatEmptySeq
    <3>. QED BY <1>4, <3>1, <3>2
  <2>2. CASE k # 1
    BY <1>5, <2>2
  <2>. QED BY <2>1, <2>2
<1>7. ASSUME Bad # {} PROVE FALSE
  <2>1. PICK k \in Bad : \A i \in Bad : k <= i
    <3>1. Bad \subseteq Nat
      OBVIOUS
    <3>. HIDE DEF Bad
    <3>. QED BY <1>7, <3>1, LeastNatural
  <2>2. k \in 0 .. len /\ ~ (f[k] \in Seq(U))
    BY <2>1
  <2>3. k # 0
    <3>1. <<>> \in Seq(U)
      OBVIOUS
    <3>. QED BY <1>4, <2>2, <3>1
  <2>4. k \in 1 .. len /\ k - 1 \in 0 .. len /\ ~ (k <= k - 1)
    BY <2>2, <2>3
  <2>5. f[k - 1] \in Seq(U) /\ ss[k] \in Seq(U)
    BY <2>1, <2>4
  <2>6. f[k] \in Seq(U)
    BY <1>6, <2>4, <2>5, ConcatProperties
  <2>. QED BY <2>2, <2>6
<1>8. FlattenSeq(ss) = f[len]
  <2>1. CASE len = 0
    <3>1. ss = <<>>
      BY <2>1
    <3>. QED BY <1>1, <1>2, <1>4, <2>1, <3>1
  <2>2. CASE len # 0
    <3>1. len \in 1 .. len
      BY <2>2
    <3>. QED BY <1>1, <1>2, <1>4, <2>2, <3>1
  <2>. QED BY <2>1, <2>2
<1>9. FlatBy(f, ss, len, U)
  BY <1>4, <1>6, <1>7, <1>8 DEF FlatBy
<1>. QED BY <1>9

LEMMA FoldTallies ==
  ASSUME NEW L \in Nat, NEW U, Comma \in U, NEW g, g = [i \in 1 .. L |-> g[i]], \A i \in 1 .. L : g[i].value \in Seq(U)
  PROVE  LET names == {g[i].name : i \in 1 .. L} IN
         Tally(F!FoldLeft(LAMBDA all, field : F!Joined(all, field.name, field.value), <<>>, g),
               names, names, [x \in names |-> FlattenSeq(Pieces(g, x))], U)
<1>. DEFINE names == {g[i].name : i \in 1 .. L}
            flat(x) == CHOOSE f : FlatBy(f, Pieces(g, x), L, U)
            said(k) == [x \in names |-> flat(x)[k]]
            seen(k) == {g[i].name : i \in 1 .. k}
            join == CHOOSE f : JoinsTo(f, DOMAIN g, <<>>, g)
            Counted(k) == Tally(join[1 .. k], names, seen(k), said(k), U)
            Bad == {k \in 0 .. L : ~ Counted(k)}
<1>1. F!FoldLeft(LAMBDA all, field : F!Joined(all, field.name, field.value), <<>>, g) = join[DOMAIN g]
  BY DEF F!FoldLeft, F!MapThenFoldSet, JoinsTo, JoinedTo, F!Max, Max
<1>2. DOMAIN g = 1 .. L
  OBVIOUS
<1>3. JoinsTo(join, 1 .. L, <<>>, g)
  BY <1>2, JoinExists
<1>. HIDE DEF join
<1>4. ASSUME NEW x PROVE FlatBy(flat(x), Pieces(g, x), L, U)
  <2>. DEFINE ss == Pieces(g, x)
  <2>1. ss = [i \in 1 .. L |-> IF g[i].name = x THEN <<Comma>> \o g[i].value ELSE <<>>]
    BY <1>2 DEF Pieces
  <2>2. ss = [i \in 1 .. L |-> ss[i]]
    BY <2>1
  <2>3. ASSUME NEW i \in 1 .. L PROVE ss[i] \in Seq(U)
    <3>1. <<Comma>> \in Seq(U) /\ <<>> \in Seq(U)
      BY OneSeq
    <3>2. <<Comma>> \o g[i].value \in Seq(U)
      BY <3>1, ConcatProperties
    <3>. QED BY <2>1, <3>1, <3>2
  <2>. HIDE DEF ss
  <2>4. \E f : FlatBy(f, ss, L, U)
    BY <2>2, <2>3, PiecesFlat
  <2>. QED BY <2>4 DEF ss
<1>. HIDE DEF flat
<1>5. ASSUME Bad # {} PROVE FALSE
  <2>1. PICK k \in Bad : \A i \in Bad : k <= i
    <3>1. Bad \subseteq Nat
      OBVIOUS
    <3>. HIDE DEF Bad
    <3>. QED BY <1>5, <3>1, LeastNatural
  <2>2. k \in 0 .. L /\ ~ Counted(k)
    BY <2>1
  <2>3. 1 .. k \in SUBSET (1 .. L)
    BY <2>2
  <2>4. join[1 .. k] = IF 1 .. k = {} THEN <<>> ELSE JoinedTo(join[(1 .. k) \ {Max(1 .. k)}], g[Max(1 .. k)])
    BY <1>3, <2>3 DEF JoinsTo
  <2>5. CASE k = 0
    <3>1. 1 .. k = {} /\ join[1 .. k] = <<>> /\ seen(k) = {}
      BY <2>4, <2>5
    <3>2. \A x \in names : said(k)[x] = <<>>
      <4>1. \A x : flat(x)[0] = <<>>
        BY <1>4 DEF FlatBy
      <4>. QED BY <2>5, <4>1
    <3>3. <<>> = [i \in 1 .. 0 |-> <<>>[i]] /\ DOMAIN <<>> = 1 .. 0 /\ DOMAIN <<>> = {} /\ 0 \in Nat
      OBVIOUS
    <3>. HIDE DEF said, seen, names
    <3>4. Tally(<<>>, names, {}, said(k), U)
      BY <3>2, <3>3 DEF Tally
    <3>. QED BY <2>2, <3>1, <3>4
  <2>6. CASE k # 0
    <3>1. k \in 1 .. L /\ k - 1 \in 0 .. L /\ ~ (k <= k - 1)
      BY <2>2, <2>6
    <3>2. Counted(k - 1)
      BY <2>1, <3>1
    <3>3. Max(1 .. k) = k /\ 1 .. k # {}
      <4>1. 1 .. k # {} /\ 1 .. k \subseteq 0 .. k /\ k \in Nat /\ k \in 1 .. k
        BY <3>1
      <4>2. Max(1 .. k) \in 1 .. k /\ \A y \in 1 .. k : y <= Max(1 .. k)
        BY <4>1, MaxGreatest
      <4>3. k <= Max(1 .. k) /\ Max(1 .. k) <= k /\ Max(1 .. k) \in Nat
        BY <4>1, <4>2
      <4>. QED BY <4>1, <4>3
    <3>4. (1 .. k) \ {k} = 1 .. k - 1
      BY <3>1
    <3>. DEFINE name == g[k].name
                value == g[k].value
    <3>5. join[1 .. k] = F!Joined(join[1 .. k - 1], name, value)
      BY <2>4, <3>3, <3>4 DEF JoinedTo
    <3>6. name \in names /\ value \in Seq(U) /\ seen(k - 1) \subseteq names
      <4>1. \A i \in 1 .. k - 1 : i \in 1 .. L
        BY <3>1
      <4>. QED BY <3>1, <4>1
    <3>7. seen(k) = seen(k - 1) \cup {name}
      <4>1. \A i \in 1 .. k : i \in 1 .. k - 1 \/ i = k
        BY <3>1
      <4>2. \A i \in 1 .. k - 1 : i \in 1 .. k
        BY <3>1
      <4>3. k \in 1 .. k
        BY <3>1
      <4>. QED BY <4>1, <4>2, <4>3
    <3>8. Gains(said(k - 1), said(k), names, name, value)
      <4>1. ASSUME NEW x \in names
            PROVE  flat(x)[k] = IF x = name THEN flat(x)[k - 1] \o (<<Comma>> \o value) ELSE flat(x)[k - 1]
        <5>1. flat(x)[k] = flat(x)[k - 1] \o Pieces(g, x)[k] /\ flat(x)[k - 1] \in Seq(U)
          BY <1>4, <3>1 DEF FlatBy
        <5>2. Pieces(g, x)[k] = IF name = x THEN <<Comma>> \o value ELSE <<>>
          BY <1>2, <3>1 DEF Pieces
        <5>3. flat(x)[k - 1] \o <<>> = flat(x)[k - 1]
          BY <5>1, ConcatEmptySeq
        <5>. QED BY <5>1, <5>2, <5>3
      <4>. HIDE DEF name, value, names
      <4>. QED BY <4>1 DEF Gains
    <3>. HIDE DEF name, value, names, said, seen
    <3>9. Tally(join[1 .. k], names, seen(k), said(k), U)
      BY <3>2, <3>5, <3>6, <3>7, <3>8, JoinedTallies
    <3>. QED BY <2>2, <3>9
  <2>. QED BY <2>5, <2>6
<1>6. L \in 0 .. L
  OBVIOUS
<1>7. Counted(L)
  BY <1>5, <1>6
<1>8. said(L) = [x \in names |-> FlattenSeq(Pieces(g, x))]
  <2>1. \A x : flat(x)[L] = FlattenSeq(Pieces(g, x))
    BY <1>4 DEF FlatBy
  <2>. HIDE DEF names
  <2>. QED BY <2>1
<1>. HIDE DEF said
<1>. QED BY <1>1, <1>2, <1>7, <1>8

(* The value that params_get finds. *)
LEMMA GetIs ==
  ASSUME NEW m, NEW list, NEW w, Chain(m, list, w), Unique(Entries(m, list)),
         NEW name, NEW k \in DOMAIN Entries(m, list), Fold(Entries(m, list)[k].key) = Fold(name)
  PROVE  params_get(m, list, name) = Entries(m, list)[k].value
<1>. DEFINE d == Entries(m, list)
<1>1. /\ DOMAIN d = 1 .. Len(w)
      /\ Match(m, list, name) = {} => \A i \in DOMAIN d : Fold(d[i].key) # Fold(name)
      /\ Match(m, list, name) # {} =>
            \E j \in 1 .. Len(w) : Match(m, list, name) = {w[j]} /\ Fold(d[j].key) = Fold(name)
  BY MatchIs
<1>2. d = [i \in 1 .. Len(w) |-> m.node[w[i]].data]
  BY ChainEntries
<1>. HIDE DEF d
<1>3. Match(m, list, name) # {}
  BY <1>1 DEF d
<1>4. PICK j \in 1 .. Len(w) : Match(m, list, name) = {w[j]} /\ Fold(d[j].key) = Fold(name)
  BY <1>1, <1>3
<1>5. j = k
  BY <1>1, <1>4 DEF Unique, d
<1>6. (CHOOSE x \in Match(m, list, name) : TRUE) = w[k]
  BY <1>4, <1>5
<1>7. params_get(m, list, name) = m.node[w[k]].data.value
  BY <1>3, <1>6 DEF params_get
<1>. QED BY <1>1, <1>2, <1>7 DEF d

LEMMA TailOf ==
  ASSUME NEW U, NEW c \in U, NEW v \in Seq(U) PROVE Tail(<<c>> \o v) = v
<1>. DEFINE s == <<c>> \o v
<1>1. <<c>> \in Seq(U) /\ Len(<<c>>) = 1 /\ Len(v) \in Nat
  BY OneSeq
<1>2. s \in Seq(U) /\ Len(s) = 1 + Len(v) /\ \A i \in 1 .. 1 + Len(v) : s[i] = IF i <= 1 THEN <<c>>[i] ELSE v[i - 1]
  BY <1>1, ConcatProperties
<1>. HIDE DEF s
<1>3. s # <<>>
  BY <1>1, <1>2, EmptySeq
<1>4. Tail(s) \in Seq(U) /\ Len(Tail(s)) = Len(s) - 1 /\ \A i \in 1 .. Len(Tail(s)) : Tail(s)[i] = s[i + 1]
  BY <1>2, <1>3, HeadTailProperties
<1>5. Len(Tail(s)) = Len(v)
  BY <1>1, <1>2, <1>4
<1>6. ASSUME NEW i \in 1 .. Len(Tail(s)) PROVE Tail(s)[i] = v[i]
  <2>1. i \in 1 .. Len(v) /\ i + 1 \in 1 .. 1 + Len(v) /\ ~ (i + 1 <= 1) /\ (i + 1) - 1 = i
    BY <1>1, <1>5
  <2>. QED BY <1>2, <1>4, <2>1
<1>7. Tail(s) = v
  BY <1>4, <1>5, <1>6, SeqEqual
<1>. QED BY <1>7 DEF s

LEMMA PlainIn == ASSUME NEW v, Plain(v), NEW U, ToSet(v) \subseteq U PROVE v \in Seq(U)
<1>1. PICK T : v \in Seq(T)
  BY DEF Plain
<1>2. DOMAIN v = 1 .. Len(v) /\ Len(v) \in Nat /\ v = [i \in 1 .. Len(v) |-> v[i]]
  BY <1>1
<1>3. \A i \in 1 .. Len(v) : v[i] \in U
  BY <1>2 DEF ToSet
<1>4. v \in [1 .. Len(v) -> U]
  BY <1>2, <1>3
<1>. QED BY <1>2, <1>4, SeqDef

(* The list onto which the pairs are appended one after the other. *)
NamesIn(pairs) == {Fold(pairs[i].key) : i \in DOMAIN pairs}
Shows(d, pairs) ==
  /\ Len(d) = Cardinality(NamesIn(pairs))
  /\ \A name \in NamesIn(pairs) :
        \E k \in DOMAIN d : Fold(d[k].key) = name /\ d[k].value = Tail(FlattenSeq(Pieces(FieldsOf(pairs), name)))

LEMMA AppendedMean ==
  ASSUME NEW d, Unique(d), NEW n, Pairs(d, n), NEW T, NEW pairs \in Seq(T),
         \A x \in T : Plain(x.key) /\ Plain(x.value),
         FieldsOf(d) = AllJoined(FieldsOf(pairs))
  PROVE  Shows(d, pairs)
<1>. DEFINE L == Len(pairs)
            g == FieldsOf(pairs)
            f == FieldsOf(d)
            names == {g[i].name : i \in 1 .. L}
            V == UNION {ToSet(x.value) : x \in T}
            U == V \cup {Comma}
            said == [x \in names |-> FlattenSeq(Pieces(g, x))]
<1>1. L \in Nat /\ DOMAIN pairs = 1 .. L /\ \A i \in 1 .. L : pairs[i] \in T
  OBVIOUS
<1>2. g = [i \in 1 .. L |-> [name |-> Fold(pairs[i].key), value |-> pairs[i].value]]
  BY <1>1 DEF FieldsOf
<1>3. g = [i \in 1 .. L |-> g[i]] /\ \A i \in 1 .. L : g[i].name = Fold(pairs[i].key) /\ g[i].value = pairs[i].value
  BY <1>2
<1>. HIDE DEF L, g
<1>4. names = NamesIn(pairs)
  BY <1>1, <1>3 DEF NamesIn
<1>5. ASSUME NEW x \in T PROVE x.value \in Seq(U)
  <2>1. ToSet(x.value) \subseteq V
    OBVIOUS
  <2>4. ToSet(x.value) \subseteq U
    BY <2>1
  <2>2. Plain(x.value)
    OBVIOUS
  <2>. HIDE DEF U, V
  <2>. QED BY <2>2, <2>4, PlainIn
<1>. HIDE DEF V
<1>6. Comma \in U
  OBVIOUS
<1>. HIDE DEF U
<1>7. \A i \in 1 .. L : g[i].value \in Seq(U)
  BY <1>1, <1>3, <1>5
<1>8. Tally(f, names, names, said, U)
  <2>1. Tally(AllJoined(g), names, names, said, U)
    BY <1>1, <1>3, <1>6, <1>7, FoldTallies DEF AllJoined
  <2>. HIDE DEF names, said
  <2>. QED BY <2>1 DEF g
<1>9. \A x \in names : said[x] = FlattenSeq(Pieces(g, x))
  OBVIOUS
<1>. HIDE DEF names, said
<1>10. n \in Nat /\ DOMAIN d = 1 .. n /\ d = [i \in 1 .. n |-> d[i]]
  BY DEF Pairs
<1>11. DOMAIN f = 1 .. n /\ \A i \in 1 .. n : f[i].name = Fold(d[i].key) /\ f[i].value = d[i].value
  BY <1>10 DEF FieldsOf
<1>. HIDE DEF f
<1>12. /\ \A i \in 1 .. n : f[i].value \in Seq(U) /\ said[f[i].name] = <<Comma>> \o f[i].value
       /\ \A i, j \in 1 .. n : f[i].name = f[j].name => i = j
       /\ names = {f[i].name : i \in 1 .. n}
  BY <1>8, <1>11 DEF Tally
<1>13. Cardinality(names) = n
  <2>. DEFINE h == [i \in 1 .. n |-> f[i].name]
  <2>1. h \in Surjection(1 .. n, names) /\ h \in Injection(1 .. n, names)
    BY <1>12 DEF Surjection, Injection, IsInjective
  <2>2. IsFiniteSet(1 .. n) /\ Cardinality(1 .. n) = n
    BY <1>10, FS_Interval
  <2>. HIDE DEF h
  <2>3. Cardinality(names) = Cardinality(1 .. n)
    BY <2>1, <2>2, FS_Surjection
  <2>. QED BY <2>2, <2>3
<1>14. Len(d) = n
  <2>1. d \in [1 .. n -> {d[i] : i \in 1 .. n}]
    BY <1>10
  <2>2. d \in Seq({d[i] : i \in 1 .. n})
    BY <1>10, <2>1, SeqDef
  <2>. QED BY <1>10, <2>2, LenProperties
<1>15. ASSUME NEW name \in names
       PROVE  \E k \in DOMAIN d : Fold(d[k].key) = name /\ d[k].value = Tail(FlattenSeq(Pieces(g, name)))
  <2>1. PICK k \in 1 .. n : f[k].name = name
    BY <1>12
  <2>2. FlattenSeq(Pieces(g, name)) = <<Comma>> \o f[k].value /\ f[k].value \in Seq(U)
    BY <1>9, <1>12, <2>1
  <2>3. Tail(FlattenSeq(Pieces(g, name))) = f[k].value
    BY <1>6, <2>2, TailOf
  <2>. QED BY <1>10, <1>11, <2>1, <2>3
<1>. QED BY <1>4, <1>13, <1>14, <1>15 DEF g, Shows

(* What ParseMeans says, in terms of the fields, keys and values of a text. *)
Is == "="
And == "&"

LEMMA DelimsApart == {Is} \cap {And} = {} /\ NUL \notin {Is} /\ NUL \notin {And}
<1>1. Is # And /\ Is # NUL /\ And # NUL
  BY Zenon DEF Is, And, NUL
<1>. QED BY <1>1

LEMMA QueryFieldsAre == ASSUME NEW text PROVE QueryFields(text) = FieldsIn(text, {And})
<1>. DEFINE cuts == {0, Len(text) + 1} \cup {i \in DOMAIN text : text[i] = "&"}
            from == {i \in 0 .. Len(text) - 1 : i \in cuts /\ i + 1 \notin cuts}
            nth(k) == CHOOSE i \in from : Cardinality({j \in from : j <= i}) = k
<1>1. cuts = CutsOf(text, {And})
  <2>1. \A i \in DOMAIN text : text[i] = "&" <=> text[i] \in {And}
    BY Zenon DEF And
  <2>2. {i \in DOMAIN text : text[i] = "&"} = {i \in DOMAIN text : text[i] \in {And}}
    BY <2>1, Zenon
  <2>. QED BY <2>2, Zenon DEF CutsOf
<1>2. QueryFields(text) = [k \in 1 .. Cardinality(from) |-> SubSeq(text, nth(k) + 1, Min({j \in cuts : j > nth(k)}) - 1)]
  BY Zenon DEF QueryFields
<1>. HIDE DEF cuts
<1>3. from = FromsOf(text, {And})
  BY <1>1, Zenon DEF FromsOf
<1>4. \A k : nth(k) = Nth(from, k)
  BY Zenon DEF Nth, Upto
<1>. HIDE DEF from, nth
<1>5. \A k : SubSeq(text, nth(k) + 1, Min({j \in cuts : j > nth(k)}) - 1) = FieldAt(text, {And}, Nth(FromsOf(text, {And}), k))
  BY <1>1, <1>3, <1>4, Zenon DEF FieldAt
<1>6. FieldsIn(text, {And}) = [k \in 1 .. Cardinality(from) |-> FieldAt(text, {And}, Nth(FromsOf(text, {And}), k))]
  BY <1>3, Zenon DEF FieldsIn
<1>. QED BY <1>2, <1>5, <1>6, Zenon

LEMMA PartsAre ==
  ASSUME NEW f
  PROVE  /\ SubSeq(f, 1, Min({i \in DOMAIN f : f[i] = "="}) - 1) = KeyOf(f, {Is})
         /\ {i \in DOMAIN f : i > Len(KeyOf(f, {Is})) /\ f[i] # "="} = RestOf(f, {Is})
         /\ Proper(f) <=> ProperIn(f, {Is})
<1>1. \A i : f[i] = "=" <=> f[i] \in {Is}
  BY Zenon DEF Is
<1>2. {i \in DOMAIN f : f[i] = "="} = Delims(f, {Is})
  BY <1>1, Zenon DEF Delims
<1>3. SubSeq(f, 1, Min({i \in DOMAIN f : f[i] = "="}) - 1) = KeyOf(f, {Is})
  BY <1>2, Zenon DEF KeyOf
<1>4. {i \in DOMAIN f : i > Len(KeyOf(f, {Is})) /\ f[i] # "="} = RestOf(f, {Is})
  BY <1>1, Zenon DEF RestOf
<1>5. "=" \in ToSet(f) <=> Delims(f, {Is}) # {}
  BY <1>1, Zenon DEF Delims, ToSet
<1>6. Proper(f) <=> ProperIn(f, {Is})
  BY <1>1, <1>5, Zenon DEF Proper, ProperIn
<1>. QED BY <1>3, <1>4, <1>6

KeyIn(f) == KeyOf(f, {Is})
Said(fields, name) ==
  [i \in DOMAIN fields |-> IF Fold(KeyIn(fields[i])) = name THEN <<Comma>> \o ValueIn(fields[i], {Is}) ELSE <<>>]
Means(text) ==
  LET fields == Says(text, {And})
  IN  IF \E i \in DOMAIN fields : ~ ProperIn(fields[i], {Is}) THEN stuck
      ELSE /\ ~ stuck
           /\ \A f \in ToSet(fields) : params_get(mem, src, KeyIn(f)) = Tail(FlattenSeq(Said(fields, Fold(KeyIn(f)))))
           /\ Len(Entries(mem, src)) = Cardinality({Fold(KeyIn(f)) : f \in ToSet(fields)})

LEMMA MeansIs == (query # NULL => Means(query)) => ParseMeans
<1>. DEFINE fields == IF query # <<>> /\ query[1] = "&" THEN <<>> ELSE QueryFields(query)
            key(f) == SubSeq(f, 1, Min({i \in DOMAIN f : f[i] = "="}) - 1)
            rest(f) == {i \in DOMAIN f : i > Len(key(f)) /\ f[i] # "="}
            value(f) == IF rest(f) = {} THEN <<>> ELSE SubSeq(f, Min(rest(f)), Len(f))
            said(name) == FlattenSeq([i \in DOMAIN fields |->
                             IF Fold(key(fields[i])) = name THEN <<",">> \o value(fields[i]) ELSE <<>>])
<1>1. ParseMeans <=> (query # NULL =>
         IF \E i \in DOMAIN fields : ~ Proper(fields[i]) THEN stuck
         ELSE /\ ~ stuck
              /\ \A f \in ToSet(fields) : params_get(mem, src, key(f)) = Tail(said(Fold(key(f))))
              /\ Len(Entries(mem, src)) = Cardinality({Fold(key(f)) : f \in ToSet(fields)}))
  BY Zenon DEF ParseMeans
<1>2. fields = Says(query, {And})
  <2>1. query[1] = "&" <=> query[1] \in {And}
    BY Zenon DEF And
  <2>. QED BY <2>1, QueryFieldsAre, Zenon DEF Says
<1>3. \A f : key(f) = KeyIn(f)
  BY PartsAre, Zenon DEF KeyIn
<1>. HIDE DEF key, fields
<1>4. \A f : rest(f) = RestOf(f, {Is})
  <2>1. \A f : {i \in DOMAIN f : i > Len(KeyIn(f)) /\ f[i] # "="} = RestOf(f, {Is})
    BY PartsAre, Zenon DEF KeyIn
  <2>. QED BY <1>3, <2>1, Zenon
<1>. HIDE DEF rest
<1>5. \A f : value(f) = ValueIn(f, {Is})
  BY <1>4, Zenon DEF ValueIn
<1>. HIDE DEF value
<1>6. \A name : said(name) = FlattenSeq(Said(fields, name))
  <2>1. ASSUME NEW name PROVE [i \in DOMAIN fields |->
                             IF Fold(key(fields[i])) = name THEN <<",">> \o value(fields[i]) ELSE <<>>] = Said(fields, name)
    BY <1>3, <1>5, Zenon DEF Said, Comma
  <2>. QED BY <2>1, Zenon
<1>. HIDE DEF said
<1>7. {Fold(key(f)) : f \in ToSet(fields)} = {Fold(KeyIn(f)) : f \in ToSet(fields)}
  BY <1>3, Zenon
<1>8. \A f : Proper(f) <=> ProperIn(f, {Is})
  BY PartsAre, Zenon
<1>. QED BY <1>1, <1>2, <1>3, <1>6, <1>7, <1>8, Zenon DEF Means

LEMMA SaysFields ==
  ASSUME NEW S, NEW s \in Seq(S), NEW ends
  PROVE  \E n \in Nat : DOMAIN Says(s, ends) = 1 .. n
<1>1. Cardinality(FromsOf(s, ends)) \in Nat
  BY FieldsCounted
<1>2. DOMAIN FieldsIn(s, ends) = 1 .. Cardinality(FromsOf(s, ends))
  BY DEF FieldsIn
<1>3. DOMAIN <<>> = 1 .. 0 /\ 0 \in Nat
  OBVIOUS
<1>. QED BY <1>1, <1>2, <1>3 DEF Says

LEMMA ParsedMeans ==
  ASSUME \A T : NULL \notin Seq(T), ListsGood, NEW text \in Query, Parse(text)
  PROVE  Means(text)'
<1>. DEFINE fields == Says(text, {And})
            pairs == params_new_parse_query(text)
            proper == \A i \in DOMAIN fields : ProperIn(fields[i], {Is})
            keys == {Fold(KeyIn(f)) : f \in ToSet(fields)}
            get(f) == params_get(mem', src', KeyIn(f))
<1>1. PICK S : text \in Seq(S) /\ NUL \notin S
  BY GivenPlain DEF Plain
<1>2. pairs = IF proper THEN [i \in DOMAIN fields |-> PairOf(fields[i], {Is})] ELSE NULL
  <2>. DEFINE S1 == S \cup {NUL}
  <2>1. NUL \in S1 /\ text \in Seq(S1) /\ \A j \in 1 .. Len(text) : text[j] # NUL
    BY <1>1
  <2>. HIDE DEF S1
  <2>2. params_new_parse_delim(text, {Is}, {And})
           = IF proper THEN [i \in DOMAIN fields |-> PairOf(fields[i], {Is})] ELSE NULL
    BY <2>1, ParsedIs, DelimsApart
  <2>3. pairs = params_new_parse_delim(text, {Is}, {And})
    BY Zenon DEF params_new_parse_query, Is, And
  <2>. QED BY <2>2, <2>3
<1>3. PICK n \in Nat : DOMAIN fields = 1 .. n
  BY <1>1, SaysFields
<1>4. Means(text)' <=> IF ~ proper THEN stuck'
                       ELSE /\ ~ stuck'
                            /\ \A f \in ToSet(fields) : get(f) = Tail(FlattenSeq(Said(fields, Fold(KeyIn(f)))))
                            /\ Len(Entries(mem', src')) = Cardinality(keys)
  BY Zenon DEF Means
<1>. HIDE DEF fields, pairs
<1>5. CASE ~ proper
  <2>1. pairs = NULL
    BY <1>2, <1>5
  <2>2. stuck'
    BY <2>1 DEF Parse, pairs
  <2>. QED BY <1>4, <1>5, <2>2
<1>6. CASE proper
  <2>1. pairs = [i \in 1 .. n |-> PairOf(fields[i], {Is})] /\ DOMAIN pairs = 1 .. n
    BY <1>2, <1>3, <1>6
  <2>2. pairs # NULL
    <3>. DEFINE T == {PairOf(fields[i], {Is}) : i \in 1 .. n}
    <3>1. pairs \in [1 .. n -> T]
      BY <2>1
    <3>. HIDE DEF T
    <3>2. pairs \in Seq(T)
      BY <3>1, SeqDef
    <3>. QED BY <3>2
  <2>3. /\ ~ stuck' /\ ListsGood' /\ Fields(mem', src') = AllJoined(FieldsOf(pairs))
    BY <2>2, ParseLeaves DEF pairs
  <2>4. PICK T : pairs \in Seq(T) /\ \A x \in T : Plain(x.key) /\ Plain(x.value)
    BY <2>2, GivenPlain, ParsedPairs DEF params_new_parse_query, pairs
  <2>. DEFINE d == Entries(mem', src')
              names == NamesIn(pairs)
  <2>12. Unique(d) /\ (\E m \in Nat : Pairs(d, m)) /\ FieldsOf(d) = AllJoined(FieldsOf(pairs))
    BY <2>3, FieldsAre DEF ListsGood, Good
  <2>5. PICK m : Unique(d) /\ Pairs(d, m) /\ FieldsOf(d) = AllJoined(FieldsOf(pairs))
    BY <2>12
  <2>. HIDE DEF d
  <2>6. Shows(d, pairs)
    BY <2>4, <2>5, AppendedMean
  <2>7. \A i \in 1 .. n : pairs[i].key = KeyIn(fields[i]) /\ pairs[i].value = ValueIn(fields[i], {Is})
    BY <2>1 DEF PairOf, KeyIn
  <2>8. ASSUME NEW name PROVE Pieces(FieldsOf(pairs), name) = Said(fields, name)
    <3>. DEFINE g == FieldsOf(pairs)
    <3>1. DOMAIN g = 1 .. n /\ \A i \in 1 .. n : g[i].name = Fold(KeyIn(fields[i])) /\ g[i].value = ValueIn(fields[i], {Is})
      BY <2>1, <2>7 DEF FieldsOf
    <3>. HIDE DEF g
    <3>2. Pieces(g, name) = Said(fields, name)
      BY <1>3, <3>1 DEF Pieces, Said
    <3>. QED BY <3>2 DEF g
  <2>9. names = keys
    <3>1. ToSet(fields) = {fields[i] : i \in 1 .. n}
      BY <1>3 DEF ToSet
    <3>2. names = {Fold(KeyIn(fields[i])) : i \in 1 .. n}
      BY <2>1, <2>7 DEF NamesIn
    <3>. QED BY <3>1, <3>2
  <2>10. PICK w : Chain(mem', src', w)
    BY <2>3 DEF ListsGood, Sound, Apart
  <2>11. ASSUME NEW f \in ToSet(fields) PROVE get(f) = Tail(FlattenSeq(Said(fields, Fold(KeyIn(f)))))
    <3>1. Fold(KeyIn(f)) \in names
      BY <2>9
    <3>2. PICK k \in DOMAIN d : /\ Fold(d[k].key) = Fold(KeyIn(f))
                                /\ d[k].value = Tail(FlattenSeq(Said(fields, Fold(KeyIn(f)))))
      BY <2>6, <2>8, <3>1 DEF Shows
    <3>3. get(f) = d[k].value
      BY <2>5, <2>10, <3>2, GetIs DEF d
    <3>. QED BY <3>2, <3>3
  <2>. HIDE DEF names, keys, get, proper
  <2>13. Len(d) = Cardinality(keys)
    BY <2>6, <2>9 DEF Shows, names
  <2>14. Len(Entries(mem', src')) = Cardinality(keys)
    BY <2>13 DEF d
  <2>. QED BY <1>4, <1>6, <2>3, <2>11, <2>14
<1>. QED BY <1>5, <1>6

\* What a query means, for any query: the parser returns just when every field has a name
\* and a =, and then params_get gives for each name, in any case, the values of its fields
\* in their order with commas between them, and there is nothing else on the list. A query
\* that begins with & has no fields. The hypothesis says that the null pointer is no
\* sequence.
THEOREM QueriesMean == ASSUME \A T : NULL \notin Seq(T) PROVE Spec => []ParseMeans
<1>. DEFINE Inv == ListsGood /\ (query # NULL => Means(query))
<1>1. Init => Inv
  BY InitGood DEF Init
<1>2. Inv /\ [Next]_vars => Inv'
  <2>. SUFFICES ASSUME Inv, [Next]_vars PROVE (query # NULL => Means(query))'
    BY StepGood
  <2>1. CASE query' = NULL
    BY <2>1
  <2>2. ASSUME NEW text \in Query, Parse(text) PROVE (query # NULL => Means(query))'
    <3>1. query' = text /\ Means(text)'
      BY <2>2, ParsedMeans DEF Parse
    <3>. QED BY <3>1 DEF Means
  <2>3. ASSUME UNCHANGED vars PROVE (query # NULL => Means(query))'
    BY <2>3 DEF vars, Means
  <2>4. ASSUME NEW key \in Key, NEW value \in Value, AppendField(key, value) \/ ReplaceField(key, value) PROVE query' = NULL
    BY <2>4 DEF AppendField, ReplaceField, Dest
  <2>5. ASSUME NEW key \in Key, RemoveField(key) PROVE query' = NULL
    BY <2>5 DEF RemoveField, Dest
  <2>6. Merge \/ Free \/ FreeSrc => query' = NULL
    BY DEF Merge, Free, FreeSrc, Dest
  <2>. QED BY <2>1, <2>2, <2>3, <2>4, <2>5, <2>6 DEF Next
<1>3. Inv => ParseMeans
  BY MeansIs
<1>. QED BY <1>1, <1>2, <1>3, PTL DEF Spec
=============================================================================
