--------------------------- MODULE CfgReadProofs ---------------------------
(***************************************************************************)
(* Proofs about the dictionaries of CfgRead, for every hash, every order   *)
(* of the names and every place a pointer may take among them: a lookup    *)
(* is never stale, a name with a bucket of its own is never lost, and the  *)
(* entries of a bucket are one binary tree. What carries the induction is  *)
(* that the way to an entry never changes after its insertion.             *)
(***************************************************************************)
EXTENDS CfgRead, TLAPS

Key == {Fold(n) : n \in Name \cup {Listen}}
Entry == [name : Key, value : Value, left : SUBSET Nat, right : SUBSET Nat]
Table == Seq(Entry)

(* What is above one above an entry is above it too, on the same side. *)
SameSides(t) ==
  \A i \in DOMAIN t : \A j \in Above(t[i]) : t[j].left \subseteq t[i].left /\ t[j].right \subseteq t[i].right

(* A search that does not meet an entry has left its way at one it has met. *)
Divides(t) ==
  \A i \in DOMAIN t, a \in Address :
    ~ Meets(t, i, a) => \E p \in Above(t[i]) :
                          /\ Meets(t, p, a)
                          /\ \/ a < Rank(t[p].name) /\ p \in t[i].right
                             \/ ~ (a < Rank(t[p].name)) /\ p \in t[i].left

(* Every bucket in use has a root. *)
Rooted(t) ==
  \A i \in DOMAIN t : \E j \in DOMAIN t : Hash(t[j].name) = Hash(t[i].name) /\ Above(t[j]) = {}

Shaped(t) == TreeShaped(t) /\ SameSides(t) /\ Divides(t) /\ Rooted(t)

(* Of the entries of one name, at most one is ever found. *)
OneFound(t) ==
  \A i, j \in DOMAIN t :
    i \in x_tree_find(t, t[i].name) /\ j \in x_tree_find(t, t[i].name) => i = j

(* The names in the table are those that were given. *)
Listed(t, g) ==
  /\ \A n \in DOMAIN g : \E i \in DOMAIN t : t[i].name = n
  /\ \A i \in DOMAIN t : t[i].name \in DOMAIN g

Sound(t, g) == t \in Table /\ Shaped(t) /\ OneFound(t) /\ NeverStale(t, g) /\ Listed(t, g)
-----------------------------------------------------------------------------
LEMMA AppendFacts ==
  ASSUME NEW t \in Table, NEW e \in Entry
  PROVE  LET u == Append(t, e) IN
         /\ u \in Table
         /\ DOMAIN u = DOMAIN t \cup {Len(t) + 1}
         /\ Len(t) + 1 \notin DOMAIN t
         /\ \A i \in DOMAIN t : u[i] = t[i]
         /\ u[Len(t) + 1] = e
         /\ DOMAIN t = 1 .. Len(t)
         /\ Len(t) \in Nat
  BY DEF Table

(* An entry that is there already keeps its way. *)
LEMMA WayStays ==
  ASSUME NEW t \in Table, NEW e \in Entry, TreeShaped(t), NEW i \in DOMAIN t
  PROVE  LET u == Append(t, e) IN
         /\ \A j \in Above(t[i]) : j \in DOMAIN t
         /\ \A r : Meets(u, i, r) <=> Meets(t, i, r)
         /\ \A n : i \in x_tree_find(u, n) <=> i \in x_tree_find(t, n)
<1>. DEFINE u == Append(t, e)
<1>1. \A j \in Above(t[i]) : j \in DOMAIN t
  BY AppendFacts DEF TreeShaped
<1>2. \A r : Meets(u, i, r) <=> Meets(t, i, r)
  BY <1>1, AppendFacts DEF Meets, Above
<1>3. \A n : i \in x_tree_find(u, n) <=> i \in x_tree_find(t, n)
  <2>1. u[i] = t[i] /\ i \in DOMAIN u /\ \A j \in Above(t[i]) : u[j] = t[j]
    BY <1>1, AppendFacts
  <2>. QED BY <1>2, <2>1 DEF x_tree_find
<1>. QED BY <1>1, <1>2, <1>3
-----------------------------------------------------------------------------
(* x_tree_insert keeps the shape of the trees. *)
LEMMA InsertShaped ==
  ASSUME NEW t \in Table, Shaped(t), NEW n \in Name \cup {Listen}, NEW v \in Value, NEW a \in Address
  PROVE  LET u == x_tree_insert(t, Fold(n), v, a) IN
         /\ u \in Table
         /\ Shaped(u)
         /\ \E e \in Entry : u = Append(t, e) /\ e.name = Fold(n) /\ e.value = v
<1>. DEFINE met == {i \in DOMAIN t : Hash(t[i].name) = Hash(Fold(n)) /\ Meets(t, i, a)}
            left == {i \in met : a < Rank(t[i].name)}
            e == [name |-> Fold(n), value |-> v, left |-> left, right |-> met \ left]
            u == Append(t, e)
            k == Len(t) + 1
<1>1. u = x_tree_insert(t, Fold(n), v, a)
  BY DEF x_tree_insert
<1>2. DOMAIN t = 1 .. Len(t) /\ Len(t) \in Nat
  BY DEF Table
<1>3. met \subseteq Nat /\ left \subseteq met
  BY <1>2
<1>4. Fold(n) \in Key
  BY DEF Key
<1>5. e \in Entry
  BY <1>3, <1>4 DEF Entry
<1>6. Above(e) = met
  BY <1>3 DEF Above
<1>7. /\ u \in Table
      /\ DOMAIN u = DOMAIN t \cup {k}
      /\ k \notin DOMAIN t
      /\ \A i \in DOMAIN t : u[i] = t[i]
      /\ u[k] = e
  BY <1>5, AppendFacts
<1>8. \A i \in DOMAIN t : \A j \in Above(t[i]) :
         /\ j \in DOMAIN t
         /\ j \in 1 .. i - 1
         /\ Hash(t[j].name) = Hash(t[i].name)
  BY <1>2 DEF Shaped, TreeShaped
<1>9. \A i \in DOMAIN t : \A r : Meets(u, i, r) <=> Meets(t, i, r)
  BY <1>5, WayStays DEF Shaped
<1>10. ASSUME NEW j \in DOMAIN t, Hash(t[j].name) = Hash(Fold(n)), j \notin met
       PROVE  \E p \in met : \/ p \in left /\ p \in t[j].right
                             \/ p \notin left /\ p \in t[j].left
  <2>1. PICK p \in Above(t[j]) : /\ Meets(t, p, a)
                                 /\ \/ a < Rank(t[p].name) /\ p \in t[j].right
                                    \/ ~ (a < Rank(t[p].name)) /\ p \in t[j].left
    BY <1>10 DEF Shaped, Divides
  <2>2. p \in met
    BY <1>8, <1>10, <2>1
  <2>. QED BY <2>1, <2>2
<1>11. TreeShaped(u)
  <2>1. ASSUME NEW i \in DOMAIN t
        PROVE  /\ u[i].left \cap u[i].right = {}
               /\ Above(u[i]) \subseteq 1 .. i - 1
               /\ \A j \in 1 .. i - 1 :
                     Hash(u[j].name) = Hash(u[i].name) <=>
                         \/ j \in Above(u[i])
                         \/ u[i].left \cap u[j].right # {}
                         \/ u[i].right \cap u[j].left # {}
    <3>1. \A j \in 1 .. i - 1 : j \in DOMAIN t /\ u[j] = t[j]
      BY <1>2, <1>7
    <3>. QED BY <1>7, <3>1 DEF Shaped, TreeShaped
  <2>2. /\ u[k].left \cap u[k].right = {}
        /\ Above(u[k]) \subseteq 1 .. k - 1
    BY <1>2, <1>6, <1>7
  <2>3. ASSUME NEW j \in 1 .. k - 1
        PROVE  Hash(u[j].name) = Hash(u[k].name) <=>
                   \/ j \in Above(u[k])
                   \/ u[k].left \cap u[j].right # {}
                   \/ u[k].right \cap u[j].left # {}
    <3>1. j \in DOMAIN t /\ u[j] = t[j] /\ u[k] = e
      BY <1>2, <1>7
    <3>2. ASSUME Hash(t[j].name) = Hash(Fold(n)), j \notin met
          PROVE  left \cap t[j].right # {} \/ (met \ left) \cap t[j].left # {}
      BY <1>10, <3>1, <3>2
    <3>3. ASSUME NEW p \in met, p \in Above(t[j])
          PROVE  Hash(t[j].name) = Hash(Fold(n))
      BY <1>8, <3>1, <3>3
    <3>4. left \cap t[j].right # {} \/ (met \ left) \cap t[j].left # {} => Hash(t[j].name) = Hash(Fold(n))
      BY <3>3 DEF Above
    <3>. QED BY <1>6, <3>1, <3>2, <3>4
  <2>. QED BY <1>7, <2>1, <2>2, <2>3 DEF TreeShaped
<1>12. SameSides(u)
  <2>1. ASSUME NEW i \in DOMAIN t, NEW j \in Above(u[i])
        PROVE  u[j].left \subseteq u[i].left /\ u[j].right \subseteq u[i].right
    BY <1>7, <1>8, <2>1 DEF Shaped, SameSides
  <2>2. ASSUME NEW j \in met
        PROVE  t[j].left \subseteq left /\ t[j].right \subseteq met \ left
    <3>1. ASSUME NEW q \in Above(t[j]) PROVE q \in met
      <4>1. q \in DOMAIN t /\ Hash(t[q].name) = Hash(Fold(n))
        BY <1>8, <3>1
      <4>2. t[q].left \subseteq t[j].left /\ t[q].right \subseteq t[j].right
        BY <3>1 DEF Shaped, SameSides
      <4>. QED BY <4>1, <4>2 DEF Meets
    <3>. QED BY <3>1 DEF Meets, Above
  <2>3. u[k].left = left /\ u[k].right = met \ left /\ \A j \in Above(u[k]) : j \in met
    BY <1>6, <1>7
  <2>4. ASSUME NEW j \in Above(u[k])
        PROVE  u[j].left \subseteq u[k].left /\ u[j].right \subseteq u[k].right
    BY <1>7, <2>2, <2>3, <2>4
  <2>. QED BY <1>7, <2>1, <2>4 DEF SameSides
<1>13. Divides(u)
  <2>1. ASSUME NEW i \in DOMAIN t, NEW b \in Address, ~ Meets(u, i, b)
        PROVE  \E p \in Above(u[i]) : /\ Meets(u, p, b)
                                      /\ \/ b < Rank(u[p].name) /\ p \in u[i].right
                                         \/ ~ (b < Rank(u[p].name)) /\ p \in u[i].left
    <3>1. PICK p \in Above(t[i]) : /\ Meets(t, p, b)
                                   /\ \/ b < Rank(t[p].name) /\ p \in t[i].right
                                      \/ ~ (b < Rank(t[p].name)) /\ p \in t[i].left
      BY <1>9, <2>1 DEF Shaped, Divides
    <3>. QED BY <1>7, <1>8, <1>9, <3>1
  <2>2. ASSUME NEW b \in Address, ~ Meets(u, k, b)
        PROVE  \E p \in Above(u[k]) : /\ Meets(u, p, b)
                                      /\ \/ b < Rank(u[p].name) /\ p \in u[k].right
                                         \/ ~ (b < Rank(u[p].name)) /\ p \in u[k].left
    <3>1. PICK p \in met : \/ b < Rank(t[p].name) /\ p \in met \ left
                           \/ ~ (b < Rank(t[p].name)) /\ p \in left
      BY <1>7, <2>2 DEF Meets
    <3>2. CASE Meets(t, p, b)
      BY <1>6, <1>7, <1>9, <3>1, <3>2
    <3>3. CASE ~ Meets(t, p, b)
      <4>1. PICK q \in Above(t[p]) : /\ Meets(t, q, b)
                                     /\ \/ b < Rank(t[q].name) /\ q \in t[p].right
                                        \/ ~ (b < Rank(t[q].name)) /\ q \in t[p].left
        BY <3>3 DEF Shaped, Divides
      <4>2. q \in u[k].left <=> q \in t[p].left
        <5>1. q \in Above(u[p]) /\ p \in Above(u[k]) /\ u[p] = t[p] /\ u[q] = t[q]
          BY <1>6, <1>7, <1>8
        <5>2. u[p].left \subseteq u[k].left /\ u[p].right \subseteq u[k].right
          BY <1>7, <1>12, <5>1 DEF SameSides
        <5>3. u[k].left \cap u[k].right = {}
          BY <1>7, <1>11 DEF TreeShaped
        <5>. QED BY <5>1, <5>2, <5>3 DEF Above
      <4>3. q \in u[k].right <=> q \in t[p].right
        <5>1. q \in Above(u[p]) /\ p \in Above(u[k]) /\ u[p] = t[p] /\ u[q] = t[q]
          BY <1>6, <1>7, <1>8
        <5>2. u[p].left \subseteq u[k].left /\ u[p].right \subseteq u[k].right
          BY <1>7, <1>12, <5>1 DEF SameSides
        <5>3. u[k].left \cap u[k].right = {}
          BY <1>7, <1>11 DEF TreeShaped
        <5>. QED BY <5>1, <5>2, <5>3 DEF Above
      <4>4. q \in DOMAIN t /\ u[q] = t[q] /\ Meets(u, q, b)
        BY <1>7, <1>8, <1>9, <4>1
      <4>5. q \in Above(u[k])
        BY <4>1, <4>2, <4>3 DEF Above
      <4>. QED BY <4>1, <4>2, <4>3, <4>4, <4>5
    <3>. QED BY <3>2, <3>3
  <2>. QED BY <1>7, <2>1, <2>2 DEF Divides
<1>14. Rooted(u)
  <2>1. ASSUME NEW i \in DOMAIN t
        PROVE  \E j \in DOMAIN u : Hash(u[j].name) = Hash(u[i].name) /\ Above(u[j]) = {}
    <3>1. PICK j \in DOMAIN t : Hash(t[j].name) = Hash(t[i].name) /\ Above(t[j]) = {}
      BY DEF Shaped, Rooted
    <3>. QED BY <1>7, <3>1
  <2>2. \E j \in DOMAIN u : Hash(u[j].name) = Hash(u[k].name) /\ Above(u[j]) = {}
    <3>1. CASE met = {}
      BY <1>6, <1>7, <3>1
    <3>2. CASE met # {}
      <4>1. PICK p \in met : TRUE
        BY <3>2
      <4>2. p \in DOMAIN t /\ u[p] = t[p] /\ Hash(t[p].name) = Hash(u[k].name)
        BY <1>7, <4>1
      <4>. QED BY <2>1, <4>2
    <3>. QED BY <3>1, <3>2
  <2>. QED BY <1>7, <2>1, <2>2 DEF Rooted
<1>. QED BY <1>1, <1>5, <1>7, <1>11, <1>12, <1>13, <1>14 DEF Shaped
-----------------------------------------------------------------------------
LEMMA FoundFacts ==
  ASSUME NEW t, NEW n, NEW i \in x_tree_find(t, n)
  PROVE  i \in DOMAIN t /\ t[i].name = n
  BY DEF x_tree_find

(* A new entry goes in only when no entry of its name is found. *)
LEMMA InsertNew ==
  ASSUME NEW t, NEW g, Sound(t, g), NEW n \in Name \cup {Listen}, NEW v \in Value, NEW a \in Address,
         x_tree_find(t, Fold(n)) = {}
  PROVE  LET u == x_tree_insert(t, Fold(n), v, a) IN
         /\ Sound(u, Give(g, n, v))
         /\ \A i \in DOMAIN t : i \in x_tree_find(t, t[i].name) =>
               i \in DOMAIN u /\ i \in x_tree_find(u, t[i].name)
<1>. DEFINE u == x_tree_insert(t, Fold(n), v, a)
            h == Give(g, n, v)
            k == Len(t) + 1
<1>1. t \in Table /\ Shaped(t) /\ OneFound(t) /\ NeverStale(t, g) /\ Listed(t, g)
  BY DEF Sound
<1>2. PICK e \in Entry : u = Append(t, e) /\ e.name = Fold(n) /\ e.value = v
  BY <1>1, InsertShaped
<1>3. u \in Table /\ Shaped(u)
  BY <1>1, InsertShaped
<1>. HIDE DEF u, h
<1>4. /\ DOMAIN u = DOMAIN t \cup {k}
      /\ k \notin DOMAIN t
      /\ \A i \in DOMAIN t : u[i] = t[i]
      /\ u[k].name = Fold(n) /\ u[k].value = v
  BY <1>1, <1>2, AppendFacts
<1>5. \A i \in DOMAIN t : \A m : i \in x_tree_find(u, m) <=> i \in x_tree_find(t, m)
  BY <1>1, <1>2, WayStays DEF Shaped
<1>6. \A i \in DOMAIN t : i \in x_tree_find(u, u[i].name) => t[i].name # Fold(n) /\ i \in x_tree_find(t, t[i].name)
  BY <1>4, <1>5
<1>7. OneFound(u)
  <2>. SUFFICES ASSUME NEW i \in DOMAIN u, NEW j \in DOMAIN u,
                       i \in x_tree_find(u, u[i].name), j \in x_tree_find(u, u[i].name)
                PROVE  i = j
    BY DEF OneFound
  <2>1. u[j].name = u[i].name
    BY FoundFacts
  <2>2. CASE i \in DOMAIN t /\ j \in DOMAIN t
    BY <1>1, <1>4, <1>5, <2>2 DEF OneFound
  <2>3. CASE i = k /\ j \in DOMAIN t
    BY <1>4, <1>6, <2>1, <2>3
  <2>4. CASE i \in DOMAIN t /\ j = k
    BY <1>4, <1>6, <2>1, <2>4
  <2>. QED BY <1>4, <2>2, <2>3, <2>4
<1>8. DOMAIN h = DOMAIN g \cup {Fold(n)} /\ h[Fold(n)] = v /\ \A m \in DOMAIN g : m # Fold(n) => h[m] = g[m]
  BY DEF h, Give
<1>9. NeverStale(u, h)
  <2>. SUFFICES ASSUME NEW i \in DOMAIN u, i \in x_tree_find(u, u[i].name)
                PROVE  u[i].name \in DOMAIN h /\ u[i].value = h[u[i].name]
    BY DEF NeverStale
  <2>1. CASE i = k
    BY <1>4, <1>8, <2>1
  <2>2. CASE i \in DOMAIN t
    <3>1. t[i].name # Fold(n) /\ u[i] = t[i] /\ t[i].name \in DOMAIN g /\ t[i].value = g[t[i].name]
      BY <1>1, <1>4, <1>6, <2>2 DEF NeverStale
    <3>. QED BY <1>8, <3>1
  <2>. QED BY <1>4, <2>1, <2>2
<1>10. Listed(u, h)
  BY <1>1, <1>4, <1>8 DEF Listed
<1>. QED BY <1>3, <1>4, <1>5, <1>7, <1>9, <1>10 DEF Sound, u, h

(* A change of a value leaves the trees alone. *)
LEMMA Revalue ==
  ASSUME NEW t, NEW g, Sound(t, g), NEW n \in Name \cup {Listen}, NEW v \in Value,
         NEW c \in x_tree_find(t, Fold(n))
  PROVE  LET u == [t EXCEPT ![c].value = v] IN
         /\ Sound(u, Give(g, n, v))
         /\ \A i \in DOMAIN t : i \in x_tree_find(t, t[i].name) =>
               i \in DOMAIN u /\ i \in x_tree_find(u, t[i].name)
<1>. DEFINE u == [t EXCEPT ![c].value = v]
            h == Give(g, n, v)
<1>1. t \in Table /\ Shaped(t) /\ OneFound(t) /\ NeverStale(t, g) /\ Listed(t, g)
  BY DEF Sound
<1>2. c \in DOMAIN t /\ t[c].name = Fold(n)
  BY FoundFacts
<1>3. u \in Table
  <2>1. t[c] \in Entry
    BY <1>1, <1>2 DEF Table
  <2>2. [t[c] EXCEPT !.value = v] \in Entry
    BY <2>1 DEF Entry
  <2>. QED BY <1>1, <1>2, <2>2 DEF Table
<1>4. DOMAIN u = DOMAIN t
  OBVIOUS
<1>5. \A i \in DOMAIN t : u[i].name = t[i].name /\ u[i].left = t[i].left /\ u[i].right = t[i].right
  <2>. TAKE i \in DOMAIN t
  <2>1. t[i] \in Entry
    BY <1>1 DEF Table
  <2>. QED BY <2>1 DEF Entry
<1>6. u[c].value = v /\ \A i \in DOMAIN t : i # c => u[i].value = t[i].value
  <2>1. t[c] \in Entry
    BY <1>1, <1>2 DEF Table
  <2>. QED BY <1>2, <2>1 DEF Entry
<1>. HIDE DEF u, h
<1>7. \A i \in DOMAIN t : Above(u[i]) = Above(t[i])
  BY <1>5 DEF Above
<1>8. \A i \in DOMAIN t : \A j \in Above(t[i]) : j \in DOMAIN t
  BY <1>1 DEF Table, Shaped, TreeShaped
<1>9. \A i \in DOMAIN t : \A r : Meets(u, i, r) <=> Meets(t, i, r)
  BY <1>5, <1>8 DEF Meets, Above
<1>10. \A m : x_tree_find(u, m) = x_tree_find(t, m)
  BY <1>4, <1>5, <1>7, <1>8, <1>9 DEF x_tree_find
<1>11. Shaped(u)
  <2>1. TreeShaped(u)
    <3>1. \A i \in DOMAIN t : \A j \in 1 .. i - 1 : j \in DOMAIN t
      BY <1>1 DEF Table
    <3>. QED BY <1>1, <1>4, <1>5, <1>7, <3>1 DEF Shaped, TreeShaped
  <2>2. SameSides(u)
    BY <1>1, <1>4, <1>5, <1>7, <1>8 DEF Shaped, SameSides
  <2>3. Divides(u)
    <3>. SUFFICES ASSUME NEW i \in DOMAIN t, NEW a \in Address, ~ Meets(t, i, a)
                  PROVE  \E p \in Above(u[i]) : /\ Meets(u, p, a)
                                                /\ \/ a < Rank(u[p].name) /\ p \in u[i].right
                                                   \/ ~ (a < Rank(u[p].name)) /\ p \in u[i].left
      BY <1>4, <1>9 DEF Divides
    <3>1. PICK p \in Above(t[i]) : /\ Meets(t, p, a)
                                   /\ \/ a < Rank(t[p].name) /\ p \in t[i].right
                                      \/ ~ (a < Rank(t[p].name)) /\ p \in t[i].left
      BY <1>1 DEF Shaped, Divides
    <3>. QED BY <1>5, <1>7, <1>8, <1>9, <3>1
  <2>4. Rooted(u)
    BY <1>1, <1>4, <1>5, <1>7 DEF Shaped, Rooted
  <2>. QED BY <2>1, <2>2, <2>3, <2>4 DEF Shaped
<1>12. OneFound(u)
  BY <1>1, <1>4, <1>5, <1>10 DEF OneFound
<1>13. DOMAIN h = DOMAIN g \cup {Fold(n)} /\ h[Fold(n)] = v /\ \A m \in DOMAIN g : m # Fold(n) => h[m] = g[m]
  BY DEF h, Give
<1>14. NeverStale(u, h)
  <2>. SUFFICES ASSUME NEW i \in DOMAIN t, i \in x_tree_find(t, t[i].name)
                PROVE  t[i].name \in DOMAIN h /\ u[i].value = h[t[i].name]
    BY <1>4, <1>5, <1>10 DEF NeverStale
  <2>1. CASE i = c
    BY <1>2, <1>6, <1>13, <2>1
  <2>2. CASE i # c
    <3>1. t[i].name # Fold(n)
      BY <1>1, <1>2, <2>2 DEF OneFound
    <3>. QED BY <1>1, <1>6, <1>13, <2>2, <3>1 DEF NeverStale
  <2>. QED BY <2>1, <2>2
<1>15. Listed(u, h)
  BY <1>1, <1>2, <1>4, <1>5, <1>13 DEF Listed
<1>. QED BY <1>3, <1>4, <1>10, <1>11, <1>12, <1>14, <1>15 DEF Sound, u, h

(* Whichever way dictionary_insert goes, what has been found stays found. *)
LEMMA InsertSound ==
  ASSUME NEW t, NEW g, Sound(t, g), NEW n \in Name \cup {Listen}, NEW v \in Value,
         NEW u \in dictionary_insert(t, n, v)
  PROVE  /\ Sound(u, Give(g, n, v))
         /\ \A i \in DOMAIN t : i \in x_tree_find(t, t[i].name) =>
               i \in DOMAIN u /\ i \in x_tree_find(u, t[i].name)
<1>1. CASE x_tree_find(t, Fold(n)) = {}
  <2>1. PICK a \in Address : u = x_tree_insert(t, Fold(n), v, a)
    BY <1>1 DEF dictionary_insert
  <2>. QED BY <1>1, <2>1, InsertNew
<1>2. CASE x_tree_find(t, Fold(n)) # {}
  <2>1. PICK c \in x_tree_find(t, Fold(n)) : u = [t EXCEPT ![c].value = v]
    <3>. DEFINE c == CHOOSE i \in x_tree_find(t, Fold(n)) : TRUE
    <3>1. c \in x_tree_find(t, Fold(n))
      BY <1>2
    <3>2. u = [t EXCEPT ![c].value = v]
      BY <1>2 DEF dictionary_insert
    <3>. QED BY <3>1, <3>2
  <2>. QED BY <2>1, Revalue
<1>. QED BY <1>1, <1>2

LEMMA EmptySound == Sound(dictionary_new, <<>>)
<1>1. dictionary_new \in Table /\ DOMAIN dictionary_new = {} /\ DOMAIN <<>> = {}
  BY DEF dictionary_new, Table
<1>. QED
  BY <1>1 DEF Sound, Shaped, TreeShaped, SameSides, Divides, Rooted, OneFound, NeverStale, Listed

(* The root of a bucket is found by its name, so a name alone in its bucket is. *)
LEMMA SoundFindsAlone ==
  ASSUME NEW t, NEW g, Sound(t, g)
  PROVE  AloneFound(t, g)
<1>. SUFFICES ASSUME NEW n \in DOMAIN g, Alone(t, n)
              PROVE  x_tree_find(t, n) # {}
  BY DEF AloneFound
<1>1. PICK i \in DOMAIN t : t[i].name = n
  BY DEF Sound, Listed
<1>2. PICK j \in DOMAIN t : Hash(t[j].name) = Hash(t[i].name) /\ Above(t[j]) = {}
  BY DEF Sound, Shaped, Rooted
<1>3. t[j].name = n
  BY <1>1, <1>2 DEF Alone
<1>4. Meets(t, j, Rank(n))
  BY <1>2 DEF Meets, Above
<1>. QED BY <1>2, <1>3, <1>4 DEF x_tree_find
-----------------------------------------------------------------------------
(* The inductive invariant: both dictionaries are sound. *)
Sounds ==
  /\ Sound(dictionary, given)
  /\ block_dict # NULL => Sound(block_dict, block_given)

LEMMA InitSounds == Init => Sounds
  BY EmptySound DEF Init, Sounds

LEMMA NextSounds == Sounds /\ [Next]_vars => Sounds'
<1>. SUFFICES ASSUME Sounds, [Next]_vars PROVE Sounds'
  OBVIOUS
<1>. USE DEF Sounds
<1>1. CASE cfg_read_block_start
  BY <1>1, EmptySound DEF cfg_read_block_start
<1>2. CASE cfg_read_block_start_nested \/ cfg_read_block_end_outside \/ UNCHANGED vars
  BY <1>2 DEF cfg_read_block_start_nested, cfg_read_block_end_outside, vars, tables
<1>3. ASSUME NEW name \in Name, cfg_read_block_end(name) PROVE Sounds'
  BY <1>3 DEF cfg_read_block_end
<1>4. ASSUME NEW name \in Name, NEW value \in Value, cfg_read_assign(name, value) PROVE Sounds'
  <2>1. CASE /\ block_dict # NULL
             /\ block_dict' \in dictionary_insert(block_dict, name, value)
             /\ block_given' = Give(block_given, name, value)
             /\ UNCHANGED <<dictionary, given, served, phase, port>>
    BY <2>1, InsertSound
  <2>2. CASE /\ block_dict = NULL
             /\ dictionary' \in dictionary_insert(dictionary, name, value)
             /\ given' = Give(given, name, value)
             /\ UNCHANGED <<block_dict, block_given, served, phase, port>>
    BY <2>2, InsertSound
  <2>. QED BY <1>4, <2>1, <2>2 DEF cfg_read_assign
<1>5. ASSUME NEW value \in Value, Override(value) PROVE Sounds'
  BY <1>5, InsertSound DEF Override
<1>6. CASE sighttpd_init
  BY <1>6 DEF sighttpd_init, tables
<1>7. CASE shrecord_main
  BY <1>7 DEF shrecord_main, tables
<1>. QED BY <1>1, <1>2, <1>3, <1>4, <1>5, <1>6, <1>7 DEF Next, Callback

LEMMA AlwaysSounds == CfgReadSpec => []Sounds
<1>. QED BY InitSounds, NextSounds, PTL DEF CfgReadSpec

(* A lookup gives the last value of its name or nothing, wherever the pointers of the
   entries fall in the order of the names. *)
THEOREM NeverStaleAlways == CfgReadSpec => []LookupNeverStale
<1>1. Sounds => LookupNeverStale
  BY DEF Sounds, Sound, LookupNeverStale
<1>. QED BY <1>1, AlwaysSounds, PTL

(* A name that shares its bucket with no other one is always found. *)
THEOREM AloneFoundAlways == CfgReadSpec => []LookupFindsAlone
<1>1. Sounds => LookupFindsAlone
  BY SoundFindsAlone DEF Sounds, LookupFindsAlone
<1>. QED BY <1>1, AlwaysSounds, PTL

(* x_tree_insert, which compares with a pointer, still builds one binary tree for each
   bucket. *)
THEOREM ShapedAlways == CfgReadSpec => []TreesShaped
<1>1. Sounds => TreesShaped
  BY DEF Sounds, Sound, Shaped, TreesShaped
<1>. QED BY <1>1, AlwaysSounds, PTL

(* Whatever is inserted behind it, an entry that a lookup has found is found by every
   later one, outside blocks for good and inside one until the block ends. *)
THEOREM FoundStaysFoundAlways == CfgReadSpec => FoundStaysFound
<1>. DEFINE Outside == Kept(dictionary, dictionary')
            Inside == block_dict # NULL /\ block_dict' # NULL => Kept(block_dict, block_dict')
<1>1. Sounds /\ [Next]_vars => [Outside /\ Inside]_vars
  <2>. SUFFICES ASSUME Sounds, Next PROVE Outside /\ Inside
    OBVIOUS
  <2>1. \A t : Kept(t, t)
    BY DEF Kept, x_tree_find
  <2>2. ASSUME NEW t, NEW g, Sound(t, g), NEW name \in Name \cup {Listen}, NEW value \in Value,
               NEW u \in dictionary_insert(t, name, value)
        PROVE  Kept(t, u)
    BY <2>2, InsertSound DEF Kept
  <2>3. CASE UNCHANGED dictionary /\ (block_dict # NULL /\ block_dict' # NULL => UNCHANGED block_dict)
    BY <2>1, <2>3
  <2>4. ASSUME NEW name \in Name, NEW value \in Value, cfg_read_assign(name, value)
        PROVE  Outside /\ Inside
    <3>1. CASE block_dict # NULL /\ block_dict' \in dictionary_insert(block_dict, name, value)
               /\ UNCHANGED dictionary
      <4>1. Kept(block_dict, block_dict')
        BY <2>2, <3>1 DEF Sounds
      <4>. QED BY <2>1, <3>1, <4>1
    <3>2. CASE block_dict = NULL /\ dictionary' \in dictionary_insert(dictionary, name, value)
      BY <2>2, <3>2 DEF Sounds
    <3>. QED BY <2>4, <3>1, <3>2 DEF cfg_read_assign
  <2>5. ASSUME NEW value \in Value, Override(value) PROVE Outside /\ Inside
    <3>1. Kept(dictionary, dictionary')
      BY <2>2, <2>5 DEF Override, Sounds
    <3>. QED BY <2>1, <2>5, <3>1 DEF Override
  <2>6. CASE cfg_read_block_start
    BY <2>3, <2>6 DEF cfg_read_block_start
  <2>7. CASE cfg_read_block_start_nested \/ cfg_read_block_end_outside
    BY <2>3, <2>7 DEF cfg_read_block_start_nested, cfg_read_block_end_outside, vars, tables
  <2>8. ASSUME NEW name \in Name, cfg_read_block_end(name) PROVE Outside /\ Inside
    BY <2>3, <2>8 DEF cfg_read_block_end
  <2>9. CASE sighttpd_init
    BY <2>3, <2>9 DEF sighttpd_init, tables
  <2>10. CASE shrecord_main
    BY <2>3, <2>10 DEF shrecord_main, tables
  <2>. QED BY <2>4, <2>5, <2>6, <2>7, <2>8, <2>9, <2>10 DEF Next, Callback
<1>. QED BY <1>1, AlwaysSounds, PTL DEF CfgReadSpec, FoundStaysFound
-----------------------------------------------------------------------------
(* What a lookup in a sound table gives. *)
LEMMA LookupGives ==
  ASSUME NEW t, NEW g, Sound(t, g), NEW n
  PROVE  /\ dictionary_lookup(t, n) \in Value \cup {NULL}
         /\ dictionary_lookup(t, n) # NULL => dictionary_lookup(t, n) = Given(g, n)
         /\ dictionary_lookup(t, n) = NULL <=> x_tree_find(t, Fold(n)) = {}
<1>1. CASE x_tree_find(t, Fold(n)) = {}
  BY <1>1 DEF dictionary_lookup
<1>2. CASE x_tree_find(t, Fold(n)) # {}
  <2>1. PICK i \in x_tree_find(t, Fold(n)) : dictionary_lookup(t, n) = t[i].value
    <3>. DEFINE c == CHOOSE i \in x_tree_find(t, Fold(n)) : TRUE
    <3>1. c \in x_tree_find(t, Fold(n)) /\ dictionary_lookup(t, n) = t[c].value
      BY <1>2 DEF dictionary_lookup
    <3>. QED BY <3>1
  <2>2. i \in DOMAIN t /\ t[i].name = Fold(n)
    BY FoundFacts
  <2>3. t[i] \in Entry
    BY <2>2 DEF Sound, Table
  <2>4. t[i].value \in Value /\ t[i].value # NULL
    BY <2>3, NullAssumption DEF Entry
  <2>5. Fold(n) \in DOMAIN g /\ t[i].value = g[Fold(n)]
    BY <2>1, <2>2 DEF Sound, NeverStale
  <2>. QED BY <1>2, <2>1, <2>4, <2>5 DEF Given
<1>. QED BY <1>1, <1>2

Port ==
  /\ phase \in {"reading", "starting", "serving", "exited"}
  /\ PortAsConfigured

(* The server listens where the command line says, or else the last Listen outside
   blocks; it gives up only without one, or when another name in the bucket hid it. *)
THEOREM PortAlways == CfgReadSpec => []PortAsConfigured
<1>1. Init => Port
  BY DEF Init, Port, PortAsConfigured
<1>2. Sounds /\ Port /\ [Next]_vars => Port'
  <2>. SUFFICES ASSUME Sounds, Port, [Next]_vars PROVE Port'
    OBVIOUS
  <2>1. CASE Callback
    <3>1. phase = "reading" /\ phase' = phase
      BY <2>1 DEF Callback, cfg_read_block_start, cfg_read_block_start_nested, cfg_read_block_end_outside,
                  cfg_read_block_end, cfg_read_assign, vars
    <3>. QED BY <3>1 DEF Port, PortAsConfigured
  <2>2. ASSUME NEW value \in Value, Override(value) PROVE Port'
    BY <2>2 DEF Override, Port, PortAsConfigured
  <2>3. CASE sighttpd_init
    <3>. DEFINE portname == dictionary_lookup(dictionary, Listen)
    <3>1. /\ portname # NULL => Listen \in DOMAIN given /\ portname = Given(given, Listen) /\ portname = given[Listen]
          /\ portname = NULL => x_tree_find(dictionary, Listen) = {}
      <4>1. portname # NULL => portname = Given(given, Listen)
        BY LookupGives DEF Sounds
      <4>2. portname = NULL => x_tree_find(dictionary, Listen) = {}
        BY LookupGives, LowerAssumption DEF Sounds
      <4>. QED BY <4>1, <4>2, LowerAssumption DEF Given
    <3>2. portname = NULL => Listen \notin DOMAIN given \/ ~ Alone(dictionary, Listen)
      BY <3>1, SoundFindsAlone DEF Sounds, AloneFound
    <3>. HIDE DEF portname
    <3>3. UNCHANGED <<dictionary, given>>
      BY <2>3 DEF sighttpd_init, tables
    <3>4. \/ ~ (portname # NULL /\ Resolves(portname)) /\ phase' = "exited"
          \/ portname # NULL /\ Resolves(portname) /\ phase' = "serving" /\ port' = portname
      BY <2>3 DEF sighttpd_init, portname
    <3>. QED BY <3>1, <3>2, <3>3, <3>4 DEF Port, PortAsConfigured, Alone, Given
  <2>4. CASE UNCHANGED vars
    BY <2>4 DEF vars, tables, Port, PortAsConfigured, Alone, Given
  <2>5. CASE shrecord_main
    BY <2>5 DEF shrecord_main, tables, Port, PortAsConfigured, Alone, Given
  <2>. QED BY <2>1, <2>2, <2>3, <2>4, <2>5 DEF Next
<1>3. Port => PortAsConfigured
  BY DEF Port
<1>. QED BY <1>1, <1>2, <1>3, AlwaysSounds, PTL DEF CfgReadSpec
-----------------------------------------------------------------------------
(* The types that the resources keep, and what each of them must be able to say of
   the block it comes from. *)
Maybe == Value \cup {NULL, DefaultType}
Gift == UNION {[d -> Value] : d \in SUBSET Key}
Kinds == {"StaticText", "Stdin", "OggStdin", "SHRecord", "status", "flim", "uiomux", "kongou"}
Resources ==
  [kind : Kinds \ {"SHRecord"}, path : Maybe, text : Maybe, type : Maybe, slot : {NULL}]
  \cup [kind : {"SHRecord"}, path : Maybe, text : Maybe, type : Maybe, slot : Nat]
Slots == [0 .. MAX_ENCODERS -> [path : Maybe, ctlfile : Maybe]]
Private == [nr_encoders : 0 .. MAX_ENCODERS + 1, do_preview : BOOLEAN, encdata : Slots]

Answers(r, g, ogg, enc) ==
  LET path == CASE r.kind = "OggStdin" -> ogg.path
                [] r.kind = "SHRecord" -> enc[r.slot].path
                [] OTHER               -> r.path
      type == IF r.kind = "OggStdin" THEN ogg.type ELSE r.type
  IN  /\ path = Given(g, Path)
      /\ r.kind # "SHRecord" => TypeMeant(type, g)
      /\ r.kind = "StaticText" => r.text = Given(g, Text)

Configured == {"StaticText", "Stdin", "OggStdin", "SHRecord"}

Types ==
  /\ resources \in Seq(Resources)
  /\ origin \in Seq(Gift)
  /\ Len(origin) = Len(resources)
  /\ given \in Gift /\ block_given \in Gift
  /\ pvt \in Private
  /\ \A i \in DOMAIN resources : resources[i].kind = "SHRecord" =>
        resources[i].slot \in 0 .. MAX_ENCODERS /\ resources[i].slot < pvt.nr_encoders

Answered ==
  \A i \in DOMAIN resources : resources[i].kind \in Configured =>
     \/ resources[i].kind = "OggStdin" /\ \E j \in DOMAIN resources : j > i /\ resources[j].kind = "OggStdin"
     \/ resources[i].kind = "SHRecord" /\ resources[i].slot = MAX_ENCODERS
     \/ Answers(resources[i], origin[i], oggstdin_pvt, pvt.encdata)

LEMMA AnsweredMeansServed == Answered <=> ServedAsConfigured
  BY DEF Answered, Answers, ServedAsConfigured, Configured, PathOf, TypeServed

LEMMA GiveGift ==
  ASSUME NEW g \in Gift, NEW n \in Name \cup {Listen}, NEW v \in Value
  PROVE  Give(g, n, v) \in Gift
<1>1. PICK d \in SUBSET Key : g \in [d -> Value]
  BY DEF Gift
<1>2. Fold(n) \in Key
  BY DEF Key
<1>3. d \cup {Fold(n)} \in SUBSET Key /\ Give(g, n, v) \in [d \cup {Fold(n)} -> Value]
  BY <1>1, <1>2 DEF Give
<1>. QED BY <1>3 DEF Gift

LEMMA EmptyGift == <<>> \in Gift
<1>1. <<>> \in [{} -> Value]
  OBVIOUS
<1>. QED BY <1>1 DEF Gift

LEMMA JoinedLength ==
  ASSUME NEW S, NEW a \in Seq(S), NEW b \in Seq(S)
  PROVE  Len(a \o b) = Len(a) + Len(b)
  OBVIOUS

(* A join that adds resources which answer, and spoils none that did, leaves all
   answering. *)
LEMMA JoinAnswers ==
  ASSUME Types, Answered, NEW new \in Seq(Resources), NEW from \in Gift, Joins(new, from),
         pvt' \in Private, pvt.nr_encoders <= pvt'.nr_encoders,
         \A s \in 0 .. MAX_ENCODERS :
            s < pvt.nr_encoders /\ s # MAX_ENCODERS => pvt'.encdata[s] = pvt.encdata[s],
         oggstdin_pvt' = oggstdin_pvt \/ \E i \in DOMAIN new : new[i].kind = "OggStdin",
         UNCHANGED <<given, block_given>>,
         \A i \in DOMAIN new : new[i].kind = "SHRecord" =>
            new[i].slot \in 0 .. MAX_ENCODERS /\ new[i].slot < pvt'.nr_encoders,
         \A i \in DOMAIN new : new[i].kind \in Configured =>
            \/ new[i].kind = "SHRecord" /\ new[i].slot = MAX_ENCODERS
            \/ Answers(new[i], from, oggstdin_pvt', pvt'.encdata)
  PROVE  Types' /\ Answered'
<1>. DEFINE n == Len(resources)
            froms == [i \in DOMAIN new |-> from]
<1>1. froms \in Seq(Gift) /\ Len(froms) = Len(new)
  OBVIOUS
<1>2. resources' = resources \o new /\ origin' = origin \o froms
  BY DEF Joins
<1>3. /\ resources' \in Seq(Resources) /\ origin' \in Seq(Gift)
      /\ Len(resources') = n + Len(new) /\ Len(origin') = n + Len(new)
      /\ n \in Nat /\ Len(new) \in Nat
  <2>1. resources \in Seq(Resources) /\ origin \in Seq(Gift) /\ Len(origin) = n
    BY DEF Types
  <2>2. resources' \in Seq(Resources) /\ Len(resources') = n + Len(new) /\ n \in Nat /\ Len(new) \in Nat
    BY <1>2, <2>1
  <2>3. origin' \in Seq(Gift)
    BY <1>1, <1>2, <2>1
  <2>4. Len(origin') = n + Len(new)
    <3>. HIDE DEF froms
    <3>1. Len(origin \o froms) = Len(origin) + Len(froms)
      BY <1>1, <2>1, JoinedLength
    <3>. QED BY <1>1, <1>2, <2>1, <3>1
  <2>. QED BY <2>2, <2>3, <2>4
<1>4. /\ DOMAIN resources = 1 .. n /\ DOMAIN resources' = 1 .. n + Len(new) /\ DOMAIN new = 1 .. Len(new)
  BY <1>3 DEF Types
<1>5. \A i \in DOMAIN resources : i \in DOMAIN resources' /\ resources'[i] = resources[i] /\ origin'[i] = origin[i]
  BY <1>1, <1>2, <1>3, <1>4 DEF Types
<1>6. \A i \in DOMAIN new : n + i \in DOMAIN resources' /\ resources'[n + i] = new[i] /\ origin'[n + i] = from
  <2>. SUFFICES ASSUME NEW i \in DOMAIN new
                PROVE  n + i \in DOMAIN resources' /\ resources'[n + i] = new[i] /\ origin'[n + i] = from
    OBVIOUS
  <2>1. n + i \in DOMAIN resources' /\ resources'[n + i] = new[i]
    BY <1>2, <1>3, <1>4 DEF Types
  <2>2. origin'[n + i] = froms[i]
    BY <1>1, <1>2, <1>3, <1>4 DEF Types
  <2>. QED BY <2>1, <2>2
<1>7. \A i \in DOMAIN resources' : i \in DOMAIN resources \/ \E j \in DOMAIN new : i = n + j
  <2>. SUFFICES ASSUME NEW i \in DOMAIN resources', i \notin DOMAIN resources
                PROVE  \E j \in DOMAIN new : i = n + j
    OBVIOUS
  <2>1. i - n \in DOMAIN new /\ i = n + (i - n)
    BY <1>3, <1>4
  <2>. QED BY <2>1
<1>8. Types'
  <2>1. ASSUME NEW i \in DOMAIN resources', resources'[i].kind = "SHRecord"
        PROVE  resources'[i].slot \in 0 .. MAX_ENCODERS /\ resources'[i].slot < pvt'.nr_encoders
    <3>1. CASE i \in DOMAIN resources
      <4>1. resources[i].slot \in 0 .. MAX_ENCODERS /\ resources[i].slot < pvt.nr_encoders
        BY <1>5, <2>1, <3>1 DEF Types
      <4>2. pvt.nr_encoders \in Nat /\ pvt'.nr_encoders \in Nat
        BY DEF Types, Private
      <4>. QED BY <1>5, <3>1, <4>1, <4>2, EncodersAssumption
    <3>2. CASE \E j \in DOMAIN new : i = n + j
      BY <1>6, <2>1, <3>2
    <3>. QED BY <1>7, <3>1, <3>2
  <2>. QED BY <1>3, <2>1 DEF Types
<1>9. Answered'
  <2>. SUFFICES ASSUME NEW i \in DOMAIN resources', resources'[i].kind \in Configured
                PROVE  \/ /\ resources'[i].kind = "OggStdin"
                          /\ \E j \in DOMAIN resources' : j > i /\ resources'[j].kind = "OggStdin"
                       \/ resources'[i].kind = "SHRecord" /\ resources'[i].slot = MAX_ENCODERS
                       \/ Answers(resources'[i], origin'[i], oggstdin_pvt', pvt'.encdata)
    BY DEF Answered
  <2>1. CASE \E j \in DOMAIN new : i = n + j
    BY <1>6, <2>1
  <2>2. CASE i \in DOMAIN resources
    <3>1. resources'[i] = resources[i] /\ origin'[i] = origin[i]
      BY <1>5, <2>2
    <3>2. CASE resources[i].kind = "OggStdin" /\ \E j \in DOMAIN resources : j > i /\ resources[j].kind = "OggStdin"
      BY <1>5, <3>1, <3>2
    <3>3. CASE Answers(resources[i], origin[i], oggstdin_pvt, pvt.encdata)
      <4>1. CASE resources[i].kind = "OggStdin" /\ oggstdin_pvt' # oggstdin_pvt
        <5>1. PICK j \in DOMAIN new : new[j].kind = "OggStdin"
          BY <4>1
        <5>2. n + j > i
          BY <1>3, <1>4, <2>2
        <5>. QED BY <1>6, <3>1, <4>1, <5>1, <5>2
      <4>2. CASE resources[i].kind = "OggStdin" /\ oggstdin_pvt' = oggstdin_pvt
        BY <3>1, <3>3, <4>2 DEF Answers
      <4>3. CASE resources[i].kind = "SHRecord" /\ resources[i].slot # MAX_ENCODERS
        <5>1. pvt'.encdata[resources[i].slot] = pvt.encdata[resources[i].slot]
          BY <2>2, <4>3 DEF Types
        <5>. QED BY <3>1, <3>3, <4>3, <5>1 DEF Answers
      <4>4. CASE resources[i].kind # "SHRecord" /\ resources[i].kind # "OggStdin"
        BY <3>1, <3>3, <4>4 DEF Answers
      <4>5. CASE resources[i].kind = "SHRecord" /\ resources[i].slot = MAX_ENCODERS
        BY <3>1, <4>5
      <4>. QED BY <4>1, <4>2, <4>3, <4>4, <4>5
    <3>4. CASE resources[i].kind = "SHRecord" /\ resources[i].slot = MAX_ENCODERS
      BY <3>1, <3>4
    <3>. QED BY <2>2, <3>1, <3>2, <3>3, <3>4 DEF Answered
  <2>. QED BY <1>7, <2>1, <2>2
<1>. QED BY <1>8, <1>9

LEMMA FieldsOf ==
  ASSUME NEW t, NEW g, Sound(t, g)
  PROVE  /\ \A n : dictionary_lookup(t, n) \in Value \cup {NULL}
         /\ \A n : dictionary_lookup(t, n) # NULL => dictionary_lookup(t, n) = Given(g, n)
         /\ TypeOf(t) \in Maybe
         /\ TypeMeant(TypeOf(t), g)
<1>. DEFINE type == dictionary_lookup(t, Type)
<1>1. /\ \A n : dictionary_lookup(t, n) \in Value \cup {NULL}
      /\ \A n : dictionary_lookup(t, n) # NULL => dictionary_lookup(t, n) = Given(g, n)
      /\ TypeOf(t) \in Maybe
  BY LookupGives DEF TypeOf, Maybe
<1>2. CASE type # NULL
  BY <1>1, <1>2 DEF TypeOf, TypeMeant
<1>3. CASE type = NULL
  <2>1. TypeOf(t) = DefaultType /\ x_tree_find(t, Fold(Type)) = {}
    BY <1>3, LookupGives DEF TypeOf
  <2>2. ASSUME Given(g, Type) # NULL, Secluded(g, Type) PROVE FALSE
    <3>1. Fold(Type) \in DOMAIN g
      BY <2>2 DEF Given
    <3>2. Alone(t, Fold(Type))
      BY <2>2 DEF Secluded, Alone, Sound, Listed
    <3>. QED BY <2>1, <3>1, <3>2, SoundFindsAlone DEF AloneFound
  <2>. QED BY <1>1, <2>1, <2>2 DEF TypeMeant
<1>. QED BY <1>2, <1>3

LEMMA StaticTextAnswers ==
  ASSUME NEW t, NEW g, Sound(t, g), NEW ogg, NEW enc
  PROVE  /\ statictext_resources(t) \in Seq(Resources)
         /\ \A i \in DOMAIN statictext_resources(t) :
               /\ statictext_resources(t)[i].kind = "StaticText"
               /\ Answers(statictext_resources(t)[i], g, ogg, enc)
<1>. DEFINE path == dictionary_lookup(t, Path)
            text == dictionary_lookup(t, Text)
            r == [Resource("StaticText") EXCEPT !.path = path, !.text = text, !.type = TypeOf(t)]
<1>1. CASE path = NULL \/ text = NULL
  <2>1. statictext_resources(t) = <<>>
    BY <1>1 DEF statictext_resources
  <2>. QED BY <2>1
<1>2. CASE path # NULL /\ text # NULL
  <2>1. statictext_resources(t) = <<r>>
    BY <1>2 DEF statictext_resources
  <2>2. /\ path \in Maybe /\ text \in Maybe /\ TypeOf(t) \in Maybe
        /\ path = Given(g, Path) /\ text = Given(g, Text)
        /\ TypeMeant(TypeOf(t), g)
    BY <1>2, FieldsOf DEF Maybe
  <2>. HIDE DEF path, text
  <2>. DEFINE q == Resource("StaticText")
  <2>3. q \in Resources /\ q.kind = "StaticText"
    BY DEF Resource, Resources, Kinds, Maybe
  <2>. HIDE DEF q
  <2>4. r \in Resources /\ Answers(r, g, ogg, enc) /\ r.kind = "StaticText"
    <3>1. r = [[[q EXCEPT !.path = path] EXCEPT !.text = text] EXCEPT !.type = TypeOf(t)]
      BY DEF q
    <3>. QED BY <2>2, <2>3, <3>1 DEF Resources, Answers
  <2>. HIDE DEF r
  <2>. QED BY <2>1, <2>4
<1>. QED BY <1>1, <1>2

LEMMA StdinAnswers ==
  ASSUME NEW t, NEW g, Sound(t, g), NEW ogg, NEW enc
  PROVE  /\ fdstream_resources(t) \in Seq(Resources)
         /\ \A i \in DOMAIN fdstream_resources(t) :
               /\ fdstream_resources(t)[i].kind = "Stdin"
               /\ Answers(fdstream_resources(t)[i], g, ogg, enc)
<1>. DEFINE path == dictionary_lookup(t, Path)
            r == [Resource("Stdin") EXCEPT !.path = path, !.type = TypeOf(t)]
<1>1. CASE path = NULL
  <2>1. fdstream_resources(t) = <<>>
    BY <1>1 DEF fdstream_resources
  <2>. QED BY <2>1
<1>2. CASE path # NULL
  <2>1. fdstream_resources(t) = <<r>>
    BY <1>2 DEF fdstream_resources
  <2>2. /\ path \in Maybe /\ TypeOf(t) \in Maybe /\ NULL \in Maybe
        /\ path = Given(g, Path)
        /\ TypeMeant(TypeOf(t), g)
    BY <1>2, FieldsOf DEF Maybe
  <2>. HIDE DEF path
  <2>. DEFINE q == Resource("Stdin")
  <2>3. q \in Resources /\ q.kind = "Stdin"
    BY DEF Resource, Resources, Kinds, Maybe
  <2>. HIDE DEF q
  <2>4. r \in Resources /\ Answers(r, g, ogg, enc) /\ r.kind = "Stdin"
    <3>1. r = [[q EXCEPT !.path = path] EXCEPT !.type = TypeOf(t)]
      BY DEF q
    <3>. QED BY <2>2, <2>3, <3>1 DEF Resources, Answers
  <2>. HIDE DEF r
  <2>. QED BY <2>1, <2>4
<1>. QED BY <1>1, <1>2

(* An OggStdin block fills in the one struct, an SHRecord block the next place. *)
LEMMA OggStdinAnswers ==
  ASSUME Types, Answered, NEW t, Sound(t, block_given), oggstdin_resources(t),
         UNCHANGED <<given, block_given, pvt>>
  PROVE  Types' /\ Answered'
<1>. DEFINE path == dictionary_lookup(t, Path)
            r == Resource("OggStdin")
<1>0. /\ pvt' \in Private /\ pvt.nr_encoders <= pvt'.nr_encoders /\ block_given \in Gift
      /\ \A s \in 0 .. MAX_ENCODERS : s < pvt.nr_encoders => pvt'.encdata[s] = pvt.encdata[s]
  BY DEF Types, Private
<1>1. CASE path = NULL
  <2>1. Joins(<<>>, block_given) /\ oggstdin_pvt' = oggstdin_pvt
    BY <1>1 DEF oggstdin_resources
  <2>2. <<>> \in Seq(Resources) /\ DOMAIN <<>> = {}
    OBVIOUS
  <2>. QED BY <1>0, <2>1, <2>2, JoinAnswers
<1>2. CASE path # NULL
  <2>1. /\ Joins(<<r>>, block_given)
        /\ oggstdin_pvt' = [path |-> path, type |-> TypeOf(t)]
    BY <1>2 DEF oggstdin_resources
  <2>2. path = Given(block_given, Path) /\ TypeMeant(TypeOf(t), block_given)
    BY <1>2, FieldsOf
  <2>. HIDE DEF path
  <2>3. r \in Resources /\ r.kind = "OggStdin"
    BY DEF Resource, Resources, Kinds, Maybe
  <2>4. Answers(r, block_given, oggstdin_pvt', pvt'.encdata)
    BY <2>1, <2>2, <2>3 DEF Answers
  <2>. HIDE DEF r
  <2>5. <<r>> \in Seq(Resources) /\ DOMAIN <<r>> = {1} /\ <<r>>[1] = r
    BY <2>3
  <2>. QED BY <1>0, <2>1, <2>3, <2>4, <2>5, JoinAnswers
<1>. QED BY <1>1, <1>2

(* A store into the encoder behind the array leaves the others alone. *)
LEMMA OverlaidFacts ==
  ASSUME NEW p \in Private, NEW q \in Overlaid(p)
  PROVE  /\ q \in Private /\ q.nr_encoders = p.nr_encoders
         /\ \A s \in 0 .. MAX_ENCODERS : s # MAX_ENCODERS => q.encdata[s] = p.encdata[s]
<1>1. CASE q = p
  BY <1>1
<1>2. CASE q = [p EXCEPT !.encdata[MAX_ENCODERS].path = NULL]
  <2>. DEFINE entry == [p.encdata[MAX_ENCODERS] EXCEPT !.path = NULL]
              enc == [p.encdata EXCEPT ![MAX_ENCODERS] = entry]
  <2>1. p.encdata \in Slots /\ MAX_ENCODERS \in 0 .. MAX_ENCODERS
    BY EncodersAssumption DEF Private
  <2>2. NULL \in Maybe
    BY DEF Maybe
  <2>3. entry \in [path : Maybe, ctlfile : Maybe]
    BY <2>1, <2>2 DEF Slots
  <2>4. q = [p EXCEPT !.encdata = enc]
    BY <1>2
  <2>. HIDE DEF entry
  <2>5. enc \in Slots /\ \A s \in 0 .. MAX_ENCODERS : s # MAX_ENCODERS => enc[s] = p.encdata[s]
    BY <2>1, <2>3 DEF Slots
  <2>. HIDE DEF enc
  <2>6. q \in Private /\ q.nr_encoders = p.nr_encoders /\ q.encdata = enc
    BY <2>4, <2>5 DEF Private
  <2>. QED BY <2>5, <2>6
<1>. QED BY <1>1, <1>2 DEF Overlaid

(* What shrecord_resource makes: the place of an encoder, which counts or not. *)
WithPlace(path, ctlfile, preview, count) ==
  [pvt EXCEPT !.encdata[pvt.nr_encoders] = [path |-> path, ctlfile |-> ctlfile],
              !.do_preview = preview, !.nr_encoders = count]

LEMMA PlacedFacts ==
  ASSUME pvt \in Private, pvt.nr_encoders <= MAX_ENCODERS,
         NEW path \in Maybe, NEW ctlfile \in Maybe, NEW preview \in BOOLEAN, NEW count \in 0 .. MAX_ENCODERS + 1,
         NEW p, p = WithPlace(path, ctlfile, preview, count)
  PROVE  /\ p \in Private /\ p.nr_encoders = count
         /\ p.encdata[pvt.nr_encoders].path = path
         /\ \A s \in 0 .. MAX_ENCODERS : s < pvt.nr_encoders => p.encdata[s] = pvt.encdata[s]
<1>. DEFINE entry == [path |-> path, ctlfile |-> ctlfile]
            enc == [pvt.encdata EXCEPT ![pvt.nr_encoders] = entry]
<1>1. pvt.nr_encoders \in 0 .. MAX_ENCODERS /\ pvt.encdata \in Slots
  BY EncodersAssumption DEF Private
<1>2. entry \in [path : Maybe, ctlfile : Maybe] /\ entry.path = path
  OBVIOUS
<1>3. p = [[[pvt EXCEPT !.encdata = enc] EXCEPT !.do_preview = preview] EXCEPT !.nr_encoders = count]
  BY DEF WithPlace
<1>. HIDE DEF entry
<1>4. /\ enc \in Slots /\ enc[pvt.nr_encoders] = entry
      /\ \A s \in 0 .. MAX_ENCODERS : s < pvt.nr_encoders => enc[s] = pvt.encdata[s]
  <2>. DEFINE n == pvt.nr_encoders
  <2>1. \A s \in 0 .. MAX_ENCODERS : s < n => s # n
    BY <1>1
  <2>2. n \in 0 .. MAX_ENCODERS
    BY <1>1
  <2>. HIDE DEF n
  <2>3. [pvt.encdata EXCEPT ![n] = entry] \in Slots
    BY <1>1, <1>2, <2>2 DEF Slots
  <2>4. /\ [pvt.encdata EXCEPT ![n] = entry][n] = entry
        /\ \A s \in 0 .. MAX_ENCODERS : s # n => [pvt.encdata EXCEPT ![n] = entry][s] = pvt.encdata[s]
    BY <1>1, <2>2 DEF Slots
  <2>. QED BY <2>1, <2>3, <2>4 DEF n
<1>. HIDE DEF enc
<1>5. p \in Private /\ p.nr_encoders = count /\ p.encdata = enc
  BY <1>3, <1>4 DEF Private
<1>. QED BY <1>2, <1>4, <1>5

LEMMA ShrecordAnswers ==
  ASSUME Types, Answered, NEW t, Sound(t, block_given), shrecord_resources(t),
         UNCHANGED <<given, block_given, oggstdin_pvt>>
  PROVE  Types' /\ Answered'
<1>. DEFINE path == dictionary_lookup(t, Path)
            ctlfile == dictionary_lookup(t, CtlFile)
            wanted == dictionary_lookup(t, Preview)
            on == wanted # NULL /\ On(wanted)
            off == wanted # NULL /\ Off(wanted)
            n == pvt.nr_encoders
            entry == [path |-> path, ctlfile |-> ctlfile]
            previews == IF n = MAX_ENCODERS THEN BOOLEAN ELSE {pvt.do_preview}
            r == [Resource("SHRecord") EXCEPT !.slot = n]
            Placed(preview) == [pvt EXCEPT !.encdata[n] = entry, !.do_preview = preview]
            Shown(p) == [p EXCEPT !.do_preview = on \/ (@ /\ ~off)]
<1>0. pvt \in Private /\ n \in 0 .. MAX_ENCODERS + 1 /\ block_given \in Gift /\ previews \subseteq BOOLEAN
  BY DEF Types, Private
<1>1. PICK made \in IF path = NULL \/ ctlfile = NULL THEN {<<pvt, <<>>>>}
                    ELSE shrecord_resource(path, ctlfile) :
        /\ Joins(made[2], block_given)
        /\ pvt' \in Overlaid(Shown(made[1])) \cup {made[1]}
  BY DEF shrecord_resources
<1>2. path \in Maybe /\ ctlfile \in Maybe /\ (path # NULL => path = Given(block_given, Path))
  BY FieldsOf DEF Maybe
<1>3. \/ made = <<pvt, <<>>>>
      \/ /\ path # NULL /\ n <= MAX_ENCODERS
         /\ \E preview \in previews :
               \/ made = <<Placed(preview), <<>>>>
               \/ made = <<[Placed(preview) EXCEPT !.nr_encoders = n + 1], <<r>>>>
  <2>1. n > MAX_ENCODERS \/ n <= MAX_ENCODERS
    BY <1>0, EncodersAssumption
  <2>. QED BY <1>1, <2>1 DEF shrecord_resource
<1>. HIDE DEF path, ctlfile, wanted, on, off, r
<1>4. ASSUME made[1] \in Private
      PROVE  /\ pvt' \in Private /\ pvt'.nr_encoders = made[1].nr_encoders
             /\ \A s \in 0 .. MAX_ENCODERS : s # MAX_ENCODERS => pvt'.encdata[s] = made[1].encdata[s]
  <2>. DEFINE p == Shown(made[1])
  <2>1. p \in Private /\ p.nr_encoders = made[1].nr_encoders /\ p.encdata = made[1].encdata
    BY <1>4 DEF Private
  <2>. HIDE DEF p
  <2>2. pvt' \in Overlaid(p) \/ pvt' = made[1]
    BY <1>1 DEF p
  <2>. QED BY <1>4, <2>1, <2>2, OverlaidFacts
<1>5. CASE made = <<pvt, <<>>>>
  <2>1. Joins(<<>>, block_given) /\ made[1] = pvt
    BY <1>1, <1>5
  <2>2. <<>> \in Seq(Resources) /\ DOMAIN <<>> = {} /\ pvt.nr_encoders <= pvt'.nr_encoders
    BY <1>0, <1>4, <2>1, EncodersAssumption
  <2>. QED BY <1>0, <1>4, <2>1, <2>2, JoinAnswers
<1>6. ASSUME NEW preview \in previews, path # NULL, n <= MAX_ENCODERS, made = <<Placed(preview), <<>>>>
      PROVE  Types' /\ Answered'
  <2>1. Joins(<<>>, block_given) /\ made[1] = Placed(preview)
    BY <1>1, <1>6
  <2>2. made[1] = WithPlace(path, ctlfile, preview, n)
    BY <1>0, <2>1 DEF Private, WithPlace
  <2>3. preview \in BOOLEAN /\ pvt.nr_encoders <= MAX_ENCODERS
    BY <1>0, <1>6
  <2>4. /\ made[1] \in Private /\ made[1].nr_encoders = n
        /\ \A s \in 0 .. MAX_ENCODERS : s < pvt.nr_encoders => made[1].encdata[s] = pvt.encdata[s]
    <3>1. pvt \in Private /\ n \in 0 .. MAX_ENCODERS + 1
      BY <1>0
    <3>. HIDE DEF previews, n
    <3>. QED BY <3>1, <1>2, <2>2, <2>3, PlacedFacts
  <2>5. <<>> \in Seq(Resources) /\ DOMAIN <<>> = {} /\ pvt.nr_encoders <= pvt'.nr_encoders
    BY <1>0, <1>4, <2>4, EncodersAssumption
  <2>6. /\ pvt' \in Private
        /\ \A s \in 0 .. MAX_ENCODERS : s < pvt.nr_encoders /\ s # MAX_ENCODERS => pvt'.encdata[s] = pvt.encdata[s]
    BY <1>4, <2>4
  <2>. HIDE DEF previews, Placed, entry
  <2>. QED BY <1>0, <2>1, <2>5, <2>6, JoinAnswers
<1>7. ASSUME NEW preview \in previews, path # NULL, n <= MAX_ENCODERS,
             made = <<[Placed(preview) EXCEPT !.nr_encoders = n + 1], <<r>>>>
      PROVE  Types' /\ Answered'
  <2>1. Joins(<<r>>, block_given) /\ made[1] = [Placed(preview) EXCEPT !.nr_encoders = n + 1]
    BY <1>1, <1>7
  <2>2. made[1] = WithPlace(path, ctlfile, preview, n + 1)
    BY <2>1 DEF WithPlace
  <2>3. preview \in BOOLEAN /\ n + 1 \in 0 .. MAX_ENCODERS + 1 /\ pvt.nr_encoders <= MAX_ENCODERS
    BY <1>0, <1>7, EncodersAssumption
  <2>4. /\ made[1] \in Private /\ made[1].nr_encoders = n + 1
        /\ made[1].encdata[n].path = path
        /\ \A s \in 0 .. MAX_ENCODERS : s < pvt.nr_encoders => made[1].encdata[s] = pvt.encdata[s]
    <3>1. pvt \in Private
      BY <1>0
    <3>. DEFINE count == n + 1
    <3>2. count \in 0 .. MAX_ENCODERS + 1 /\ made[1] = WithPlace(path, ctlfile, preview, count)
      BY <2>2, <2>3
    <3>. HIDE DEF previews, count
    <3>3. /\ made[1] \in Private /\ made[1].nr_encoders = count
          /\ made[1].encdata[pvt.nr_encoders].path = path
          /\ \A s \in 0 .. MAX_ENCODERS : s < pvt.nr_encoders => made[1].encdata[s] = pvt.encdata[s]
      BY <3>1, <3>2, <1>2, <2>3, PlacedFacts
    <3>. QED BY <3>3 DEF count
  <2>5. r \in Resources /\ r.kind = "SHRecord" /\ r.slot = n
    <3>1. r = [kind |-> "SHRecord", path |-> NULL, text |-> NULL, type |-> NULL, slot |-> n]
      BY DEF r, Resource
    <3>. QED BY <1>0, <3>1, EncodersAssumption DEF Resources, Kinds, Maybe
  <2>6. n = MAX_ENCODERS \/ Answers(r, block_given, oggstdin_pvt', pvt'.encdata)
    <3>1. n # MAX_ENCODERS => pvt'.encdata[n].path = path
      <4>1. n \in 0 .. MAX_ENCODERS
        BY <1>0, <1>7, EncodersAssumption
      <4>. HIDE DEF n
      <4>2. n # MAX_ENCODERS => pvt'.encdata[n] = made[1].encdata[n]
        BY <1>4, <2>4, <4>1
      <4>. QED BY <2>4, <4>2
    <3>. QED BY <1>2, <1>7, <2>5, <3>1 DEF Answers
  <2>7. <<r>> \in Seq(Resources) /\ DOMAIN <<r>> = {1} /\ <<r>>[1] = r
    BY <2>5
  <2>8. n <= pvt'.nr_encoders /\ n < pvt'.nr_encoders /\ r.slot \in 0 .. MAX_ENCODERS
    BY <1>0, <1>4, <1>7, <2>4, <2>5, EncodersAssumption
  <2>9. /\ pvt' \in Private
        /\ \A s \in 0 .. MAX_ENCODERS : s < pvt.nr_encoders /\ s # MAX_ENCODERS => pvt'.encdata[s] = pvt.encdata[s]
    BY <1>4, <2>4
  <2>. HIDE DEF previews, Placed, entry
  <2>. QED BY <1>0, <2>1, <2>5, <2>6, <2>7, <2>8, <2>9, JoinAnswers
<1>. QED BY <1>3, <1>5, <1>6, <1>7

(* The stores of shrecord_main spoil the encoder behind the array, and no other. *)
LEMMA MainAnswers ==
  ASSUME Types, Answered, shrecord_main
  PROVE  Types' /\ Answered'
<1>1. /\ pvt' \in Private /\ pvt'.nr_encoders = pvt.nr_encoders
      /\ \A s \in 0 .. MAX_ENCODERS : s # MAX_ENCODERS => pvt'.encdata[s] = pvt.encdata[s]
  BY OverlaidFacts DEF shrecord_main, Types
<1>2. UNCHANGED <<resources, origin, oggstdin_pvt, given, block_given>>
  BY DEF shrecord_main, tables
<1>3. Types'
  BY <1>1, <1>2 DEF Types
<1>4. Answered'
  <2>. SUFFICES ASSUME NEW i \in DOMAIN resources, resources[i].kind \in Configured
                PROVE  \/ /\ resources[i].kind = "OggStdin"
                          /\ \E j \in DOMAIN resources : j > i /\ resources[j].kind = "OggStdin"
                       \/ resources[i].kind = "SHRecord" /\ resources[i].slot = MAX_ENCODERS
                       \/ Answers(resources[i], origin[i], oggstdin_pvt, pvt'.encdata)
    BY <1>2 DEF Answered
  <2>1. resources[i].kind = "SHRecord" /\ resources[i].slot # MAX_ENCODERS =>
           pvt'.encdata[resources[i].slot] = pvt.encdata[resources[i].slot]
    BY <1>1 DEF Types
  <2>. QED BY <2>1 DEF Answered, Answers
<1>. QED BY <1>3, <1>4

(* Without a change of the resources, what the blocks gave may change. *)
LEMMA SameServed ==
  ASSUME Types, Answered, UNCHANGED served, given' \in Gift, block_given' \in Gift
  PROVE  Types' /\ Answered'
  BY DEF Types, Answered, served

LEMMA BlockEndAnswers ==
  ASSUME Sounds, Types, Answered, NEW name \in Name, cfg_read_block_end(name)
  PROVE  Types' /\ Answered'
<1>1. Sound(block_dict, block_given) /\ UNCHANGED <<given, block_given>>
  BY DEF Sounds, cfg_read_block_end
<1>2. given' \in Gift /\ block_given' \in Gift /\ block_given \in Gift
  BY <1>1 DEF Types
<1>3. pvt' = pvt => /\ pvt' \in Private /\ pvt.nr_encoders <= pvt'.nr_encoders
                    /\ \A s \in 0 .. MAX_ENCODERS : s < pvt.nr_encoders => pvt'.encdata[s] = pvt.encdata[s]
  BY DEF Types, Private
<1>4. CASE Joins(statictext_resources(block_dict), block_given) /\ UNCHANGED <<oggstdin_pvt, pvt>>
  <2>1. \A i \in DOMAIN statictext_resources(block_dict) :
           /\ statictext_resources(block_dict)[i].kind = "StaticText"
           /\ Answers(statictext_resources(block_dict)[i], block_given, oggstdin_pvt', pvt'.encdata)
    BY <1>1, StaticTextAnswers
  <2>2. statictext_resources(block_dict) \in Seq(Resources)
    BY <1>1, StaticTextAnswers
  <2>. QED BY <1>1, <1>2, <1>3, <1>4, <2>1, <2>2, JoinAnswers
<1>5. CASE Joins(fdstream_resources(block_dict), block_given) /\ UNCHANGED <<oggstdin_pvt, pvt>>
  <2>1. \A i \in DOMAIN fdstream_resources(block_dict) :
           /\ fdstream_resources(block_dict)[i].kind = "Stdin"
           /\ Answers(fdstream_resources(block_dict)[i], block_given, oggstdin_pvt', pvt'.encdata)
    BY <1>1, StdinAnswers
  <2>2. fdstream_resources(block_dict) \in Seq(Resources)
    BY <1>1, StdinAnswers
  <2>. QED BY <1>1, <1>2, <1>3, <1>5, <2>1, <2>2, JoinAnswers
<1>6. CASE oggstdin_resources(block_dict) /\ UNCHANGED pvt
  BY <1>1, <1>6, OggStdinAnswers
<1>7. CASE shrecord_resources(block_dict) /\ UNCHANGED oggstdin_pvt
  BY <1>1, <1>7, ShrecordAnswers
<1>8. CASE UNCHANGED served
  BY <1>2, <1>8, SameServed
<1>. QED BY <1>4, <1>5, <1>6, <1>7, <1>8 DEF cfg_read_block_end

LEMMA JoinedParts ==
  ASSUME NEW S, NEW a \in Seq(S), NEW b \in Seq(S)
  PROVE  /\ a \o b \in Seq(S)
         /\ Len(a) \in Nat /\ Len(b) \in Nat /\ DOMAIN a = 1 .. Len(a) /\ DOMAIN b = 1 .. Len(b)
         /\ DOMAIN (a \o b) = 1 .. Len(a) + Len(b)
         /\ \A i \in 1 .. Len(a) + Len(b) : (a \o b)[i] = IF i <= Len(a) THEN a[i] ELSE b[i - Len(a)]
  OBVIOUS

LEMMA StartupAnswers ==
  ASSUME Sounds, Types, Answered, sighttpd_init
  PROVE  Types' /\ Answered'
<1>. DEFINE static == statictext_resources(dictionary)
            new == Builtin \o static
<1>1. given \in Gift /\ given' \in Gift /\ block_given' \in Gift /\ UNCHANGED <<given, block_given>>
  BY DEF Types, sighttpd_init, tables
<1>2. CASE UNCHANGED served
  BY <1>1, <1>2, SameServed
<1>3. CASE Joins(new, given) /\ UNCHANGED <<oggstdin_pvt, pvt>>
  <2>1. /\ static \in Seq(Resources)
        /\ \A i \in DOMAIN static : /\ static[i].kind = "StaticText"
                                    /\ Answers(static[i], given, oggstdin_pvt', pvt'.encdata)
    BY StaticTextAnswers DEF Sounds
  <2>2. /\ Builtin \in Seq(Resources) /\ DOMAIN Builtin = 1 .. 4
        /\ \A i \in 1 .. 4 : Builtin[i].kind \notin Configured
    <3>1. \A i \in 1 .. 4 : <<"status", "flim", "uiomux", "kongou">>[i] \in Kinds \ Configured
      BY DEF Kinds, Configured
    <3>2. \A kind \in Kinds \ {"SHRecord"} : Resource(kind) \in Resources /\ Resource(kind).kind = kind
      BY DEF Resource, Resources, Maybe
    <3>3. DOMAIN Builtin = 1 .. 4 /\ \A i \in 1 .. 4 : Builtin[i] \in Resources /\ Builtin[i].kind \notin Configured
      BY <3>1, <3>2 DEF Builtin, Configured
    <3>4. Builtin \in Seq(Resources)
      BY <3>2, <3>1 DEF Builtin, Configured
    <3>. QED BY <3>3, <3>4
  <2>. HIDE DEF static
  <2>3. /\ new \in Seq(Resources)
        /\ \A i \in DOMAIN new : \/ i \in 1 .. 4 /\ new[i] = Builtin[i]
                                 \/ i - 4 \in DOMAIN static /\ new[i] = static[i - 4]
    <3>1. /\ new \in Seq(Resources)
          /\ Len(Builtin) \in Nat /\ Len(static) \in Nat /\ DOMAIN Builtin = 1 .. Len(Builtin)
          /\ DOMAIN static = 1 .. Len(static)
          /\ DOMAIN new = 1 .. Len(Builtin) + Len(static)
          /\ \A i \in 1 .. Len(Builtin) + Len(static) :
                new[i] = IF i <= Len(Builtin) THEN Builtin[i] ELSE static[i - Len(Builtin)]
      <4>1. Builtin \in Seq(Resources) /\ static \in Seq(Resources)
        BY <2>1, <2>2
      <4>. QED BY ONLY <4>1, JoinedParts
    <3>2. Len(Builtin) = 4
      BY <2>2, <3>1
    <3>. HIDE DEF new
    <3>. QED BY <3>1, <3>2
  <2>. HIDE DEF new
  <2>4. \A i \in DOMAIN new : new[i].kind \in Configured =>
           new[i].kind = "StaticText" /\ Answers(new[i], given, oggstdin_pvt', pvt'.encdata)
    BY <2>1, <2>2, <2>3
  <2>5. /\ pvt' \in Private /\ pvt.nr_encoders <= pvt'.nr_encoders
        /\ \A s \in 0 .. MAX_ENCODERS : s < pvt.nr_encoders => pvt'.encdata[s] = pvt.encdata[s]
    BY <1>3 DEF Types, Private
  <2>6. \A i \in DOMAIN new : new[i].kind # "SHRecord"
    BY <2>4 DEF Configured
  <2>. QED BY <1>1, <1>3, <2>3, <2>4, <2>5, <2>6, JoinAnswers
<1>. QED BY <1>2, <1>3 DEF sighttpd_init, served

(* The types hold, and every resource answers. *)
LEMMA AlwaysAnswered == CfgReadSpec => [](Types /\ Answered)
<1>1. Init => Types /\ Answered
  <2>. SUFFICES ASSUME Init PROVE Types /\ Answered
    OBVIOUS
  <2>1. resources = <<>> /\ origin = <<>> /\ given \in Gift /\ block_given \in Gift
    BY EmptyGift DEF Init
  <2>2. pvt \in Private
    BY EncodersAssumption DEF Init, Private, Slots, Maybe
  <2>. QED BY <2>1, <2>2 DEF Types, Answered
<1>2. Sounds /\ Types /\ Answered /\ [Next]_vars => (Types /\ Answered)'
  <2>. SUFFICES ASSUME Sounds, Types, Answered, [Next]_vars PROVE Types' /\ Answered'
    OBVIOUS
  <2>0. given \in Gift /\ block_given \in Gift
    BY DEF Types
  <2>1. CASE cfg_read_block_start
    BY <2>0, <2>1, EmptyGift, SameServed DEF cfg_read_block_start, served
  <2>2. CASE cfg_read_block_start_nested \/ cfg_read_block_end_outside \/ UNCHANGED vars
    BY <2>0, <2>2, SameServed DEF cfg_read_block_start_nested, cfg_read_block_end_outside, vars, tables
  <2>3. ASSUME NEW name \in Name, cfg_read_block_end(name) PROVE Types' /\ Answered'
    BY <2>3, BlockEndAnswers
  <2>4. ASSUME NEW name \in Name, NEW value \in Value, cfg_read_assign(name, value) PROVE Types' /\ Answered'
    <3>1. given' \in Gift /\ block_given' \in Gift
      BY <2>0, <2>4, GiveGift DEF cfg_read_assign
    <3>. QED BY <2>4, <3>1, SameServed DEF cfg_read_assign
  <2>5. ASSUME NEW value \in Value, Override(value) PROVE Types' /\ Answered'
    <3>1. given' \in Gift /\ block_given' \in Gift
      BY <2>0, <2>5, GiveGift DEF Override
    <3>. QED BY <2>5, <3>1, SameServed DEF Override
  <2>6. CASE sighttpd_init
    BY <2>6, StartupAnswers
  <2>7. CASE shrecord_main
    BY <2>7, MainAnswers
  <2>. QED BY <2>1, <2>2, <2>3, <2>4, <2>5, <2>6, <2>7 DEF Next, Callback
<1>. QED BY <1>1, <1>2, AlwaysSounds, PTL DEF CfgReadSpec

(* Every resource of the configuration answers at the path, and with the text, that its
   own block was handed last, and with its type, or the default one if it has none; only
   an OggStdin block with another one behind it and the encoder behind the array do not. *)
THEOREM ServedAlways == CfgReadSpec => []ServedAsConfigured
<1>1. Types /\ Answered => ServedAsConfigured
  BY AnsweredMeansServed
<1>. QED BY <1>1, AlwaysAnswered, PTL
=============================================================================
