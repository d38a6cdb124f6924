----------------------------- MODULE Dictionary -----------------------------
(* dictionary.c on x_tree.c: a hash table of binary trees. A table is the sequence
   of its entries as they were inserted. A tree only ever grows by a leaf, and an
   entry is moved nowhere, so its place is said by the entries above it: those
   where the way from the root goes left and those where it goes right.

   Every comparison of a search is strcasecmp with the name looked for, but
   x_tree_insert hands the new Variable, not its name, to the same function: what
   is compared are the bytes of the Variable, that is of a pointer from malloc.
   They have some fixed place, an Address, in the order of the names. *)
EXTENDS Integers, Sequences, Null

CONSTANTS
    Hash(_),   \* the bucket of a lower-case name
    Rank(_),   \* its place in the order of strcasecmp
    Fold(_),   \* the lower-case form of a name
    Address    \* the places that the bytes of a pointer may have in that order

Above(entry) == entry.left \cup entry.right

\* The entries that a comparison with what has place r meets on its way.
Meets(table, i, r) ==
    /\ \A j \in table[i].left : r < Rank(table[j].name)
    /\ \A j \in table[i].right : ~ (r < Rank(table[j].name))

\* x_tree_find: the entry of that name on the way that the name leads.
x_tree_find(table, name) ==
    {i \in DOMAIN table :
        /\ table[i].name = name
        /\ Meets(table, i, Rank(name))
        /\ \A j \in Above(table[i]) : table[j].name # name}

x_tree_insert_OneTree(table, name, value, address) ==
    LET met == {i \in DOMAIN table : Meets(table, i, address)}
        left == {i \in met : address < Rank(table[i].name)}
    IN  Append(table, [name |-> name, value |-> value, left |-> left, right |-> met \ left])

x_tree_insert_BelowRoot(table, name, value, address) ==
    LET met == {i \in DOMAIN table :
                   Hash(table[i].name) = Hash(name) /\ Above(table[i]) = {}}
        left == {i \in met : address < Rank(table[i].name)}
    IN  Append(table, [name |-> name, value |-> value, left |-> left, right |-> met \ left])

\* x_tree_insert: a new leaf below all that the bytes of the pointer meet.
x_tree_insert(table, name, value, address) ==
    LET met == {i \in DOMAIN table :
                   Hash(table[i].name) = Hash(name) /\ Meets(table, i, address)}
        left == {i \in met : address < Rank(table[i].name)}
    IN  Append(table, [name |-> name, value |-> value, left |-> left, right |-> met \ left])

dictionary_new == <<>>

dictionary_lookup(table, name) ==
    LET at == x_tree_find(table, Fold(name))
    IN  IF at = {} THEN NULL ELSE table[CHOOSE i \in at : TRUE].value

dictionary_insert_Always(table, name, value) ==
    {x_tree_insert(table, Fold(name), value, address) : address \in Address}

dictionary_insert_Reuse(table, name, value) ==
    LET key == Fold(name)
        at == x_tree_find(table, key)
        taken == {i \in DOMAIN table : Hash(table[i].name) = Hash(key)}
    IN  IF at # {} THEN {[table EXCEPT ![CHOOSE i \in at : TRUE].value = value]}
        ELSE IF taken = {} THEN {x_tree_insert(table, key, value, address) : address \in Address}
        ELSE {[table EXCEPT ![CHOOSE i \in taken : TRUE].name = key]}

\* The tables that an insertion may lead to.
dictionary_insert(table, name, value) ==
    LET key == Fold(name)
        at == x_tree_find(table, key)
    IN  IF at = {} THEN {x_tree_insert(table, key, value, address) : address \in Address}
        ELSE {[table EXCEPT ![CHOOSE i \in at : TRUE].value = value]}
-----------------------------------------------------------------------------
(* What a dictionary is for: the last value given to each name, as a function of
   the names that were given one. *)
Give(given, name, value) ==
    [n \in DOMAIN given \cup {Fold(name)} |-> IF n = Fold(name) THEN value ELSE given[n]]

Given(given, name) == IF Fold(name) \in DOMAIN given THEN given[Fold(name)] ELSE NULL

\* A name that has its bucket to itself.
Alone(table, name) ==
    \A i \in DOMAIN table : Hash(table[i].name) = Hash(name) => table[i].name = name

\* Whatever the addresses, a lookup finds the last value given or nothing at all.
NeverStale(table, given) ==
    \A i \in DOMAIN table :
        i \in x_tree_find(table, table[i].name) =>
            /\ table[i].name \in DOMAIN given
            /\ table[i].value = given[table[i].name]

\* Nor is a name without a companion in its bucket ever lost.
AloneFound(table, given) ==
    \A n \in DOMAIN given : Alone(table, n) => x_tree_find(table, n) # {}

\* Every tree is one: an entry is above another, below it, or on the other side of
\* one above both; and ways only lead through one bucket.
TreeShaped(table) ==
    \A i \in DOMAIN table :
        /\ table[i].left \cap table[i].right = {}
        /\ Above(table[i]) \subseteq 1 .. i - 1
        /\ \A j \in 1 .. i - 1 :
              Hash(table[j].name) = Hash(table[i].name) <=>
                  \/ j \in Above(table[i])
                  \/ table[i].left \cap table[j].right # {}
                  \/ table[i].right \cap table[j].left # {}
=============================================================================
