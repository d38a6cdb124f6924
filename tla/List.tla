-------------------------------- MODULE List --------------------------------
(* list.c: doubly linked lists on the heap. A memory is a record of all nodes and of
   those that malloc has handed out; a list is the pointer to its head. An operation
   that calls malloc gives a set of results, one for each node that may come. *)
EXTENDS Integers, Sequences, FiniteSets, SequencesExt, Null

CONSTANT Node

ASSUME NodeAssumption == IsFiniteSet(Node) /\ NULL \notin Node

\* What a node holds that nobody has written since it was freed.
Garbage == [prev |-> NULL, next |-> NULL, data |-> NULL]

Empty == [live |-> {}, node |-> [x \in Node |-> Garbage]]

list_new == NULL

\* The nodes from list on, along next.
Walk(m, list) ==
    LET at[i \in 0 .. Cardinality(Node)] ==
            IF i = 0 THEN list
            ELSE IF at[i - 1] = NULL THEN NULL ELSE m.node[at[i - 1]].next
        size == Cardinality({i \in DOMAIN at : at[i] # NULL})
    IN  [i \in 1 .. size |-> at[i - 1]]

list_tail(m, list) == IF list = NULL THEN NULL ELSE Last(Walk(m, list))

list_node_new(m, data) ==
    {[at  |-> x,
      mem |-> [m EXCEPT !.live = @ \cup {x},
                        !.node[x] = [prev |-> NULL, next |-> NULL, data |-> data]]] :
        x \in Node \ m.live}

list_append(m, list, data) ==
    {IF list = NULL THEN [head |-> new.at, mem |-> new.mem]
     ELSE LET last == list_tail(m, list)
          IN  [head |-> list,
               mem  |-> [new.mem EXCEPT !.node[last].next = new.at, !.node[new.at].prev = last]] :
        new \in list_node_new(m, data)}

list_remove_OneWay(m, list, x) ==
    LET prev == m.node[x].prev
        next == m.node[x].next
        before == IF prev = NULL THEN m ELSE [m EXCEPT !.node[prev].next = next]
    IN  [head |-> IF x = list THEN next ELSE list, mem |-> before]

\* The node is taken out of the list and not freed.
list_remove(m, list, x) ==
    LET prev == m.node[x].prev
        next == m.node[x].next
        before == IF prev = NULL THEN m ELSE [m EXCEPT !.node[prev].next = next]
        after == IF next = NULL THEN before ELSE [before EXCEPT !.node[next].prev = prev]
    IN  [head |-> IF x = list THEN next ELSE list, mem |-> after]

\* free: nothing is known of the nodes any more.
Freed(m, gone) ==
    [live |-> m.live \ gone, node |-> [x \in Node |-> IF x \in gone THEN Garbage ELSE m.node[x]]]

list_free_with(m, list) == [head |-> NULL, mem |-> Freed(m, ToSet(Walk(m, list)))]

\* A chain of live nodes that is the same in both directions.
Chained(m, list) ==
    LET walk == Walk(m, list)
    IN  /\ IsInjective(walk)
        /\ ToSet(walk) \subseteq m.live
        /\ \A i \in DOMAIN walk :
              /\ m.node[walk[i]].prev = IF i = 1 THEN NULL ELSE walk[i - 1]
              /\ m.node[walk[i]].next = IF i = Len(walk) THEN NULL ELSE walk[i + 1]
=============================================================================
