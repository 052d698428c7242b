-------------------------------- MODULE List -------------------------------
(***************************************************************************)
(* list.h: circular doubly linked lists.  A heap gives the next and prev   *)
(* pointer of every node; nothing in the code keeps a node that is on a    *)
(* list from being added again.                                            *)
(***************************************************************************)
EXTENDS Integers

(* list_init of the head of every list *)
ListInit(nodes) == [next |-> [n \in nodes |-> n], prev |-> [n \in nodes |-> n]]

ListEmpty(h, list) == h.next[list] = list

(* list_add: item->next, item->prev, list->prev, prev->next in this order. *)
ListAdd(h, list, item) ==
  LET last == h.prev[list]
  IN [next |-> [h.next EXCEPT ![item] = list, ![last] = item],
      prev |-> [h.prev EXCEPT ![item] = last, ![list] = item]]

(* Seeded fault: the node after the item still points back to it. *)
ListDelForward(h, item) ==
  [next |-> [h.next EXCEPT ![h.prev[item]] = h.next[item]], prev |-> h.prev]

(* list_del: item keeps its own pointers. *)
ListDel(h, item) ==
  LET nx == [h.next EXCEPT ![h.prev[item]] = h.next[item]]
  IN [next |-> nx, prev |-> [h.prev EXCEPT ![nx[item]] = h.prev[item]]]

(* list_del and free: what a freed node holds is of no account. *)
ListFree(h, item) ==
  LET d == ListDel(h, item)
  IN [next |-> [d.next EXCEPT ![item] = item],
      prev |-> [d.prev EXCEPT ![item] = item]]

(* The list holds exactly the given nodes, in one ring through its head:   *)
(* next and prev are inverse to each other, and no part of the nodes is a  *)
(* ring with the head without the others.                                  *)
Holds(h, list, nodes) ==
  LET ring == nodes \cup {list}
  IN /\ list \notin nodes
     /\ \A n \in ring : /\ h.next[n] \in ring /\ h.prev[h.next[n]] = n
                        /\ h.prev[n] \in ring /\ h.next[h.prev[n]] = n
     /\ \A part \in SUBSET nodes :
          (\A n \in part \cup {list} : h.next[n] \in part \cup {list})
             => part = nodes
=============================================================================
