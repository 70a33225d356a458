------------------------------ MODULE LinkedList -----------------------------
(***************************************************************************)
(* LinkedList (lib/linked_list.hpp): nodes in memory of the heap, linked in*)
(* one direction, each with the index update() last gave it.               *)
(*                                                                         *)
(* The heap is taken at its word: calloc returns a cleared block that is   *)
(* not in use, and free ends its life.  What a call does to memory it does *)
(* not have, a second free or a write through a null pointer, is noted in  *)
(* stray.  A calloc without memory faults inside calloc (see Heap) before  *)
(* the list changes, so a call is only made with enough blocks.            *)
(***************************************************************************)
EXTENDS SequencesExt, FiniteSetsExt, Integers

CONSTANTS
  Nodes,     \* addresses the heap may return
  Values     \* data

NULL == 0

ASSUME LinkedListAssumption == IsFiniteSet(Nodes) /\ NULL \notin Nodes

VARIABLES
  mem,       \* the blocks the list has from calloc and has not freed
  list,      \* the head
  stray,     \* addresses the last call freed or wrote to without having them
  call,      \* the last call
  result     \* what it returned, TRUE for void

vars == <<mem, list, stray, call, result>>

Link == [data : Values, next : Nodes \cup {NULL}, index : Nat]

Init == mem = << >> /\ list = NULL /\ stray = {} /\ call = << >> /\ result = TRUE

------------------------------------------------------------------------------
(* Memory while a call runs: the blocks, and the stray accesses so far.     *)

Now == [mem |-> mem, stray |-> {}]

calloc(h, n) ==
  [h EXCEPT !.mem = [k \in DOMAIN h.mem \cup {n} |->
     IF k = n THEN [data |-> NULL, next |-> NULL, index |-> 0] ELSE h.mem[k]]]

free(h, n) ==
  [mem |-> [k \in DOMAIN h.mem \ {n} |-> h.mem[k]], stray |-> h.stray \cup ({n} \ DOMAIN h.mem)]

\* n->next = next
SetNext(h, n, next) ==
  [mem |-> [k \in DOMAIN h.mem |-> IF k = n THEN [h.mem[k] EXCEPT !.next = next] ELSE h.mem[k]],
   stray |-> h.stray \cup ({n} \ DOMAIN h.mem)]

\* n->data = v, n->next = next
Fill(h, n, v, next) ==
  [h EXCEPT !.mem = [k \in DOMAIN h.mem |->
     IF k = n THEN [data |-> v, next |-> next, index |-> h.mem[k].index] ELSE h.mem[k]]]

\* The nodes a loop from head over the links of m visits, up to one that is freed.
Chain(m, head) ==
  LET from[k \in 0 .. Cardinality(Nodes)] ==
        [n \in Nodes \cup {NULL} |->
           IF n = NULL \/ k = 0 THEN << >>
           ELSE IF n \notin DOMAIN m THEN <<n>>
           ELSE <<n>> \o from[k - 1][m[n].next]]
  IN  from[Cardinality(Nodes)][head]

chain == Chain(mem, list)

\* The position in the chain of the node find returns, 0 for nullptr, and the node.
find(index) == SelectInSeq(chain, LAMBDA n : mem[n].index = index)
NodeAt(p) == IF p = 0 THEN NULL ELSE chain[p]

numbered(h, head, first) ==
  LET c == Chain(h.mem, head)
  IN  [h EXCEPT !.mem = [n \in DOMAIN h.mem |->
         LET p == SelectInSeq(c, LAMBDA k : k = n)
         IN  IF p = 0 THEN h.mem[n] ELSE [h.mem[n] EXCEPT !.index = p - 1 + first]]]

\* Mutants: nothing is numbered; numbers start below 0.
update_nothing(h, head) == h
update_from_minus_one(h, head) == numbered(h, head, -1)

update(h, head) == numbered(h, head, 0)

\* A call ends: it returns r, memory is h and the head is head.
Done(r, h, head) == result' = r /\ mem' = h.mem /\ stray' = h.stray /\ list' = head

------------------------------------------------------------------------------
(* The calls.                                                               *)

\* push and push_back with memory h and block n for the node.
pushed(h, v, n) == update(Fill(calloc(h, n), n, v, list), n)

\* The head once n is at the tail.
TailAfter(n) == IF list = NULL THEN n ELSE list

\* Mutant: behind the first node.
pushed_behind_head(h, v, n) ==
  LET filled == Fill(calloc(h, n), n, v, IF list = NULL THEN NULL ELSE mem[list].next)
  IN  update(IF list = NULL THEN filled ELSE SetNext(filled, list, n), TailAfter(n))

pushed_back(h, v, n) ==
  LET filled == Fill(calloc(h, n), n, v, NULL)
  IN  update(IF list = NULL THEN filled ELSE SetNext(filled, Last(chain), n), TailAfter(n))

push(v) ==
  /\ call' = <<"push", v>>
  /\ \E n \in Nodes \ DOMAIN mem : Done(TRUE, pushed(Now, v, n), n)

push_back(v) ==
  /\ call' = <<"push_back", v>>
  /\ \E n \in Nodes \ DOMAIN mem : Done(TRUE, pushed_back(Now, v, n), TailAfter(n))

\* Mutant: the spare block is kept when the index is not found.
InsertBeforeKeeps(i, v, s) ==
  call' = <<"insert_before", i, v>> /\ find(i) = 0 /\ Done(FALSE, calloc(Now, s), list)

\* Block s is allocated before the search.  It becomes the node, or is freed where it is
\* not needed: at the head, for which push allocates another block, and when the index
\* is not found.
insert_before(i, v, s) ==
  /\ call' = <<"insert_before", i, v>>
  /\ LET p == find(i)
         h == calloc(Now, s)
     IN  \/ p = 0 /\ Done(FALSE, free(h, s), list)
         \/ p = 1 /\ \E n \in Nodes \ DOMAIN h.mem : Done(TRUE, free(pushed(h, v, n), s), n)
         \/ p > 1 /\ LET linked == SetNext(Fill(h, s, v, chain[p]), chain[p - 1], s)
                     IN  Done(TRUE, update(linked, list), list)

\* At the tail the code goes on from freeing the block to the lines for an index that
\* was not found: the block is freed again and the call returns false.
insert_after(i, v, s) ==
  /\ call' = <<"insert_after", i, v>>
  /\ LET p == find(i)
         h == calloc(Now, s)
     IN  \/ p = 0 /\ Done(FALSE, free(h, s), list)
         \/ /\ p # 0 /\ p = Len(chain)
            /\ \E n \in Nodes \ DOMAIN h.mem :
                 Done(FALSE, free(free(pushed_back(h, v, n), s), s), TailAfter(n))
         \/ /\ p # 0 /\ p # Len(chain)
            /\ LET linked == SetNext(Fill(h, s, v, mem[chain[p]].next), chain[p], s)
               IN  Done(TRUE, update(linked, list), list)

pop ==
  /\ call' = <<"pop">>
  /\ IF list = NULL THEN Done(FALSE, Now, list)
     ELSE LET head == mem[list].next IN Done(TRUE, update(free(Now, list), head), head)

\* The node with the index asked for stays; the one before it is unlinked and freed.
\* The node before that is looked up by its number, and its link is written whether the
\* look-up found it or not.  An index that is not found, and the head's, change nothing.
pop_index(i) ==
  /\ call' = <<"pop", i>>
  /\ LET p == find(i)
     IN  \/ p < 2 /\ Done(FALSE, Now, list)
         \/ p = 2 /\ Done(TRUE, update(free(Now, chain[1]), chain[2]), chain[2])
         \/ p > 2 /\ LET before == NodeAt(find(mem[chain[p - 1]].index - 1))
                         h == free(SetNext(Now, before, chain[p]), chain[p - 1])
                     IN  Done(TRUE, update(h, list), list)

\* No update().
pop_back ==
  /\ call' = <<"pop_back">>
  /\ \/ list = NULL /\ Done(FALSE, Now, list)
     \/ Len(chain) = 1 /\ Done(TRUE, free(Now, list), NULL)
     \/ /\ Len(chain) > 1
        /\ Done(TRUE, free(SetNext(Now, chain[Len(chain) - 1], NULL), Last(chain)), list)

\* pop_back until the list is empty; the destructor too.
clear ==
  /\ call' = <<"clear">>
  /\ Done(TRUE, [mem |-> [n \in DOMAIN mem \ ToSet(chain) |-> mem[n]],
                 stray |-> ToSet(chain) \ DOMAIN mem], NULL)

Indices == -1 .. Cardinality(Nodes)

Next ==
  \/ \E v \in Values : push(v) \/ push_back(v)
  \/ \E v \in Values, i \in Indices, s \in Nodes \ DOMAIN mem :
       insert_before(i, v, s) \/ insert_after(i, v, s)
  \/ pop \/ pop_back \/ clear
  \/ \E i \in Indices : pop_index(i)

Spec == Init /\ [][Next]_vars

------------------------------------------------------------------------------
(* Properties.                                                              *)

TypeOK ==
  /\ DOMAIN mem \subseteq Nodes
  /\ mem \in [DOMAIN mem -> Link]
  /\ list \in Nodes \cup {NULL}
  /\ stray \subseteq Nodes \cup {NULL}

\* After any sequence of calls operator[] gives the element whose distance from the
\* head is the index, and nullptr for every other index, although pop_back does not
\* renumber and pop by index looks nodes up by their number.
FindsByPosition ==
  \A i \in Indices : find(i) = IF i \in 0 .. Len(chain) - 1 THEN i + 1 ELSE 0

\* The blocks the list holds are exactly its nodes, once each: none that is linked
\* has been freed, and none is lost, the spare block of an insert_before or insert_after
\* that fails or pushes included.  No call writes through a null pointer, and only
\* insert_after frees what it does not have, a block that is not a node.
HoldsItsNodes ==
  /\ DOMAIN mem = ToSet(chain) /\ IsInjective(chain)
  /\ stray \cap (ToSet(chain) \cup {NULL}) = {}
  /\ stray # {} => call[1] = "insert_after" /\ ~result

\* "Frees memory" (mm.hpp:39): what a call frees is memory it has.
FreesWhatItHas == stray = {}

\* LinkedList implements a sequence.
Abstract == INSTANCE List WITH
  Positions <- Indices, items <- [p \in DOMAIN chain |-> mem[chain[p]].data]

ImplementsList == Abstract!Spec
==============================================================================
