--------------------------------- MODULE List --------------------------------
(***************************************************************************)
(* What LinkedList promises: a sequence.  An index is the distance from the*)
(* head; a call that returns FALSE changes nothing.  Two things are left   *)
(* open: the result of insert_after, and which element pop takes out when  *)
(* it is given an index.                                                   *)
(***************************************************************************)
EXTENDS SequencesExt

CONSTANTS
  Values,
  Positions      \* indices that callers may use, in the list or not

VARIABLES
  items,
  call,          \* the last call
  result         \* what it returned, TRUE for void

Indices == 0 .. Len(items) - 1

Init == items = << >> /\ call = << >> /\ result = TRUE

Push(v) == call' = <<"push", v>> /\ items' = Cons(v, items) /\ result' = TRUE

PushBack(v) == call' = <<"push_back", v>> /\ items' = Append(items, v) /\ result' = TRUE

InsertBefore(i, v) ==
  /\ call' = <<"insert_before", i, v>>
  /\ result' = (i \in Indices)
  /\ items' = IF i \in Indices THEN InsertAt(items, i + 1, v) ELSE items

InsertAfter(i, v) ==
  /\ call' = <<"insert_after", i, v>>
  /\ result' \in BOOLEAN
  /\ items' = IF i \in Indices THEN InsertAt(items, i + 2, v) ELSE items

Pop ==
  /\ call' = <<"pop">>
  /\ result' = (items # << >>)
  /\ items' = IF items = << >> THEN items ELSE Tail(items)

PopIndex(i) ==
  /\ call' = <<"pop", i>>
  /\ result' => i \in Indices
  /\ IF result' THEN \E j \in Indices : items' = RemoveAt(items, j + 1)
               ELSE items' = items

PopBack ==
  /\ call' = <<"pop_back">>
  /\ result' = (items # << >>)
  /\ items' = IF items = << >> THEN items ELSE Front(items)

Clear == call' = <<"clear">> /\ items' = << >> /\ result' = TRUE

Next ==
  \/ \E v \in Values : \/ Push(v) \/ PushBack(v)
                       \/ \E i \in Positions : InsertBefore(i, v) \/ InsertAfter(i, v)
  \/ Pop \/ PopBack \/ Clear
  \/ \E i \in Positions : PopIndex(i)

Spec == Init /\ [][Next]_<<items, call, result>>
==============================================================================
