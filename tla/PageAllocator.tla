---------------------------- MODULE PageAllocator ----------------------------
(***************************************************************************)
(* What Pmm promises the rest of the kernel: it hands out ranges of        *)
(* physical pages that intersect neither each other nor the pages it keeps *)
(* for itself, and takes back whole ranges.  Which range an allocation     *)
(* gets, and whether it gets one, is left open.                            *)
(***************************************************************************)
EXTENDS Integers

VARIABLES
  held,      \* the ranges handed out and not given back
  reserved   \* the pages the allocator keeps

FramesOf(r) == r.idx .. r.idx + r.count - 1

\* Where count pages can be had among pages 1 .. limit.
Places(count, limit) ==
  LET taken == reserved \cup UNION {FramesOf(h) : h \in held}
  IN  {i \in 1 .. limit - count + 1 : (i .. i + count - 1) \cap taken = {}}

Init == held = {} /\ reserved = {}

\* Once, before anything is handed out, the allocator takes its own pages.
Reserve ==
  /\ held = {} /\ reserved = {}
  /\ reserved' \subseteq Nat
  /\ UNCHANGED held

Allocate(r) ==
  /\ \A h \in held : FramesOf(r) \cap FramesOf(h) = {}
  /\ FramesOf(r) \cap reserved = {}
  /\ held' = held \cup {r}
  /\ UNCHANGED reserved

Release(r) ==
  /\ r \in held
  /\ held' = held \ {r}
  /\ UNCHANGED reserved

Next ==
  \/ Reserve
  \/ \E r \in held' : Allocate(r)
  \/ \E r \in held : Release(r)

Spec == Init /\ [][Next]_<<held, reserved>>

==============================================================================
