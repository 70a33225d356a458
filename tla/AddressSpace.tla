----------------------------- MODULE AddressSpace ----------------------------
(***************************************************************************)
(* What Vmm promises its callers: a function from virtual pages to frames  *)
(* and permissions, which a call changes one page (or one huge page) at a  *)
(* time, in the order of their addresses and nothing else.  A call that    *)
(* does not find a page it should change gives up and keeps what it did.   *)
(***************************************************************************)
EXTENDS Integers

CONSTANTS
  Slots,     \* small pages per huge page
  Calls      \* what callers may ask

VARIABLES
  space,     \* the mapped pages, each with its frame and permissions
  call,      \* what is left of the current call
  result

HugeOps == {"map_huge", "unmap_huge", "update_huge"}

NoCall == [op |-> "none"]

Step(c) == IF c.op \in HugeOps THEN Slots ELSE 1

\* The pages the next step of c changes.
Target(c) == c.virt .. c.virt + Step(c) - 1

Mapped(c, s) ==
  [v \in DOMAIN s \cup Target(c) |->
     IF v \in Target(c) THEN [frame |-> c.phys + v - c.virt, perms |-> c.perms]
                        ELSE s[v]]

Unmapped(c, s) == [v \in DOMAIN s \ Target(c) |-> s[v]]

\* A page that was not mapped becomes mapped, to the frames from 0 on.
Updated(c, s) ==
  [v \in DOMAIN s \cup Target(c) |->
     IF v \notin Target(c) THEN s[v]
     ELSE [frame |-> IF v \in DOMAIN s THEN s[v].frame ELSE v - c.virt,
           perms |-> c.perms]]

Applied(c, s) ==
  CASE c.op \in {"map", "map_huge"}       -> Mapped(c, s)
    [] c.op \in {"unmap", "unmap_huge"}   -> Unmapped(c, s)
    [] c.op \in {"update", "update_huge"} -> Updated(c, s)

\* What is left of c after a step.
Rest(c) ==
  IF c.count = 1 THEN NoCall
  ELSE [c EXCEPT !.virt = @ + Step(c), !.phys = @ + Step(c), !.count = @ - 1]

Init ==
  /\ space = [v \in {} |-> << >>]
  /\ call = NoCall
  /\ result = TRUE

Begin(c) ==
  /\ call = NoCall
  /\ call' = c
  /\ UNCHANGED <<space, result>>

Change ==
  /\ call # NoCall
  /\ space' = Applied(call, space)
  /\ call' = Rest(call)
  /\ result' = TRUE

GiveUp ==
  /\ call # NoCall
  /\ call.op \notin {"map", "map_huge"}
  /\ call' = NoCall
  /\ result' = FALSE
  /\ UNCHANGED space

Next == (\E c \in Calls : Begin(c)) \/ Change \/ GiveUp

Spec == Init /\ [][Next]_<<space, call, result>>

==============================================================================
