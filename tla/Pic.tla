--------------------------------- MODULE Pic ---------------------------------
(***************************************************************************)
(* Idt::init (hardware/idt.cpp): the words that every processor sends to   *)
(* the two 8259 interrupt controllers, which all of them share, and the    *)
(* controllers.  Nothing orders the words of two processors.  The lidt at  *)
(* the end loads the same values on every processor and is left out.       *)
(***************************************************************************)
EXTENDS Sequences, Integers

CONSTANT Cpus

VARIABLES
  chip,     \* the controllers
  word      \* the word each processor sends next, 0 outside Idt::init

picVars == <<chip, word>>

Chips == {"master", "slave"}

Command(c, value) == [chip |-> c, port |-> "command", value |-> value]
Data(c, value) == [chip |-> c, port |-> "data", value |-> value]

\* Mutants: ICW3 before ICW2; no ICW4 for the slave and one mask only.
SwappedWords ==
  << Command("master", 17), Command("slave", 17), Data("master", 4), Data("slave", 2),
     Data("master", 32), Data("slave", 40), Data("master", 255), Data("slave", 255),
     Data("slave", 0), Data("master", 0) >>

ShortWords ==
  << Command("master", 17), Command("slave", 17), Data("master", 32), Data("slave", 40),
     Data("master", 4), Data("slave", 2), Data("master", 255), Data("master", 0) >>

\* The writes of init, in order.
InitWords ==
  << Command("master", 17), Command("slave", 17), Data("master", 32), Data("slave", 40),
     Data("master", 4), Data("slave", 2), Data("master", 255), Data("slave", 255),
     Data("slave", 0), Data("master", 0) >>

\* A controller that has been sent bytes of which nothing is known; nothing more is said
\* of it.
Unknown == [expects |-> "unknown", base |-> 0, cascade |-> 0, mask |-> 0]

\* What a controller makes of a byte.  A command with bit 4 starts its
\* initialisation: the next three bytes at its data port are ICW2 to ICW4, all
\* that follow are masks.
Receive(c, port, value) ==
  IF c.expects = "unknown" THEN c
  ELSE IF port = "command" THEN [c EXCEPT !.expects = "ICW2", !.mask = 0]
  ELSE CASE c.expects = "ICW2" -> [c EXCEPT !.expects = "ICW3", !.base = 8 * (value \div 8)]
         [] c.expects = "ICW3" -> [c EXCEPT !.expects = "ICW4", !.cascade = value]
         [] c.expects = "ICW4" -> [c EXCEPT !.expects = "mask"]
         [] OTHER              -> [c EXCEPT !.mask = value]

\* The firmware's setting: vectors 8 and 112.
Init ==
  /\ chip = [c \in Chips |-> [expects |-> "mask", base |-> IF c = "master" THEN 8 ELSE 112,
                              cascade |-> IF c = "master" THEN 4 ELSE 2, mask |-> 255]]
  /\ word = [p \in Cpus |-> 0]

Call(p) == word' = [word EXCEPT ![p] = 1]

After(i) == IF i = Len(InitWords) THEN 0 ELSE i + 1

\* One Port::outb, with the wait behind it.
outb(p) ==
  /\ word[p] > 0
  /\ LET w == InitWords[word[p]]
     IN  chip' = [chip EXCEPT ![w.chip] = Receive(@, w.port, w.value)]
  /\ word' = [word EXCEPT ![p] = After(@)]

\* The same when q makes its own calls on p's stack meanwhile.  The port, the value and
\* the return address lie on the stack: the byte may be any mixture of p's and q's, and p
\* goes on where it or where q would.
outb_overwritten(p, q) ==
  /\ word[p] > 0 /\ word[q] > 0
  /\ chip' = [c \in Chips |-> Unknown]
  /\ \E r \in {p, q} : word' = [word EXCEPT ![p] = After(word[r])]

\* A processor that leaves init in any other way.
Leave(p) == word' = [word EXCEPT ![p] = 0]

TypeOK ==
  /\ chip \in [Chips -> [expects : {"ICW2", "ICW3", "ICW4", "mask", "unknown"}, base : 0 .. 248,
                         cascade : 0 .. 255, mask : 0 .. 255]]
  /\ word \in [Cpus -> 0 .. Len(InitWords)]

Quiet == \A p \in Cpus : word[p] = 0

\* Both controllers are out of their initialisation and raise no vector below 32,
\* where the exceptions are.
Remapped ==
  /\ chip["master"].base = 32 /\ chip["master"].cascade = 4
  /\ chip["slave"].base = 40 /\ chip["slave"].cascade = 2

Ready == \A c \in Chips : chip[c].expects = "mask"
==============================================================================
