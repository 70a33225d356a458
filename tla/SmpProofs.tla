------------------------------ MODULE SmpProofs ------------------------------
(***************************************************************************)
(* Starting the other processors, for any set of them, any MADT that lists *)
(* a processor once, any timeout and any stack size.                       *)
(*                                                                         *)
(* On every machine: BootInv says which processor the commands of the APIC *)
(* can still reach, and PicInv that a controller in the middle of its      *)
(* initialisation has a processor that will send it the bytes it waits for,*)
(* where no two processors share a stack.                                  *)
(* On a prompt machine PromptInv adds that only the processor being booted *)
(* is ever on its way through the trampoline; the rest follows from that.  *)
(***************************************************************************)
EXTENDS Smp, SparkMathProofs

Booting ==
  pc \in {"stack", "init", "init_pending", "sipi", "sipi_pending", "wait", "resend",
          "resend_pending", "wait_again", "booted", "failed", "clear"}

\* An entry of the MADT that boot_cpu is called for.
Boots(i) == /\ madt[i].type = LAPIC /\ madt[i].enabled
            /\ madt[i].id # Bsp

\* Such an entry for which no command has been sent yet.
Waiting(i) ==
  /\ i \in offset .. Len(madt)
  /\ Boots(i)
  /\ i = offset => pc \in {"kernel_main", "idt", "madt", "stack", "init"}

Untouched(c) == ap[c] = "reset" /\ report[c] = "none"

\* The commands go to the processor being booted and to no other; INIT finds it as it
\* was after reset.
BootInv ==
  /\ Booting => offset <= Len(madt) /\ Boots(offset)
  /\ pc = "kernel_main" => \A p \in Cpus : word[p] = 0 /\ ap[p] \in {"reset", "up"}
  /\ \A i \in 1 .. Len(madt) : Waiting(i) => Untouched(madt[i].id)
  /\ ap[Bsp] = "up"
  /\ Booting /\ pc # "clear" => report[cpu] = "none"
  /\ pc \in {"wait", "wait_again"} => timeout >= 1
  /\ icr.pending =>
       /\ pc \in {"init_pending", "sipi_pending", "resend_pending"}
       /\ icr.target = cpu
       /\ icr.mode = INIT <=> pc = "init_pending"
       /\ icr.mode = INIT => ap[cpu] = "reset"

------------------------------------------------------------------------------
(* The interrupt controllers.                                               *)

\* The bytes a controller waits for.
Need(c) == CASE chip[c].expects = "ICW2" -> 3
             [] chip[c].expects = "ICW3" -> 2
             [] chip[c].expects = "ICW4" -> 1
             [] OTHER -> 0

\* The bytes for its data port in InitWords from word w on.
Remaining(c, w) ==
  IF c = "master"
  THEN CASE w \in 1 .. 3 -> 4 [] w \in 4 .. 5 -> 3 [] w \in 6 .. 7 -> 2 [] w \in 8 .. 10 -> 1
         [] OTHER -> 0
  ELSE CASE w \in 1 .. 4 -> 4 [] w \in 5 .. 6 -> 3 [] w \in 7 .. 8 -> 2 [] w = 9 -> 1
         [] OTHER -> 0

\* No two processors make calls on one stack.
OwnStacks == DistinctStacks \/ machine.prompt

Served ==
  \A c \in Idt!Chips :
    /\ chip[c].expects # "unknown"
    /\ Need(c) > 0 => \E p \in Cpus : word[p] # 0 /\ Remaining(c, word[p]) >= Need(c)

\* A processor is inside Idt::init only where the code calls it; and, if no stack is
\* shared, whoever started a controller's initialisation last has not sent the rest of it.
PicInv ==
  /\ \A p \in Cpus : word[p] # 0 => ap[p] = "idt" \/ (p = Bsp /\ pc = "idt")
  /\ OwnStacks => Served

\* The state of the controllers when one processor alone is about to send word w.
Expects(c, icw2, icw3, icw4, w) ==
  chip[c].expects = IF w \in icw2 THEN "ICW2"
                    ELSE IF w \in icw3 THEN "ICW3"
                    ELSE IF w \in icw4 THEN "ICW4" ELSE "mask"

Alone(w) ==
  /\ Expects("master", 2 .. 3, 4 .. 5, 6 .. 7, w)
  /\ w >= 4 => chip["master"].base = 32
  /\ w >= 6 => chip["master"].cascade = 4
  /\ Expects("slave", 3 .. 4, 5 .. 6, 7 .. 8, w)
  /\ w >= 5 => chip["slave"].base = 40
  /\ w >= 7 => chip["slave"].cascade = 2

------------------------------------------------------------------------------
(* Prompt machines.                                                         *)

OnItsWay(c) == ap[c] \in {"trampoline", "kernel", "idt", "set_booted"}

\* Only the processor being booted is on its way, and only while the boot processor
\* has a SIPI pending or waits.
OnlyOneInv ==
  \A c \in Cpus : OnItsWay(c) =>
    c = cpu /\ pc \in {"sipi_pending", "wait", "resend_pending", "wait_again"}

\* trampoline_booted is about that processor.
FlagInv ==
  /\ trampoline_booted =>
       /\ pc \in {"sipi_pending", "wait", "resend_pending", "wait_again", "booted", "clear"}
       /\ ap[cpu] = "up"
  /\ Booting /\ ap[cpu] = "up" => trampoline_booted
  /\ pc = "booted" => trampoline_booted

ReportInv ==
  \A c \in Cpus : /\ report[c] = "booted" => ap[c] = "up"
                  /\ report[c] = "failed" => ap[c] \in {"reset", "wait_for_sipi", "fault"}

\* No other processor has overwritten what the calls of smp_kernel_main return to.
ReturnInv ==
  \A c \in Cpus : /\ ap[c] = "idt" => returns[stack[c]] = "set_booted"
                  /\ ap[c] = "set_booted" => returns[stack[c]] = "loop"

RemapInv ==
  /\ \A p \in Cpus : word[p] # 0 => Alone(word[p])
  /\ Idt!Quiet /\ pc # "kernel_main" => Idt!Remapped

PromptInv == machine.prompt => OnlyOneInv /\ FlagInv /\ ReportInv /\ ReturnInv /\ RemapInv

------------------------------------------------------------------------------
(* Stacks.                                                                  *)

\* c has been given the pages from p on.
Gives(c, p) == \E r \in held : r.owner = c /\ r.idx = p

StackInv ==
  /\ \A r \in held : r.idx \in Nat /\ r.count = StackPages
  /\ \A r, s \in held : r # s => Pages!FramesOf(r) \cap Pages!FramesOf(s) = {}
  /\ machine.prompt =>
       /\ Booting /\ pc # "stack" => trampoline_stack = 0 \/ Gives(cpu, trampoline_stack)
       /\ \A c \in Cpus : OnStack(c) => Gives(c, stack[c])

------------------------------------------------------------------------------
(* Type correctness.                                                        *)

\* The MADT is a sequence of entries.
LEMMA MadtType ==
  ASSUME machine \in Machines
  PROVE  madt \in Seq(InterruptController)
  BY SmpAssumption DEF madt

\* A local APIC entry names a processor.
LEMMA EntryType ==
  ASSUME machine \in Machines, NEW i \in 1 .. Len(madt), madt[i].type = LAPIC
  PROVE  madt[i].id \in Cpus /\ madt[i].enabled \in BOOLEAN
<1>1. madt[i] \in InterruptController
  BY MadtType
<1> QED
  BY <1>1 DEF InterruptController, LAPIC

\* The least element of a set of numbers is in it.
LEMMA MinIsLeast ==
  ASSUME NEW S, S \subseteq Nat, S # {}
  PROVE  Min(S) \in S /\ \A x \in S : Min(S) <= x
<1>1. \E x \in S : \A y \in S : x <= y
  BY NatMinimum
<1> QED
  BY <1>1 DEF Min

\* So the place boot_cpu takes is a place, among the pages there are.
LEMMA PlaceType ==
  ASSUME Places # {}
  PROVE  Min(Places) \in Places /\ Min(Places) \in 1 .. Frames
<1>1. Places \subseteq 1 .. Frames
  BY SmpAssumption DEF Places, Pages!Places
<1>2. Places \subseteq Nat
  BY <1>1
<1>3. Min(Places) \in Places
  BY <1>2, MinIsLeast
<1> QED
  BY <1>1, <1>3

\* Idt::init sends ten words.
LEMMA WordCount == Len(Idt!InitWords) = 10
  BY DEF Idt!InitWords

\* Each is for one of the two controllers.
LEMMA WordType ==
  ASSUME NEW w \in 1 .. 10
  PROVE  /\ Idt!InitWords[w].chip \in Idt!Chips
         /\ Idt!InitWords[w].port \in {"command", "data"}
         /\ Idt!InitWords[w].value \in 0 .. 255
<1> USE DEF Idt!InitWords, Idt!Chips, Idt!Command, Idt!Data
<1>2. Idt!InitWords[w].chip \in Idt!Chips
  OBVIOUS
<1>3. Idt!InitWords[w].port \in {"command", "data"}
  OBVIOUS
<1>4. Idt!InitWords[w].value \in 0 .. 255
  OBVIOUS
<1> QED
  BY <1>2, <1>3, <1>4

ApStates == {"reset", "wait_for_sipi", "trampoline", "kernel", "idt", "set_booted", "up", "fault"}

ChipType == [expects : {"ICW2", "ICW3", "ICW4", "mask", "unknown"}, base : 0 .. 248,
             cascade : 0 .. 255, mask : 0 .. 255]

\* What a controller becomes, field by field.
LEMMA Received ==
  ASSUME NEW c \in ChipType, NEW port, NEW value, NEW r, r = Idt!Receive(c, port, value)
  PROVE  /\ c.expects = "unknown" => r = c
         /\ port = "command" /\ c.expects # "unknown" =>
              r = [expects |-> "ICW2", base |-> c.base, cascade |-> c.cascade, mask |-> 0]
         /\ port # "command" /\ c.expects = "ICW2" =>
              r = [expects |-> "ICW3", base |-> 8 * (value \div 8), cascade |-> c.cascade,
                   mask |-> c.mask]
         /\ port # "command" /\ c.expects = "ICW3" =>
              r = [expects |-> "ICW4", base |-> c.base, cascade |-> value, mask |-> c.mask]
         /\ port # "command" /\ c.expects = "ICW4" =>
              r = [expects |-> "mask", base |-> c.base, cascade |-> c.cascade, mask |-> c.mask]
         /\ port # "command" /\ c.expects = "mask" =>
              r = [expects |-> "mask", base |-> c.base, cascade |-> c.cascade, mask |-> value]
<1>1. c = [expects |-> c.expects, base |-> c.base, cascade |-> c.cascade, mask |-> c.mask]
  BY DEF ChipType
<1>0. CASE c.expects = "unknown"
  BY <1>0 DEF Idt!Receive
<1>2. CASE port = "command" /\ c.expects # "unknown"
  BY <1>1, <1>2 DEF Idt!Receive
<1>3. CASE port # "command" /\ c.expects = "ICW2"
  BY <1>1, <1>3 DEF Idt!Receive
<1>4. CASE port # "command" /\ c.expects = "ICW3"
  BY <1>1, <1>4 DEF Idt!Receive
<1>5. CASE port # "command" /\ c.expects = "ICW4"
  BY <1>1, <1>5 DEF Idt!Receive
<1>6. CASE port # "command" /\ c.expects = "mask"
  BY <1>1, <1>6 DEF Idt!Receive
<1> QED
  BY <1>0, <1>2, <1>3, <1>4, <1>5, <1>6 DEF ChipType

\* A controller stays one whatever it receives.
LEMMA ReceiveType ==
  ASSUME NEW c \in ChipType, NEW port, NEW value \in 0 .. 255
  PROVE  Idt!Receive(c, port, value) \in ChipType
<1>1. 8 * (value \div 8) \in 0 .. 248
  OBVIOUS
<1>2. /\ c.mask \in 0 .. 255 /\ c.base \in 0 .. 248 /\ c.cascade \in 0 .. 255
      /\ c.expects \in {"ICW2", "ICW3", "ICW4", "mask", "unknown"}
  BY DEF ChipType
<1>0. CASE c.expects = "unknown"
  BY <1>0, Received
<1>3. CASE port = "command" /\ c.expects # "unknown"
  BY <1>2, <1>3, Received DEF ChipType
<1>4. CASE port # "command" /\ c.expects = "ICW2"
  BY <1>1, <1>2, <1>4, Received DEF ChipType
<1>5. CASE port # "command" /\ c.expects = "ICW3"
  BY <1>2, <1>5, Received DEF ChipType
<1>6. CASE port # "command" /\ c.expects = "ICW4"
  BY <1>2, <1>6, Received DEF ChipType
<1>7. CASE port # "command" /\ c.expects = "mask"
  BY <1>2, <1>7, Received DEF ChipType
<1> QED
  BY <1>0, <1>2, <1>3, <1>4, <1>5, <1>6, <1>7

\* A word sent keeps the types of the controllers.
LEMMA OutbType ==
  ASSUME Idt!TypeOK, NEW p \in Cpus, Idt!outb(p)
  PROVE  Idt!TypeOK'
<1>1. Len(Idt!InitWords) = 10
  BY WordCount
<1>2. word[p] \in 1 .. 10
  BY <1>1 DEF Idt!TypeOK, Idt!outb
<1>3. word' \in [Cpus -> 0 .. Len(Idt!InitWords)]
  BY <1>1, <1>2 DEF Idt!TypeOK, Idt!outb, Idt!After
<1> DEFINE w == Idt!InitWords[word[p]]
<1>4. w.chip \in Idt!Chips /\ w.value \in 0 .. 255
  BY <1>2, WordType
<1>5. chip' = [chip EXCEPT ![w.chip] = Idt!Receive(chip[w.chip], w.port, w.value)]
  BY DEF Idt!outb
<1>6. chip \in [Idt!Chips -> ChipType]
  BY DEF Idt!TypeOK, ChipType
<1> HIDE DEF w
<1>7. Idt!Receive(chip[w.chip], w.port, w.value) \in ChipType
  BY <1>4, <1>6, ReceiveType
<1>8. chip' \in [Idt!Chips -> ChipType]
  BY <1>5, <1>6, <1>7
<1> QED
  BY <1>3, <1>8 DEF Idt!TypeOK, ChipType

\* So do mixed calls and a processor that leaves Idt::init.
LEMMA OverwrittenType ==
  ASSUME Idt!TypeOK, NEW p \in Cpus, NEW q \in Cpus, Idt!outb_overwritten(p, q)
  PROVE  Idt!TypeOK'
<1>1. Len(Idt!InitWords) = 10
  BY WordCount
<1>2. \A r \in {p, q} : Idt!After(word[r]) \in 0 .. 10
  BY <1>1 DEF Idt!TypeOK, Idt!outb_overwritten, Idt!After
<1>3. word' \in [Cpus -> 0 .. Len(Idt!InitWords)]
  BY <1>1, <1>2 DEF Idt!TypeOK, Idt!outb_overwritten
<1>4. Idt!Unknown \in ChipType
  BY DEF Idt!Unknown, ChipType
<1>5. chip' \in [Idt!Chips -> ChipType]
  BY <1>4 DEF Idt!outb_overwritten
<1> QED
  BY <1>3, <1>5 DEF Idt!TypeOK, ChipType

LEMMA LeaveType ==
  ASSUME Idt!TypeOK, NEW p \in Cpus, Idt!Leave(p), UNCHANGED chip
  PROVE  Idt!TypeOK'
  BY WordCount DEF Idt!TypeOK, Idt!Leave

\* What leaves the controllers and the words alone keeps their types.
LEMMA PicUnchanged ==
  ASSUME TypeOK, UNCHANGED picVars
  PROVE  Idt!TypeOK'
  BY DEF TypeOK, picVars, Idt!TypeOK

\* Every step of the boot processor keeps the types.
LEMMA BspTypes ==
  ASSUME TypeOK, BootInv, BspStep
  PROVE  TypeOK'
<1>0. Len(madt) \in Nat
  BY MadtType DEF TypeOK
<1>1. CASE CallIdt
  <2>1. Idt!TypeOK'
    <3>1. word' \in [Cpus -> 0 .. Len(Idt!InitWords)]
      BY <1>1, SmpAssumption, WordCount DEF CallIdt, TypeOK, Idt!TypeOK, Idt!Call
    <3>2. chip' = chip
      BY <1>1 DEF CallIdt
    <3> QED
      BY <3>1, <3>2 DEF TypeOK, Idt!TypeOK
  <2> QED
    BY <1>1, <2>1 DEF CallIdt, TypeOK, Goto, madt, apVars, shared, pages
<1>2. CASE CallAcpi \/ CallBootCpu \/ Return
  <2>1. Idt!TypeOK'
    BY <1>2, PicUnchanged DEF CallAcpi, CallBootCpu, Return
  <2>2. CASE CallAcpi
    BY <2>1, <2>2 DEF CallAcpi, TypeOK, Goto, madt, apVars, shared, pages
  <2>3. CASE CallBootCpu
    BY <2>1, <2>3 DEF CallBootCpu, TypeOK, Goto, madt, apVars, shared, pages
  <2>4. CASE Return
    BY <2>1, <2>4 DEF Return, TypeOK, Goto, madt, apVars, shared, pages
  <2> QED
    BY <1>2, <2>2, <2>3, <2>4
<1>3. CASE SkipEntry
  <2>1. Idt!TypeOK'
    BY <1>3, PicUnchanged DEF SkipEntry
  <2>2. offset' \in 1 .. Len(madt) + 1
    BY <1>0, <1>3 DEF SkipEntry, AtEntry, TypeOK
  <2> QED
    BY <1>3, <2>1, <2>2 DEF SkipEntry, TypeOK, madt, apVars, shared, pages
<1>4. CASE SkipDisabled
  <2>1. Idt!TypeOK'
    BY <1>4, PicUnchanged DEF SkipDisabled, vars
  <2> QED
    BY <1>4, <2>1 DEF SkipDisabled, TypeOK, madt, vars, apVars, shared, pages
<1>5. CASE AllocStack
  <2>1. Idt!TypeOK'
    BY <1>5, PicUnchanged DEF AllocStack, bootVars
  <2>2. trampoline_stack' \in 0 .. Frames
    BY <1>5, PlaceType, SmpAssumption DEF AllocStack
  <2> QED
    BY <1>5, <2>1, <2>2 DEF AllocStack, bootVars, TypeOK, Goto, madt, apVars
<1>6. CASE SendIpis
  <2>1. pc \in {"init", "init_pending", "sipi", "sipi_pending", "resend", "resend_pending"}
    BY <1>6 DEF SendIpis, SendFirst, WriteIcr, AwaitIcr, Goto
  <2>2. cpu \in Cpus
    <3>1. offset \in 1 .. Len(madt) /\ madt[offset].type = LAPIC
      BY <1>0, <2>1 DEF BootInv, Booting, Boots, TypeOK
    <3> QED
      BY <3>1, EntryType DEF TypeOK, cpu
  <2>3. icr' \in {Idle} \cup [pending : {TRUE}, target : Cpus, mode : {INIT, SIPI}]
    <3>1. CASE icr' = icr
      BY <3>1 DEF TypeOK
    <3>2. CASE \E mode \in {INIT, SIPI} : icr' = [pending |-> TRUE, target |-> cpu, mode |-> mode]
      BY <2>2, <3>2
    <3> QED
      BY <1>6, <3>1, <3>2 DEF SendIpis, SendFirst, WriteIcr, AwaitIcr
  <2>4. timeout' \in 0 .. Timeout
    BY <1>6, SmpAssumption DEF SendIpis, SendFirst, WriteIcr, AwaitIcr, TypeOK
  <2>5. UNCHANGED <<bootVars, shared, pages>>
    BY <1>6 DEF SendIpis, SendFirst, WriteIcr, AwaitIcr
  <2>6. pc' \in {"init_pending", "sipi", "sipi_pending", "wait", "resend_pending", "wait_again"}
    BY <1>6 DEF SendIpis, SendFirst, WriteIcr, AwaitIcr, Goto
  <2>7. Idt!TypeOK'
    BY <2>5, PicUnchanged DEF bootVars
  <2> QED
    BY <2>3, <2>4, <2>5, <2>6, <2>7 DEF bootVars, TypeOK, madt, apVars, shared
<1>7. CASE Wait
  <2>1. timeout' \in 0 .. Timeout
    BY <1>7, SmpAssumption DEF Wait, wait_for_boot, TypeOK, BootInv
  <2>2. UNCHANGED <<bootVars, icr, shared, pages>>
    BY <1>7 DEF Wait, wait_for_boot
  <2>3. pc' \in {"wait", "wait_again", "resend", "booted", "failed"}
    BY <1>7 DEF Wait, wait_for_boot
  <2>4. Idt!TypeOK'
    BY <2>2, PicUnchanged DEF bootVars
  <2> QED
    BY <2>1, <2>2, <2>3, <2>4 DEF bootVars, TypeOK, madt, apVars, shared
<1>8. CASE Report
  <2>1. Idt!TypeOK'
    BY <1>8, PicUnchanged DEF Report
  <2>2. report' \in [Cpus -> {"none", "booted", "failed"}]
    BY <1>8 DEF Report, TypeOK
  <2> QED
    BY <1>8, <2>1, <2>2 DEF Report, TypeOK, madt, apVars, shared, pages
<1>9. CASE ClearBooted
  <2>1. Idt!TypeOK'
    BY <1>9, PicUnchanged DEF ClearBooted, EndBootCpu
  <2>2. offset' \in 1 .. Len(madt) + 1
    BY <1>0, <1>9 DEF TypeOK, BootInv, Booting, ClearBooted, EndBootCpu, Goto
  <2> QED
    BY <1>9, <2>1, <2>2 DEF ClearBooted, EndBootCpu, Goto, TypeOK, madt, apVars, pages
<1> QED
  BY <1>1, <1>2, <1>3, <1>4, <1>5, <1>6, <1>7, <1>8, <1>9 DEF BspStep

\* Every step of the APIC and of the other processors does.
LEMMA OtherTypes ==
  ASSUME TypeOK, ApicStep \/ \E c \in Cpus : ApStep(c)
  PROVE  TypeOK'
<1>1. CASE ApicStep
  <2>1. Idt!TypeOK'
    BY <1>1, PicUnchanged DEF ApicStep, Deliver, Lose
  <2>2. ap' \in [Cpus -> ApStates]
    <3>1. ap \in [Cpus -> ApStates]
      BY DEF TypeOK, ApStates
    <3>2. CASE ap' = ap
      BY <3>1, <3>2
    <3>3. CASE \E t \in ApStates : ap' = [ap EXCEPT ![icr.target] = t]
      BY <3>1, <3>3
    <3>4. \/ ap' = ap
          \/ ap' = [ap EXCEPT ![icr.target] = "wait_for_sipi"]
          \/ ap' = [ap EXCEPT ![icr.target] = "trampoline"]
      BY <1>1 DEF ApicStep, Deliver, Lose, apVars
    <3> QED
      BY <3>2, <3>3, <3>4 DEF ApStates
  <2>3. icr' = Idle
    BY <1>1 DEF ApicStep, Deliver, Lose
  <2>4. UNCHANGED <<machine, pc, offset, timeout, shared, report, stack, pushed, returns>>
    BY <1>1 DEF ApicStep, Deliver, Lose, apVars
  <2>5. icr' \in {Idle} \cup [pending : {TRUE}, target : Cpus, mode : {INIT, SIPI}]
    BY <2>3
  <2>6. /\ offset' \in 1 .. Len(madt') + 1
        /\ trampoline_stack' \in 0 .. Frames /\ trampoline_booted' \in BOOLEAN
    BY <2>4 DEF TypeOK, madt, shared
  <2>7. /\ pushed' \in [Cpus -> SUBSET (-1 .. Frames)]
        /\ returns' \in [0 .. Frames -> {"set_booted", "loop"}]
        /\ stack' \in [Cpus -> 0 .. Frames] /\ report' \in [Cpus -> {"none", "booted", "failed"}]
    BY <2>4 DEF TypeOK
  <2> QED
    BY <2>1, <2>2, <2>4, <2>5, <2>6, <2>7 DEF TypeOK, ApStates
<1>2. ASSUME NEW c \in Cpus, LoadStack(c) PROVE TypeOK'
  <2>1. Idt!TypeOK'
    BY <1>2, PicUnchanged DEF LoadStack
  <2> QED
    BY <1>2, <2>1 DEF LoadStack, TypeOK, bspVars, madt, pages
<1>3. ASSUME NEW c \in Cpus, smp_kernel_main(c) PROVE TypeOK'
  <2>1. Idt!TypeOK'
    <3>1. word' \in [Cpus -> 0 .. Len(Idt!InitWords)]
      BY <1>3, WordCount DEF smp_kernel_main, TypeOK, Idt!TypeOK, Idt!Call
    <3>2. chip' = chip
      BY <1>3 DEF smp_kernel_main
    <3> QED
      BY <3>1, <3>2 DEF TypeOK, Idt!TypeOK
  <2>2. pushed' \in [Cpus -> SUBSET (-1 .. Frames)]
    <3>1. stack[c] - 1 \in -1 .. Frames
      BY SmpAssumption DEF TypeOK
    <3> QED
      BY <1>3, <3>1 DEF smp_kernel_main, TypeOK
  <2> QED
    BY <1>3, <2>1, <2>2 DEF smp_kernel_main, TypeOK, bspVars, madt, pages
<1>4. ASSUME NEW c \in Cpus, IdtInit(c) PROVE TypeOK'
  <2>1. Idt!TypeOK'
    BY <1>4, OutbType DEF IdtInit, TypeOK
  <2> QED
    BY <1>4, <2>1 DEF IdtInit, TypeOK, bspVars, apVars, madt, pages
<1>5. ASSUME NEW c \in Cpus, set_booted(c) PROVE TypeOK'
  <2>1. Idt!TypeOK'
    BY <1>5, PicUnchanged DEF set_booted
  <2> QED
    BY <1>5, <2>1 DEF set_booted, TypeOK, bspVars, madt, pages
<1>6. ASSUME NEW c \in Cpus, IdtShared(c) PROVE TypeOK'
  <2>1. Idt!TypeOK'
    BY <1>6, OverwrittenType DEF IdtShared, TypeOK
  <2> QED
    BY <1>6, <2>1 DEF IdtShared, TypeOK, bspVars, apVars, madt, pages
<1>7. ASSUME NEW c \in Cpus, Fault(c) PROVE TypeOK'
  <2>1. Idt!TypeOK'
    BY <1>7, LeaveType DEF Fault, TypeOK
  <2> QED
    BY <1>7, <2>1 DEF Fault, TypeOK, bspVars, madt, pages
<1>8. ASSUME NEW c \in Cpus, ReturnFromIdt(c) PROVE TypeOK'
  <2>1. Idt!TypeOK'
    BY <1>8, PicUnchanged DEF ReturnFromIdt
  <2>2. returns' \in [0 .. Frames -> {"set_booted", "loop"}]
    <3>1. returns' = returns \/ returns' = [returns EXCEPT ![stack[c]] = "loop"]
      BY <1>8, Zenon DEF ReturnFromIdt
    <3> QED
      BY <3>1 DEF TypeOK
  <2>3. ap' \in [Cpus -> ApStates]
    <3>1. ap' = [ap EXCEPT ![c] = "set_booted"] \/ ap' = [ap EXCEPT ![c] = "up"]
      BY <1>8, Zenon DEF ReturnFromIdt
    <3> QED
      BY <3>1 DEF TypeOK, ApStates
  <2> QED
    BY <1>8, <2>1, <2>2, <2>3 DEF ReturnFromIdt, TypeOK, ApStates, bspVars, madt, pages
<1> QED
  BY <1>1, <1>2, <1>3, <1>4, <1>5, <1>6, <1>7, <1>8 DEF ApStep

------------------------------------------------------------------------------
(* Which processor a command reaches.                                       *)

\* Two entries for boot_cpu are about two processors.
LEMMA EntryUnique ==
  ASSUME TypeOK, NEW i \in 1 .. Len(madt), NEW j \in 1 .. Len(madt), Boots(i), Boots(j),
         madt[i].id = madt[j].id
  PROVE  i = j
<1>1. machine \in Machines /\ madt = machine.madt
  BY DEF TypeOK, madt
<1>2. DOMAIN madt = 1 .. Len(madt)
  BY MadtType DEF TypeOK
<1> QED
  BY <1>1, <1>2, MadtAssumption DEF Boots

\* The entry boot_cpu works on.
LEMMA CurrentEntry ==
  ASSUME TypeOK, BootInv, Booting
  PROVE  offset \in 1 .. Len(madt) /\ cpu \in Cpus /\ cpu # Bsp /\ Boots(offset)
<1>1. Len(madt) \in Nat
  BY MadtType DEF TypeOK
<1>2. offset \in 1 .. Len(madt) /\ Boots(offset)
  BY <1>1 DEF TypeOK, BootInv
<1> QED
  BY <1>2, EntryType DEF TypeOK, Boots, cpu

\* Every step of the boot processor keeps BootInv.
LEMMA BspBoots ==
  ASSUME TypeOK, BootInv, BspStep
  PROVE  BootInv'
<1>0. Len(madt) \in Nat /\ offset \in Nat
  BY MadtType DEF TypeOK
<1>1. CASE CallIdt
  <2>1. pc = "kernel_main" /\ pc' = "idt" /\ UNCHANGED <<machine, offset, timeout, icr, ap, report>>
    BY <1>1 DEF CallIdt, Goto, apVars
  <2>2. \A i : Waiting(i)' <=> Waiting(i)
    BY <2>1 DEF Waiting, Boots, madt
  <2> QED
    BY <2>1, <2>2 DEF BootInv, Booting, Untouched, madt
<1>2. CASE CallAcpi \/ Return
  <2>1. /\ pc \in {"idt", "madt"} /\ pc' \in {"madt", "returned"}
        /\ UNCHANGED <<machine, offset, timeout, icr, ap, report>>
    BY <1>2 DEF CallAcpi, Return, Goto, apVars
  <2>2. \A i : Waiting(i)' => Waiting(i)
    BY <2>1 DEF Waiting, Boots, madt
  <2> QED
    BY <2>1, <2>2 DEF BootInv, Booting, Untouched, madt
<1>3. CASE SkipEntry
  <2>1. /\ pc = "madt" /\ pc' = pc /\ offset' = offset + 1
        /\ UNCHANGED <<machine, timeout, icr, ap, report>>
    BY <1>3 DEF SkipEntry, AtEntry, apVars
  <2>2. \A i \in 1 .. Len(madt) : Waiting(i)' => Waiting(i)
    BY <1>0, <2>1 DEF Waiting, Boots, madt
  <2> QED
    BY <2>1, <2>2 DEF BootInv, Booting, Untouched, madt
<1>4. CASE SkipDisabled
  BY <1>4 DEF SkipDisabled, vars, apVars, picVars, BootInv, Booting, Waiting, Boots, Untouched,
     madt, cpu
<1>5. CASE CallBootCpu
  <2>1. /\ pc = "madt" /\ pc' = "stack" /\ UNCHANGED <<machine, offset, timeout, icr, ap, report>>
        /\ offset <= Len(madt) /\ Boots(offset)
    BY <1>5 DEF CallBootCpu, AtEntry, Goto, apVars, Boots, cpu
  <2>2. \A i : Waiting(i)' <=> Waiting(i)
    BY <2>1 DEF Waiting, Boots, madt
  <2>3. Waiting(offset) /\ offset \in 1 .. Len(madt)
    BY <1>0, <2>1 DEF Waiting, TypeOK
  <2> QED
    BY <2>1, <2>2, <2>3 DEF BootInv, Booting, Untouched, madt, Boots, cpu
<1>6. CASE AllocStack
  <2>1. pc = "stack" /\ pc' = "init" /\ UNCHANGED <<machine, offset, timeout, icr, ap, report>>
    BY <1>6 DEF AllocStack, Goto, bootVars, apVars
  <2>2. \A i : Waiting(i)' <=> Waiting(i)
    BY <2>1 DEF Waiting, Boots, madt
  <2> QED
    BY <2>1, <2>2 DEF BootInv, Booting, Untouched, madt, cpu, Boots
<1>7. CASE SendIpis
  <2>1. /\ UNCHANGED <<machine, offset, ap, report>>
        /\ pc \in {"init", "init_pending", "sipi", "sipi_pending", "resend", "resend_pending"}
        /\ pc' \in {"init_pending", "sipi", "sipi_pending", "wait", "resend_pending", "wait_again"}
    BY <1>7 DEF SendIpis, SendFirst, WriteIcr, AwaitIcr, Goto, bootVars, apVars
  <2>2. \A i : Waiting(i)' => Waiting(i)
    BY <2>1 DEF Waiting, Boots, madt
  <2>3. pc' \in {"wait", "wait_again"} => timeout' >= 1
    BY <1>7, SmpAssumption DEF SendIpis, SendFirst, WriteIcr, AwaitIcr, Goto
  <2>4. icr'.pending =>
          /\ pc' \in {"init_pending", "sipi_pending", "resend_pending"}
          /\ icr'.target = cpu
          /\ icr'.mode = INIT <=> pc' = "init_pending"
          /\ icr'.mode = INIT => ap[cpu] = "reset"
    <3>1. CASE WriteIcr("init", INIT, "init_pending")
      <4>1. pc = "init" /\ pc' = "init_pending"
            /\ icr' = [pending |-> TRUE, target |-> cpu, mode |-> INIT]
        BY <3>1 DEF WriteIcr, Goto
      <4>2. offset \in 1 .. Len(madt) /\ Waiting(offset)
        BY <1>0, <4>1, CurrentEntry DEF Booting, Waiting
      <4>3. ap[cpu] = "reset"
        BY <4>2 DEF BootInv, Untouched, cpu
      <4> QED
        BY <4>1, <4>3
    <3>2. CASE WriteIcr("sipi", SIPI, "sipi_pending") \/ WriteIcr("resend", SIPI, "resend_pending")
      BY <3>2 DEF WriteIcr, Goto, INIT, SIPI
    <3>3. CASE ~icr.pending /\ icr' = icr
      BY <3>3
    <3> QED
      BY <1>7, <3>1, <3>2, <3>3 DEF SendIpis, SendFirst, AwaitIcr
  <2> QED
    BY <2>1, <2>2, <2>3, <2>4 DEF BootInv, Booting, Untouched, madt, cpu, Boots
<1>8. CASE Wait
  <2>1. /\ UNCHANGED <<machine, offset, ap, report, icr>>
        /\ pc \in {"wait", "wait_again"}
        /\ pc' \in {"wait", "wait_again", "resend", "booted", "failed"}
    BY <1>8 DEF Wait, wait_for_boot, bootVars, apVars
  <2>2. \A i : Waiting(i)' => Waiting(i)
    BY <2>1 DEF Waiting, Boots, madt
  <2>3. pc' \in {"wait", "wait_again"} => timeout' >= 1
    BY <1>8, SmpAssumption DEF Wait, wait_for_boot, BootInv, TypeOK
  <2> QED
    BY <2>1, <2>2, <2>3 DEF BootInv, Booting, Untouched, madt, cpu, Boots
<1>9. CASE Report
  <2>1. /\ UNCHANGED <<machine, offset, ap, icr>> /\ pc \in {"booted", "failed"} /\ pc' = "clear"
        /\ report' = [report EXCEPT ![cpu] = pc]
    BY <1>9 DEF Report, apVars
  <2>2. \A i : Waiting(i)' => Waiting(i) /\ i # offset
    BY <2>1 DEF Waiting, Boots, madt
  <2>3. \A i \in 1 .. Len(madt) : Waiting(i)' => madt[i].id # cpu
    BY <2>1, <2>2, EntryUnique, CurrentEntry DEF Waiting, Booting, cpu
  <2>4. \A c : c # cpu => report'[c] = report[c]
    BY <2>1
  <2> QED
    BY <2>1, <2>2, <2>3, <2>4 DEF BootInv, Booting, Untouched, madt, cpu, Boots
<1>10. CASE ClearBooted
  <2>1. /\ pc = "clear" /\ pc' = "madt" /\ offset' = offset + 1
        /\ UNCHANGED <<machine, timeout, icr, ap, report>>
    BY <1>10 DEF ClearBooted, EndBootCpu, Goto, apVars
  <2>2. \A i \in 1 .. Len(madt) : Waiting(i)' => Waiting(i)
    BY <1>0, <2>1 DEF Waiting, Boots, madt
  <2> QED
    BY <2>1, <2>2 DEF BootInv, Booting, Untouched, madt
<1> QED
  BY <1>1, <1>2, <1>3, <1>4, <1>5, <1>6, <1>7, <1>8, <1>9, <1>10 DEF BspStep

\* So does every step of the APIC and of the other processors.
LEMMA OtherBoots ==
  ASSUME TypeOK, BootInv, ApicStep \/ \E c \in Cpus : ApStep(c)
  PROVE  BootInv'
<1>1. UNCHANGED <<machine, pc, offset, timeout, report>>
  BY DEF ApicStep, Deliver, Lose, ApStep, LoadStack, smp_kernel_main, IdtInit, IdtShared, Fault,
     ReturnFromIdt, set_booted, bspVars
<1>2. \A i : Waiting(i)' <=> Waiting(i)
  BY <1>1 DEF Waiting, Boots, madt
<1>3. CASE Deliver
  <2>1. icr.pending /\ icr' = Idle /\ UNCHANGED word
    BY <1>3 DEF Deliver, picVars
  <2>2. Booting /\ icr.target = cpu /\ pc \in {"init_pending", "sipi_pending", "resend_pending"}
    BY <2>1 DEF BootInv, Booting
  <2>3. \A c : c # cpu => ap'[c] = ap[c]
    BY <1>3, <2>2 DEF Deliver
  <2>4. \A i \in 1 .. Len(madt) : Waiting(i) => madt[i].id # cpu
    BY <2>2, EntryUnique, CurrentEntry DEF Waiting, cpu
  <2>5. cpu # Bsp
    BY <2>2, CurrentEntry
  <2> QED
    BY <1>1, <1>2, <2>1, <2>2, <2>3, <2>4, <2>5
    DEF BootInv, Booting, Untouched, madt, cpu, Boots, Idle
<1>4. CASE Lose
  BY <1>1, <1>2, <1>4 DEF Lose, Idle, apVars, picVars, BootInv, Booting, Untouched, madt, cpu, Boots
<1>5. ASSUME NEW c \in Cpus, ApStep(c) PROVE BootInv'
  <2>1. icr' = icr
    BY <1>5 DEF ApStep, LoadStack, smp_kernel_main, IdtInit, IdtShared, Fault,
     ReturnFromIdt, set_booted, bspVars
  <2>2. \A d : ap[d] \in {"reset", "up"} => ap'[d] = ap[d]
    <3>1. CASE LoadStack(c)
      BY <3>1 DEF LoadStack
    <3>2. CASE smp_kernel_main(c)
      BY <3>2 DEF smp_kernel_main
    <3>3. CASE IdtInit(c) \/ IdtShared(c)
      BY <3>3 DEF IdtInit, IdtShared, apVars
    <3>4. CASE ReturnFromIdt(c)
      <4>1. ap[c] = "idt" /\ \E to : ap' = [ap EXCEPT ![c] = to]
        BY <3>4 DEF ReturnFromIdt
      <4> QED
        BY <4>1
    <3>5. CASE set_booted(c)
      BY <3>5 DEF set_booted
    <3>6. CASE Fault(c)
      BY <3>6 DEF Fault
    <3> QED
      BY <1>5, <3>1, <3>2, <3>3, <3>4, <3>5, <3>6 DEF ApStep
  <2>3. pc = "kernel_main" => \A p \in Cpus : word'[p] = 0
    <3>1. CASE pc = "kernel_main"
      <4>1. ap[c] \in {"reset", "up"} /\ word[c] = 0
        BY <3>1 DEF BootInv
      <4>2. \A p \in Cpus : word[p] = 0
        BY <3>1 DEF BootInv
      <4> QED
        BY <1>5, <4>1, <4>2 DEF ApStep, LoadStack, smp_kernel_main, IdtInit, Idt!outb, IdtShared,
           Idt!outb_overwritten, Fault, ReturnFromIdt, set_booted, picVars
    <3> QED
      BY <3>1
  <2> QED
    BY <1>1, <1>2, <2>1, <2>2, <2>3 DEF BootInv, Booting, Untouched, madt, cpu, Boots
<1> QED
  BY <1>3, <1>4, <1>5 DEF ApicStep

------------------------------------------------------------------------------
(* The interrupt controllers.                                               *)

\* What each word is.
LEMMA WordTable ==
  /\ Idt!InitWords[1] = Idt!Command("master", 17)
  /\ Idt!InitWords[2] = Idt!Command("slave", 17)
  /\ Idt!InitWords[3] = Idt!Data("master", 32)
  /\ Idt!InitWords[4] = Idt!Data("slave", 40)
  /\ Idt!InitWords[5] = Idt!Data("master", 4)
  /\ Idt!InitWords[6] = Idt!Data("slave", 2)
  /\ Idt!InitWords[7] = Idt!Data("master", 255)
  /\ Idt!InitWords[8] = Idt!Data("slave", 255)
  /\ Idt!InitWords[9] = Idt!Data("slave", 0)
  /\ Idt!InitWords[10] = Idt!Data("master", 0)
  BY DEF Idt!InitWords

Sent(w) == Idt!InitWords[w]

\* What one outb does: the word goes to one controller, the next one is due.
LEMMA OutbEffect ==
  ASSUME Idt!TypeOK, NEW p \in Cpus, Idt!outb(p)
  PROVE  /\ word[p] \in 1 .. 10
         /\ word' = [word EXCEPT ![p] = IF word[p] = 10 THEN 0 ELSE word[p] + 1]
         /\ Sent(word[p]).chip \in Idt!Chips
         /\ \A x \in Idt!Chips :
              chip'[x] = IF x = Sent(word[p]).chip
                         THEN Idt!Receive(chip[x], Sent(word[p]).port, Sent(word[p]).value)
                         ELSE chip[x]
<1>1. word[p] \in 1 .. 10
  BY WordCount DEF Idt!TypeOK, Idt!outb
<1>2. word' = [word EXCEPT ![p] = IF word[p] = 10 THEN 0 ELSE word[p] + 1]
  BY WordCount DEF Idt!outb, Idt!After
<1>3. Sent(word[p]).chip \in Idt!Chips
  BY <1>1, WordType DEF Sent
<1>4. DOMAIN chip = Idt!Chips
  BY DEF Idt!TypeOK
<1>5. chip' = [chip EXCEPT ![Sent(word[p]).chip] =
                 Idt!Receive(chip[Sent(word[p]).chip], Sent(word[p]).port, Sent(word[p]).value)]
  BY DEF Idt!outb, Sent
<1> QED
  BY <1>1, <1>2, <1>3, <1>4, <1>5

\* Each word for a controller's data port is one fewer to come.
LEMMA RemainingStep ==
  ASSUME NEW w \in 1 .. 10, NEW x \in Idt!Chips
  PROVE  /\ Remaining(x, w) \in 0 .. 4 /\ Remaining(x, 11) = 0
         /\ Sent(w).chip = x /\ Sent(w).port = "data" => Remaining(x, w + 1) = Remaining(x, w) - 1
         /\ Sent(w).chip = x /\ Sent(w).port = "command" => Remaining(x, w + 1) = 4
         /\ Sent(w).chip # x => Remaining(x, w + 1) = Remaining(x, w)
<1>1. /\ Sent(w).chip = IF w \in {1, 3, 5, 7, 10} THEN "master" ELSE "slave"
      /\ Sent(w).port = IF w \in {1, 2} THEN "command" ELSE "data"
  <2>1. w = 1 \/ w = 2 \/ w = 3 \/ w = 4 \/ w = 5 \/ w = 6 \/ w = 7 \/ w = 8 \/ w = 9 \/ w = 10
    OBVIOUS
  <2> QED
    BY <2>1, WordTable DEF Sent, Idt!Command, Idt!Data
<1>2. CASE x = "master"
  BY <1>1, <1>2 DEF Remaining
<1>3. CASE x = "slave"
  BY <1>1, <1>3 DEF Remaining
<1> QED
  BY <1>2, <1>3 DEF Idt!Chips

\* A controller that gets a command waits for three bytes; a byte of data is one of
\* those it waits for.
LEMMA NeedStep ==
  ASSUME Idt!TypeOK, NEW p \in Cpus, Idt!outb(p), NEW x \in Idt!Chips, chip[x].expects # "unknown"
  PROVE  /\ Need(x) \in 0 .. 3
         /\ x # Sent(word[p]).chip => Need(x)' = Need(x)
         /\ x = Sent(word[p]).chip /\ Sent(word[p]).port = "command" => Need(x)' = 3
         /\ x = Sent(word[p]).chip /\ Sent(word[p]).port = "data" =>
              Need(x)' = IF Need(x) = 0 THEN 0 ELSE Need(x) - 1
<1>1. chip[x] \in ChipType
  BY DEF Idt!TypeOK, ChipType
<1>2. chip[x].expects \in {"ICW2", "ICW3", "ICW4", "mask"}
  BY <1>1 DEF ChipType
<1>3. Need(x) \in 0 .. 3
  BY <1>2 DEF Need
<1>4. ASSUME x # Sent(word[p]).chip
      PROVE  Need(x)' = Need(x)
  BY <1>4, OutbEffect DEF Need
<1>5. ASSUME x = Sent(word[p]).chip, Sent(word[p]).port = "command"
      PROVE  Need(x)' = 3
  <2>1. chip'[x] = Idt!Receive(chip[x], "command", Sent(word[p]).value)
    BY <1>5, OutbEffect
  <2>2. chip'[x] = [chip[x] EXCEPT !.expects = "ICW2", !.mask = 0]
    BY <2>1, Zenon DEF Idt!Receive
  <2>3. chip'[x].expects = "ICW2"
    BY <1>1, <2>2 DEF ChipType
  <2> QED
    BY <2>3 DEF Need
<1>6. ASSUME x = Sent(word[p]).chip, Sent(word[p]).port = "data"
      PROVE  Need(x)' = IF Need(x) = 0 THEN 0 ELSE Need(x) - 1
  <2>1. chip'[x] = Idt!Receive(chip[x], "data", Sent(word[p]).value)
    BY <1>6, OutbEffect
  <2>2. CASE chip[x].expects = "ICW2"
    <3>1. chip'[x].expects = "ICW3"
      BY <1>1, <2>1, <2>2 DEF Idt!Receive, ChipType
    <3> QED
      BY <2>2, <3>1 DEF Need
  <2>3. CASE chip[x].expects = "ICW3"
    <3>1. chip'[x].expects = "ICW4"
      BY <1>1, <2>1, <2>3 DEF Idt!Receive, ChipType
    <3> QED
      BY <2>3, <3>1 DEF Need
  <2>4. CASE chip[x].expects = "ICW4"
    <3>1. chip'[x].expects = "mask"
      BY <1>1, <2>1, <2>4 DEF Idt!Receive, ChipType
    <3> QED
      BY <2>4, <3>1 DEF Need
  <2>5. CASE chip[x].expects = "mask"
    <3>1. chip'[x].expects = "mask"
      BY <1>1, <2>1, <2>5 DEF Idt!Receive, ChipType
    <3> QED
      BY <2>5, <3>1 DEF Need
  <2> QED
    BY <1>2, <2>2, <2>3, <2>4, <2>5
<1> QED
  BY <1>3, <1>4, <1>5, <1>6

\* A known byte leaves a known controller known.
LEMMA KnownStep ==
  ASSUME Idt!TypeOK, NEW p \in Cpus, Idt!outb(p), NEW x \in Idt!Chips, chip[x].expects # "unknown"
  PROVE  chip'[x].expects # "unknown"
<1>1. chip[x] \in ChipType
  BY DEF Idt!TypeOK, ChipType
<1>2. chip'[x] = chip[x] \/ chip'[x] = Idt!Receive(chip[x], Sent(word[p]).port, Sent(word[p]).value)
  BY OutbEffect
<1>3. \A port, value : Idt!Receive(chip[x], port, value).expects # "unknown"
  BY <1>1 DEF Idt!Receive, ChipType
<1> QED
  BY <1>2, <1>3

\* However the words are mixed, a controller that waits for bytes will get them.
LEMMA OutbPic ==
  ASSUME TypeOK, Served, NEW p \in Cpus, Idt!outb(p), NEW x \in Idt!Chips, Need(x)' > 0
  PROVE  \E q \in Cpus : word'[q] # 0 /\ Remaining(x, word'[q]) >= Need(x)'
<1> DEFINE w == word[p]
<1>1. Idt!TypeOK /\ \A q \in Cpus : word[q] \in 0 .. 10
  BY WordCount DEF TypeOK, Idt!TypeOK
<1>2. w \in 1 .. 10 /\ DOMAIN word = Cpus
  BY <1>1, OutbEffect DEF Idt!TypeOK
<1>3. word'[p] = IF w = 10 THEN 0 ELSE w + 1
  BY <1>1, <1>2, OutbEffect
<1>4. \A q \in Cpus : q # p => word'[q] = word[q]
  BY <1>1, <1>2, OutbEffect
<1>5. Sent(w).port \in {"command", "data"} /\ chip[x].expects # "unknown"
  BY <1>2, WordType DEF Sent, Served
<1>6. CASE x = Sent(w).chip /\ Sent(w).port = "command"
  <2>1. Need(x)' = 3 /\ Remaining(x, w + 1) = 4 /\ Remaining(x, 11) = 0
    BY <1>1, <1>2, <1>5, <1>6, NeedStep, RemainingStep
  <2>2. w # 10
    BY <2>1
  <2> QED
    BY <1>2, <1>3, <2>1, <2>2
<1>7. CASE ~(x = Sent(w).chip /\ Sent(w).port = "command")
  <2>1. /\ Need(x) \in 0 .. 3 /\ Need(x) >= Need(x)' /\ Need(x)' \in 0 .. 3
        /\ x = Sent(w).chip => Need(x)' = Need(x) - 1
    BY <1>1, <1>5, <1>7, NeedStep
  <2>2. PICK q \in Cpus : word[q] # 0 /\ Remaining(x, word[q]) >= Need(x)
    BY <2>1 DEF Served
  <2>3. CASE q # p
    <3>1. Remaining(x, word[q]) \in 0 .. 4
      <4>1. word[q] \in 1 .. 10
        BY <1>1, <2>2
      <4> QED
        BY <4>1, RemainingStep
    <3> QED
      BY <1>4, <2>1, <2>2, <2>3, <3>1
  <2>4. CASE q = p
    <3>1. /\ Remaining(x, w) \in 0 .. 4 /\ Remaining(x, 11) = 0
          /\ Remaining(x, w + 1) = IF x = Sent(w).chip THEN Remaining(x, w) - 1
                                                       ELSE Remaining(x, w)
      BY <1>2, <1>5, <1>7, RemainingStep
    <3>2. Remaining(x, w + 1) >= Need(x)'
      BY <2>1, <2>2, <2>4, <3>1
    <3>3. w # 10
      BY <2>1, <3>1, <3>2
    <3> QED
      BY <1>2, <1>3, <3>2, <3>3
  <2> QED
    BY <2>3, <2>4
<1> QED
  BY <1>6, <1>7

CoreInv == TypeOK /\ BootInv /\ PicInv

\* On a prompt machine no two processors are inside Idt::init.
LEMMA OneInIdt ==
  ASSUME PicInv, OnlyOneInv, NEW p \in Cpus, NEW q \in Cpus, word[p] # 0,
         word[q] # 0 \/ ap[q] = "kernel"
  PROVE  p = q
<1>1. ap[p] = "idt" \/ (p = Bsp /\ pc = "idt")
  BY DEF PicInv
<1>2. ap[q] \in {"idt", "kernel"} \/ (q = Bsp /\ pc = "idt")
  BY DEF PicInv
<1> QED
  BY <1>1, <1>2 DEF OnlyOneInv, OnItsWay

\* So there, and where stacks are distinct, no processor overwrites the calls of another.
LEMMA NoClash ==
  ASSUME PicInv, machine.prompt => OnlyOneInv, OwnStacks, NEW c \in Cpus, NEW d \in Cpus,
         word[c] # 0, word[d] # 0
  PROVE  ~OneStack(c, d)
<1>1. CASE DistinctStacks
  BY <1>1 DEF DistinctStacks, OneStack
<1>2. CASE machine.prompt
  BY <1>2, OneInIdt DEF OneStack
<1> QED
  BY <1>1, <1>2 DEF OwnStacks

\* A processor does not leave its stack.
LEMMA StaysOnStack ==
  ASSUME TypeOK, BootInv, [Next]_vars, NEW c \in Cpus, OnStack(c)
  PROVE  OnStack(c)' /\ stack'[c] = stack[c]
<1>0. DOMAIN ap = Cpus /\ DOMAIN stack = Cpus
  BY DEF TypeOK
<1>1. CASE BspStep \/ Lose \/ UNCHANGED vars
  BY <1>1 DEF BspStep, CallIdt, CallAcpi, SkipEntry, SkipDisabled, CallBootCpu, Return, AllocStack,
     SendIpis, SendFirst, WriteIcr, AwaitIcr, Wait, wait_for_boot, Report, ClearBooted, EndBootCpu,
     bootVars, Lose, vars, apVars, OnStack
<1>2. CASE Deliver
  <2>1. icr.mode = INIT => ap[icr.target] = "reset"
    BY <1>2 DEF Deliver, BootInv
  <2>2. ap[c] \notin {"reset", "wait_for_sipi"}
    BY DEF OnStack
  <2>3. CASE icr.mode = INIT
    <3>1. ap' = [ap EXCEPT ![icr.target] = "wait_for_sipi"] /\ c # icr.target
      BY <1>2, <2>1, <2>2, <2>3 DEF Deliver, INIT, SIPI
    <3> QED
      BY <1>2, <3>1 DEF Deliver, OnStack
  <2>4. CASE icr.mode = SIPI /\ ap[icr.target] = "wait_for_sipi"
    <3>1. ap' = [ap EXCEPT ![icr.target] = "trampoline"] /\ c # icr.target
      BY <1>2, <2>2, <2>4 DEF Deliver, INIT, SIPI
    <3> QED
      BY <1>2, <3>1 DEF Deliver, OnStack
  <2>5. CASE icr.mode # INIT /\ ~(icr.mode = SIPI /\ ap[icr.target] = "wait_for_sipi")
    BY <1>2, <2>5 DEF Deliver, OnStack
  <2> QED
    BY <2>3, <2>4, <2>5
<1>3. ASSUME NEW d \in Cpus, LoadStack(d) PROVE OnStack(c)' /\ stack'[c] = stack[c]
  BY <1>0, <1>3 DEF LoadStack, OnStack
<1>4. ASSUME NEW d \in Cpus, smp_kernel_main(d) \/ IdtInit(d) \/ IdtShared(d)
      PROVE  OnStack(c)' /\ stack'[c] = stack[c]
  BY <1>0, <1>4 DEF smp_kernel_main, IdtInit, IdtShared, apVars, OnStack
<1>5. ASSUME NEW d \in Cpus, Fault(d) \/ ReturnFromIdt(d) \/ set_booted(d)
      PROVE  OnStack(c)' /\ stack'[c] = stack[c]
  BY <1>0, <1>5 DEF Fault, ReturnFromIdt, set_booted, OnStack
<1> QED
  BY <1>1, <1>2, <1>3, <1>4, <1>5 DEF Next, ApicStep, ApStep

\* So stacks that are distinct after a step were so before it.
LEMMA OwnBefore ==
  ASSUME TypeOK, BootInv, [Next]_vars, OwnStacks'
  PROVE  OwnStacks
<1>1. machine' = machine
  BY DEF Next, BspStep, CallIdt, CallAcpi, SkipEntry, SkipDisabled, CallBootCpu, Return, AllocStack,
     SendIpis, SendFirst, WriteIcr, AwaitIcr, Wait, wait_for_boot, Report, ClearBooted, EndBootCpu,
     bootVars, ApicStep, Deliver, Lose, ApStep, LoadStack, smp_kernel_main, IdtInit, IdtShared, Fault,
     ReturnFromIdt, set_booted, bspVars, vars
<1>2. DistinctStacks' => DistinctStacks
  BY StaysOnStack DEF DistinctStacks
<1> QED
  BY <1>1, <1>2 DEF OwnStacks

\* A processor is inside Idt::init only where the code calls it.
Placed == \A p \in Cpus : word[p] # 0 => ap[p] = "idt" \/ (p = Bsp /\ pc = "idt")

\* Every step keeps PicInv.
LEMMA PicInvNext ==
  ASSUME TypeOK, BootInv, PicInv, machine.prompt => OnlyOneInv, [Next]_vars
  PROVE  PicInv'
<1>0. DOMAIN word = Cpus /\ DOMAIN ap = Cpus /\ Placed
  BY DEF TypeOK, Idt!TypeOK, PicInv, Placed
<1> SUFFICES Placed' /\ (OwnStacks /\ Served => Served')
  BY OwnBefore DEF PicInv, Placed
<1>1. ASSUME UNCHANGED <<chip, word>> PROVE Served => Served'
  BY <1>1 DEF Served, Need
<1>2. ASSUME NEW p \in Cpus, word[p] = 0, chip' = chip, word' = [word EXCEPT ![p] = 1]
      PROVE  Served => Served'
  <2>1. \A x : Need(x)' = Need(x)
    BY <1>2 DEF Need
  <2>2. \A q \in Cpus : word[q] # 0 => word'[q] = word[q]
    BY <1>0, <1>2
  <2> QED
    BY <1>2, <2>1, <2>2 DEF Served
<1>3. CASE CallIdt
  <2>1. \A p \in Cpus : word[p] = 0
    BY <1>3 DEF CallIdt, Goto, BootInv
  <2>2. chip' = chip /\ word' = [word EXCEPT ![Bsp] = 1] /\ pc' = "idt"
    BY <1>3 DEF CallIdt, Goto, Idt!Call
  <2>3. Placed'
    BY <2>1, <2>2 DEF Placed
  <2> QED
    BY <1>2, <2>1, <2>2, <2>3, SmpAssumption
<1>4. CASE BspStep /\ ~CallIdt
  <2>1. UNCHANGED <<word, chip, ap>>
    BY <1>4 DEF BspStep, CallAcpi, SkipEntry, SkipDisabled, CallBootCpu, Return, AllocStack, SendIpis,
       SendFirst, WriteIcr, AwaitIcr, Wait, wait_for_boot, Report, ClearBooted, EndBootCpu, bootVars,
       vars, apVars, picVars
  <2>2. CASE CallAcpi
    <3>1. word[Bsp] = 0
      BY <2>2 DEF CallAcpi
    <3> QED
      BY <1>0, <1>1, <2>1, <3>1 DEF Placed
  <2>3. CASE ~CallAcpi
    <3>1. pc = "idt" => pc' = "idt"
      BY <1>4, <2>3 DEF BspStep, SkipEntry, AtEntry, SkipDisabled, CallBootCpu, Return, AllocStack, SendIpis,
         SendFirst, WriteIcr, AwaitIcr, Wait, wait_for_boot, Report, ClearBooted, EndBootCpu, Goto, vars
    <3> QED
      BY <1>0, <1>1, <2>1, <3>1 DEF Placed
  <2> QED
    BY <2>2, <2>3
<1>5. CASE ApicStep
  <2>1. UNCHANGED <<word, chip, pc>>
    BY <1>5 DEF ApicStep, Deliver, Lose, picVars
  <2>2. \A p : ap[p] = "idt" => ap'[p] = "idt"
    <3>1. CASE Deliver /\ icr.mode = INIT
      <4>1. icr.pending /\ icr.target = cpu /\ ap[cpu] = "reset"
        BY <3>1 DEF Deliver, BootInv
      <4>2. ap' = [ap EXCEPT ![icr.target] = "wait_for_sipi"]
        BY <3>1 DEF Deliver, INIT, SIPI
      <4> QED
        BY <4>1, <4>2
    <3>2. CASE Deliver /\ icr.mode # INIT
      <4>1. CASE icr.mode = SIPI /\ ap[icr.target] = "wait_for_sipi"
        <5>1. ap' = [ap EXCEPT ![icr.target] = "trampoline"]
          BY <3>2, <4>1 DEF Deliver
        <5> QED
          BY <4>1, <5>1
      <4>2. CASE ~(icr.mode = SIPI /\ ap[icr.target] = "wait_for_sipi")
        BY <3>2, <4>2 DEF Deliver
      <4> QED
        BY <4>1, <4>2
    <3>3. CASE Lose
      BY <3>3 DEF Lose, apVars
    <3> QED
      BY <1>5, <3>1, <3>2, <3>3 DEF ApicStep
  <2> QED
    BY <1>0, <1>1, <2>1, <2>2 DEF Placed
<1>6. ASSUME NEW c \in Cpus, LoadStack(c) \/ ReturnFromIdt(c) \/ set_booted(c)
      PROVE  Placed' /\ (Served => Served')
  <2>1. UNCHANGED <<word, chip, pc>> /\ \E to : ap' = [ap EXCEPT ![c] = to]
    BY <1>6 DEF LoadStack, ReturnFromIdt, set_booted, bspVars, picVars
  <2>2. word[c] = 0
    BY <1>0, <1>6 DEF LoadStack, ReturnFromIdt, set_booted, Placed, BootInv
  <2>3. Placed'
    BY <1>0, <2>1, <2>2 DEF Placed
  <2> QED
    BY <1>1, <2>1, <2>3
<1>7. ASSUME NEW c \in Cpus, smp_kernel_main(c) PROVE Placed' /\ (Served => Served')
  <2>1. /\ chip' = chip /\ word' = [word EXCEPT ![c] = 1] /\ pc' = pc
        /\ ap[c] = "kernel" /\ ap' = [ap EXCEPT ![c] = "idt"]
    BY <1>7 DEF smp_kernel_main, bspVars, Idt!Call
  <2>2. word[c] = 0
    BY <1>0, <2>1 DEF Placed, BootInv
  <2>3. Placed'
    BY <1>0, <2>1 DEF Placed
  <2> QED
    BY <1>2, <2>1, <2>2, <2>3
<1>8. ASSUME NEW c \in Cpus, IdtInit(c) PROVE Placed' /\ (Served => Served')
  <2>1. Idt!outb(c) /\ UNCHANGED <<pc, ap>> /\ Idt!TypeOK
    BY <1>8 DEF IdtInit, bspVars, apVars, TypeOK
  <2>2. \A p \in Cpus : word'[p] # 0 => word[p] # 0
    BY <1>0, <2>1, OutbEffect
  <2>3. Placed'
    BY <1>0, <2>1, <2>2 DEF Placed
  <2>4. Served => Served'
    BY <2>1, OutbPic, KnownStep DEF Served
  <2> QED
    BY <2>3, <2>4
<1>9. ASSUME NEW c \in Cpus, IdtShared(c) PROVE Placed' /\ ~OwnStacks
  <2>1. PICK d \in Cpus : OneStack(c, d) /\ Idt!outb_overwritten(c, d)
    BY <1>9 DEF IdtShared
  <2>2. UNCHANGED <<pc, ap>> /\ word[c] # 0 /\ word[d] # 0
    BY <1>0, <1>9, <2>1 DEF IdtShared, Idt!outb_overwritten, bspVars, apVars, TypeOK, Idt!TypeOK
  <2>3. \A p \in Cpus : word'[p] # 0 => word[p] # 0
    BY <1>0, <2>1, <2>2 DEF Idt!outb_overwritten
  <2>4. ~OwnStacks
    BY <2>1, <2>2, NoClash
  <2> QED
    BY <1>0, <2>2, <2>3, <2>4 DEF Placed
<1>10. ASSUME NEW c \in Cpus, Fault(c) PROVE Placed' /\ (OwnStacks /\ Served => Served')
  <2>1. UNCHANGED <<pc, chip>> /\ ap' = [ap EXCEPT ![c] = "fault"] /\ word' = [word EXCEPT ![c] = 0]
    BY <1>10 DEF Fault, bspVars, Idt!Leave
  <2>2. Placed'
    BY <1>0, <2>1 DEF Placed
  <2>3. ASSUME OwnStacks PROVE word[c] = 0
    <3>1. ~\E d \in Cpus : word[c] # 0 /\ OneStack(c, d) /\ word[d] # 0
      BY <2>3, NoClash
    <3>2. ap[c] = "kernel"
      BY <1>10, <3>1 DEF Fault
    <3> QED
      BY <1>0, <3>2 DEF Placed, BootInv
  <2>4. OwnStacks => word' = word
    BY <1>0, <2>1, <2>3 DEF TypeOK, Idt!TypeOK
  <2> QED
    BY <1>1, <2>1, <2>2, <2>4
<1>11. CASE UNCHANGED vars
  BY <1>0, <1>1, <1>11 DEF vars, picVars, apVars, Placed
<1> QED
  BY <1>3, <1>4, <1>5, <1>6, <1>7, <1>8, <1>9, <1>10, <1>11 DEF Next, ApStep

\* The firmware's controllers are ready, and no processor has a word to send.
LEMMA SmpInit == Init => TypeOK /\ BootInv /\ PicInv
<1> SUFFICES ASSUME Init PROVE TypeOK /\ BootInv /\ PicInv
  OBVIOUS
<1>1. Len(madt) \in Nat
  BY MadtType DEF Init
<1>2. Idt!TypeOK
  <2>1. chip \in [Idt!Chips -> ChipType]
    <3>1. \A x \in Idt!Chips :
            [expects |-> "mask", base |-> IF x = "master" THEN 8 ELSE 112,
             cascade |-> IF x = "master" THEN 4 ELSE 2, mask |-> 255] \in ChipType
      BY DEF ChipType
    <3> QED
      BY <3>1 DEF Init, Idt!Init
  <2>2. word \in [Cpus -> 0 .. Len(Idt!InitWords)]
    BY WordCount DEF Init, Idt!Init
  <2> QED
    BY <2>1, <2>2 DEF Idt!TypeOK, ChipType
<1>3. TypeOK
  <2>1. /\ machine \in Machines /\ offset \in 1 .. Len(madt) + 1 /\ timeout \in 0 .. Timeout
        /\ trampoline_stack \in 0 .. Frames /\ stack \in [Cpus -> 0 .. Frames]
    BY <1>1, SmpAssumption DEF Init
  <2>2. trampoline_booted \in BOOLEAN
    BY DEF Init
  <2>3. ap \in [Cpus -> ApStates] /\ returns \in [0 .. Frames -> {"set_booted", "loop"}]
    BY DEF Init, ApStates
  <2>4. pushed \in [Cpus -> SUBSET (-1 .. Frames)] /\ report \in [Cpus -> {"none", "booted", "failed"}]
    BY DEF Init
  <2>5. icr = Idle /\ pc = "kernel_main"
    BY DEF Init
  <2> QED
    BY <1>2, <2>1, <2>2, <2>3, <2>4, <2>5 DEF TypeOK, ApStates
<1>4. BootInv
  <2>1. /\ pc = "kernel_main" /\ ~icr.pending
        /\ \A c \in Cpus : word[c] = 0 /\ report[c] = "none"
                         /\ ap[c] = IF c = Bsp THEN "up" ELSE "reset"
    BY DEF Init, Idt!Init, Idle
  <2>2. \A i \in 1 .. Len(madt) : Boots(i) => madt[i].id \in Cpus /\ madt[i].id # Bsp
    BY <1>3, EntryType DEF TypeOK, Boots
  <2> QED
    BY <2>1, <2>2, SmpAssumption DEF BootInv, Booting, Waiting, Untouched
<1>5. \A x \in Idt!Chips : Need(x) = 0 /\ chip[x].expects # "unknown"
  BY DEF Init, Idt!Init, Need
<1>6. PicInv
  BY <1>5 DEF Init, Idt!Init, PicInv, Served
<1> QED
  BY <1>3, <1>4, <1>6

\* Together they are inductive, as long as prompt machines have one processor on its way.
LEMMA SmpNext ==
  ASSUME CoreInv, machine.prompt => OnlyOneInv, [Next]_vars
  PROVE  CoreInv'
<1> USE DEF CoreInv
<1>1. CASE UNCHANGED vars
  <2>1. Idt!TypeOK'
    BY <1>1, PicUnchanged DEF vars
  <2>2. TypeOK'
    BY <1>1, <2>1 DEF TypeOK, vars, shared, pages, apVars, madt
  <2>3. BootInv'
    BY <1>1 DEF vars, shared, apVars, picVars, BootInv, Booting, Waiting, Boots, Untouched, madt, cpu
  <2> QED
    BY <2>2, <2>3, PicInvNext
<1>2. CASE Next
  <2>1. TypeOK'
    BY <1>2, BspTypes, OtherTypes DEF Next
  <2>2. BootInv'
    BY <1>2, BspBoots, OtherBoots DEF Next
  <2> QED
    BY <2>1, <2>2, PicInvNext
<1> QED
  BY <1>1, <1>2

------------------------------------------------------------------------------
(* Prompt machines.                                                         *)

\* Processors whose state stays as it is, while boot_cpu goes from one place to
\* another, stay as OnlyOneInv, FlagInv and ReportInv say.
LEMMA BspPrompt ==
  ASSUME CoreInv, machine.prompt, OnlyOneInv, FlagInv, ReportInv, ReturnInv, BspStep
  PROVE  OnlyOneInv' /\ FlagInv' /\ ReportInv' /\ ReturnInv'
<1>0. UNCHANGED <<ap, stack, returns>> /\ DOMAIN report = Cpus
  BY DEF BspStep, CallIdt, CallAcpi, SkipEntry, SkipDisabled, CallBootCpu, Return, AllocStack, SendIpis,
     SendFirst, WriteIcr, AwaitIcr, Wait, wait_for_boot, Report, ClearBooted, EndBootCpu, bootVars,
     vars, apVars, CoreInv, TypeOK
<1>1. CASE CallIdt \/ CallAcpi \/ Return \/ SkipEntry \/ SkipDisabled
  <2>1. /\ pc \in {"kernel_main", "idt", "madt"} /\ pc' \in {"idt", "madt", "returned"}
        /\ UNCHANGED <<trampoline_booted, report>>
    BY <1>1 DEF CallIdt, CallAcpi, Return, SkipEntry, SkipDisabled, AtEntry, Goto, shared, vars
  <2> QED
    BY <1>0, <2>1 DEF OnlyOneInv, FlagInv, ReportInv, ReturnInv, OnItsWay, Booting
<1>2. CASE CallBootCpu
  <2>1. /\ pc = "madt" /\ pc' = "stack" /\ UNCHANGED <<machine, offset, trampoline_booted, report>>
        /\ Boots(offset) /\ offset <= Len(madt)
    BY <1>2 DEF CallBootCpu, AtEntry, Goto, shared, Boots, cpu
  <2>2. ap[cpu] = "reset"
    <3>1. Len(madt) \in Nat /\ offset \in 1 .. Len(madt)
      BY <2>1, MadtType DEF CoreInv, TypeOK
    <3>2. Waiting(offset)
      BY <2>1, <3>1 DEF Waiting
    <3> QED
      BY <3>1, <3>2 DEF CoreInv, BootInv, Untouched, cpu
  <2>3. cpu' = cpu
    BY <2>1 DEF cpu, madt
  <2> QED
    BY <1>0, <2>1, <2>2, <2>3 DEF OnlyOneInv, FlagInv, ReportInv, ReturnInv, OnItsWay, Booting
<1>3. CASE AllocStack \/ SendIpis
  <2>1. UNCHANGED <<machine, offset, trampoline_booted, report>>
    BY <1>3 DEF AllocStack, SendIpis, SendFirst, WriteIcr, AwaitIcr, shared, bootVars
  <2>2. \/ pc \in {"stack", "init", "init_pending"} /\ pc' \in {"init", "init_pending", "sipi"}
        \/ pc = "sipi" /\ pc' = "sipi_pending"
        \/ pc \in {"sipi_pending", "resend_pending"} /\ pc' \in {"wait", "wait_again"}
        \/ pc = "resend" /\ pc' = "resend_pending"
    BY <1>3 DEF AllocStack, SendIpis, SendFirst, WriteIcr, AwaitIcr, Goto
  <2>3. cpu' = cpu
    BY <2>1 DEF cpu, madt
  <2> QED
    BY <1>0, <2>1, <2>2, <2>3 DEF OnlyOneInv, FlagInv, ReportInv, ReturnInv, OnItsWay, Booting
<1>4. CASE Wait
  <2>1. UNCHANGED <<machine, offset, trampoline_booted, report>>
    BY <1>4 DEF Wait, wait_for_boot, shared, bootVars
  <2>2. cpu' = cpu
    BY <2>1 DEF cpu, madt
  <2>3. \/ trampoline_booted /\ pc = "wait" /\ pc' = "wait_again"
        \/ trampoline_booted /\ pc = "wait_again" /\ pc' = "booted"
        \/ ~trampoline_booted /\ pc \in {"wait", "wait_again"} /\ pc' = pc
        \/ ~trampoline_booted /\ ~InFlight /\ pc \in {"wait", "wait_again"}
           /\ pc' \in {"resend", "failed"}
    BY <1>4 DEF Wait, wait_for_boot
  <2>4. cpu \in Cpus
    BY <2>3, CurrentEntry DEF CoreInv, Booting
  <2>5. OnlyOneInv'
    BY <1>0, <2>2, <2>3, <2>4 DEF OnlyOneInv, FlagInv, OnItsWay, InFlight
  <2> QED
    BY <1>0, <2>1, <2>2, <2>3, <2>5 DEF FlagInv, ReportInv, ReturnInv, Booting
<1>5. CASE Report
  <2>1. /\ pc \in {"booted", "failed"} /\ pc' = "clear"
        /\ report' = [report EXCEPT ![cpu] = pc]
        /\ UNCHANGED <<machine, offset, trampoline_booted>>
    BY <1>5 DEF Report, shared
  <2>2. cpu' = cpu
    BY <2>1 DEF cpu, madt
  <2>3. cpu \in Cpus /\ Booting
    BY <2>1, CurrentEntry DEF CoreInv, Booting
  <2>4. pc = "failed" => ap[cpu] \in {"reset", "wait_for_sipi", "fault"}
    BY <2>1, <2>3 DEF CoreInv, TypeOK, OnlyOneInv, OnItsWay, FlagInv
  <2>5. pc = "booted" => ap[cpu] = "up"
    BY DEF FlagInv
  <2>6. ReportInv'
    BY <1>0, <2>1, <2>4, <2>5 DEF ReportInv
  <2> QED
    BY <1>0, <2>1, <2>2, <2>3, <2>6 DEF OnlyOneInv, OnItsWay, FlagInv, ReturnInv, Booting
<1>6. CASE ClearBooted
  <2>1. pc = "clear" /\ pc' = "madt" /\ trampoline_booted' = FALSE /\ UNCHANGED report
    BY <1>6 DEF ClearBooted, EndBootCpu, Goto
  <2> QED
    BY <1>0, <2>1 DEF OnlyOneInv, OnItsWay, FlagInv, ReportInv, ReturnInv, Booting
<1> QED
  BY <1>1, <1>2, <1>3, <1>4, <1>5, <1>6 DEF BspStep

\* The commands move the processor being booted on, and it moves on by itself.
LEMMA OtherPrompt ==
  ASSUME CoreInv, machine.prompt, OnlyOneInv, FlagInv, ReportInv, ReturnInv,
         ApicStep \/ \E c \in Cpus : ApStep(c)
  PROVE  OnlyOneInv' /\ FlagInv' /\ ReportInv' /\ ReturnInv'
<1>0. /\ UNCHANGED <<machine, pc, offset, report>> /\ DOMAIN ap = Cpus
  BY DEF ApicStep, Deliver, Lose, ApStep, LoadStack, smp_kernel_main, IdtInit, IdtShared, Fault,
     ReturnFromIdt, set_booted, bspVars,
     CoreInv, TypeOK
<1>1. cpu' = cpu /\ Booting' = Booting
  BY <1>0 DEF cpu, madt, Booting
<1>2. CASE Deliver
  <2>1. icr.pending /\ UNCHANGED <<trampoline_booted, stack, returns>>
    BY <1>2 DEF Deliver, shared
  <2>2. Booting /\ icr.target = cpu /\ pc \in {"init_pending", "sipi_pending", "resend_pending"}
    BY <2>1 DEF CoreInv, BootInv, Booting
  <2>3. cpu \in Cpus /\ report[cpu] = "none"
    BY <2>2, CurrentEntry DEF CoreInv, BootInv
  <2>4. CASE icr.mode = INIT
    <3>1. ap[cpu] = "reset" /\ ap' = [ap EXCEPT ![cpu] = "wait_for_sipi"]
      BY <1>2, <2>1, <2>2, <2>4 DEF Deliver, INIT, SIPI, CoreInv, BootInv
    <3> QED
      BY <1>0, <1>1, <2>1, <2>2, <2>3, <3>1 DEF OnlyOneInv, OnItsWay, FlagInv, ReportInv, ReturnInv
  <2>5. CASE icr.mode # INIT /\ ap[cpu] = "wait_for_sipi" /\ icr.mode = SIPI
    <3>1. pc \in {"sipi_pending", "resend_pending"}
      BY <2>1, <2>2, <2>5 DEF CoreInv, BootInv
    <3>2. ap' = [ap EXCEPT ![cpu] = "trampoline"]
      BY <1>2, <2>2, <2>5 DEF Deliver, INIT, SIPI
    <3> QED
      BY <1>0, <1>1, <2>1, <2>2, <2>3, <2>5, <3>1, <3>2 DEF OnlyOneInv, OnItsWay, FlagInv, ReportInv, ReturnInv
  <2>6. CASE icr.mode # INIT /\ ~(ap[cpu] = "wait_for_sipi" /\ icr.mode = SIPI)
    <3>1. ap' = ap
      BY <1>2, <2>2, <2>6 DEF Deliver
    <3> QED
      BY <1>0, <1>1, <2>1, <3>1 DEF OnlyOneInv, OnItsWay, FlagInv, ReportInv, ReturnInv
  <2> QED
    BY <2>4, <2>5, <2>6
<1>3. CASE Lose
  BY <1>0, <1>1, <1>3 DEF Lose, shared, apVars, OnlyOneInv, OnItsWay, FlagInv, ReportInv, ReturnInv
<1>4. ASSUME NEW c \in Cpus, NEW to, OnItsWay(c), ap' = [ap EXCEPT ![c] = to], ReturnInv',
             \/ to \in {"kernel", "idt", "set_booted", "fault"}
                /\ trampoline_booted' = trampoline_booted
             \/ to = "up" /\ trampoline_booted' = TRUE
      PROVE  OnlyOneInv' /\ FlagInv' /\ ReportInv' /\ ReturnInv'
  <2>1. c = cpu /\ pc \in {"sipi_pending", "wait", "resend_pending", "wait_again"}
    BY <1>4 DEF OnlyOneInv
  <2>2. report[cpu] = "none" /\ Booting
    BY <2>1 DEF CoreInv, BootInv, Booting
  <2>3. \A d \in Cpus : d # cpu => ap'[d] = ap[d]
    BY <1>4, <2>1
  <2>4. ap'[cpu] = to
    BY <1>0, <1>4, <2>1
  <2>5. OnlyOneInv'
    BY <1>0, <1>1, <2>1, <2>3 DEF OnlyOneInv, OnItsWay
  <2>6. FlagInv'
    BY <1>0, <1>1, <1>4, <2>1, <2>4 DEF FlagInv, OnItsWay
  <2>7. ReportInv'
    BY <1>0, <2>2, <2>3 DEF ReportInv
  <2> QED
    BY <1>4, <2>5, <2>6, <2>7
<1>5. ASSUME NEW c \in Cpus, IdtInit(c) \/ IdtShared(c)
      PROVE  OnlyOneInv' /\ FlagInv' /\ ReportInv' /\ ReturnInv'
  BY <1>0, <1>1, <1>5
  DEF IdtInit, IdtShared, apVars, OnlyOneInv, OnItsWay, FlagInv, ReportInv, ReturnInv
<1>6. ASSUME NEW c \in Cpus,
             LoadStack(c) \/ smp_kernel_main(c) \/ ReturnFromIdt(c) \/ set_booted(c) \/ Fault(c)
      PROVE  OnlyOneInv' /\ FlagInv' /\ ReportInv' /\ ReturnInv'
  <2>1. OnItsWay(c)
    BY <1>6 DEF LoadStack, smp_kernel_main, ReturnFromIdt, set_booted, Fault, OnItsWay
  <2>2. \A d \in Cpus : d # c => ~OnItsWay(d)
    BY <2>1 DEF OnlyOneInv
  <2>3. PICK to : /\ ap' = [ap EXCEPT ![c] = to]
                  /\ \/ to \in {"kernel", "idt", "set_booted", "fault"}
                        /\ trampoline_booted' = trampoline_booted
                     \/ to = "up" /\ trampoline_booted' = TRUE
    BY <1>6 DEF LoadStack, smp_kernel_main, ReturnFromIdt, set_booted, Fault, ReturnInv
  <2>4. stack[c] \in 0 .. Frames /\ DOMAIN returns = 0 .. Frames
    BY DEF CoreInv, TypeOK
  <2>5. /\ ap'[c] = "idt" => returns'[stack'[c]] = "set_booted"
        /\ ap'[c] = "set_booted" => returns'[stack'[c]] = "loop"
    BY <1>0, <1>6, <2>4 DEF LoadStack, smp_kernel_main, ReturnFromIdt, set_booted, Fault
  <2>6. \A d \in Cpus : d # c => ap'[d] \notin {"idt", "set_booted"}
    BY <2>2, <2>3 DEF OnItsWay
  <2>7. ReturnInv'
    BY <2>5, <2>6 DEF ReturnInv
  <2> QED
    BY <1>4, <2>1, <2>3, <2>7
<1> QED
  BY <1>2, <1>3, <1>5, <1>6 DEF ApicStep, ApStep

\* The controllers after each word, when one processor alone sends them.
LEMMA AloneStep ==
  ASSUME Idt!TypeOK, NEW p \in Cpus, Idt!outb(p), NEW w \in 1 .. 10, word[p] = w, Alone(w)
  PROVE  IF w = 10 THEN Idt!Remapped' ELSE Alone(w + 1)'
<1> DEFINE M == chip["master"]
           S == chip["slave"]
<1>1. M \in ChipType /\ S \in ChipType
  BY DEF Idt!TypeOK, ChipType, Idt!Chips
<1>2. /\ chip'["master"] = IF Sent(w).chip = "master"
                           THEN Idt!Receive(M, Sent(w).port, Sent(w).value) ELSE M
      /\ chip'["slave"] = IF Sent(w).chip = "slave"
                          THEN Idt!Receive(S, Sent(w).port, Sent(w).value) ELSE S
  BY OutbEffect DEF Idt!Chips
<1>3. CASE w = 1
  <2>0. M.expects = "mask"
    BY <1>3 DEF Alone, Expects
  <2>1. chip'["master"].expects = "ICW2" /\ chip'["slave"] = S
    BY <1>1, <1>2, <1>3, <2>0, WordTable, Received DEF Sent, Idt!Command
  <2> QED
    BY <1>3, <2>1 DEF Alone, Expects
<1>4. CASE w = 2
  <2>0. S.expects = "mask"
    BY <1>4 DEF Alone, Expects
  <2>1. chip'["slave"].expects = "ICW2" /\ chip'["master"] = M
    BY <1>1, <1>2, <1>4, <2>0, WordTable, Received DEF Sent, Idt!Command
  <2> QED
    BY <1>4, <2>1 DEF Alone, Expects
<1>5. CASE w = 3
  <2>1. M.expects = "ICW2"
    BY <1>5 DEF Alone, Expects
  <2>2. chip'["master"].expects = "ICW3" /\ chip'["master"].base = 32 /\ chip'["slave"] = S
    BY <1>1, <1>2, <1>5, <2>1, WordTable, Received DEF Sent, Idt!Data
  <2> QED
    BY <1>5, <2>2 DEF Alone, Expects
<1>6. CASE w = 4
  <2>1. S.expects = "ICW2"
    BY <1>6 DEF Alone, Expects
  <2>2. chip'["slave"].expects = "ICW3" /\ chip'["slave"].base = 40 /\ chip'["master"] = M
    BY <1>1, <1>2, <1>6, <2>1, WordTable, Received DEF Sent, Idt!Data
  <2> QED
    BY <1>6, <2>2 DEF Alone, Expects
<1>7. CASE w = 5
  <2>1. M.expects = "ICW3"
    BY <1>7 DEF Alone, Expects
  <2>2. /\ chip'["master"].expects = "ICW4" /\ chip'["master"].cascade = 4
        /\ chip'["master"].base = M.base /\ chip'["slave"] = S
    BY <1>1, <1>2, <1>7, <2>1, WordTable, Received DEF Sent, Idt!Data
  <2> QED
    BY <1>7, <2>2 DEF Alone, Expects
<1>8. CASE w = 6
  <2>1. S.expects = "ICW3"
    BY <1>8 DEF Alone, Expects
  <2>2. /\ chip'["slave"].expects = "ICW4" /\ chip'["slave"].cascade = 2
        /\ chip'["slave"].base = S.base /\ chip'["master"] = M
    BY <1>1, <1>2, <1>8, <2>1, WordTable, Received DEF Sent, Idt!Data
  <2> QED
    BY <1>8, <2>2 DEF Alone, Expects
<1>9. CASE w = 7
  <2>1. M.expects = "ICW4"
    BY <1>9 DEF Alone, Expects
  <2>2. /\ chip'["master"].expects = "mask" /\ chip'["master"].cascade = M.cascade
        /\ chip'["master"].base = M.base /\ chip'["slave"] = S
    BY <1>1, <1>2, <1>9, <2>1, WordTable, Received DEF Sent, Idt!Data
  <2> QED
    BY <1>9, <2>2 DEF Alone, Expects
<1>10. CASE w = 8
  <2>1. S.expects = "ICW4"
    BY <1>10 DEF Alone, Expects
  <2>2. /\ chip'["slave"].expects = "mask" /\ chip'["slave"].cascade = S.cascade
        /\ chip'["slave"].base = S.base /\ chip'["master"] = M
    BY <1>1, <1>2, <1>10, <2>1, WordTable, Received DEF Sent, Idt!Data
  <2> QED
    BY <1>10, <2>2 DEF Alone, Expects
<1>11. CASE w = 9
  <2>1. S.expects = "mask"
    BY <1>11 DEF Alone, Expects
  <2>2. /\ chip'["slave"].expects = "mask" /\ chip'["slave"].cascade = S.cascade
        /\ chip'["slave"].base = S.base /\ chip'["master"] = M
    BY <1>1, <1>2, <1>11, <2>1, WordTable, Received DEF Sent, Idt!Data
  <2> QED
    BY <1>11, <2>2 DEF Alone, Expects
<1>12. CASE w = 10
  <2>1. M.expects = "mask"
    BY <1>12 DEF Alone, Expects
  <2>2. /\ chip'["master"].cascade = M.cascade
        /\ chip'["master"].base = M.base /\ chip'["slave"] = S
    BY <1>1, <1>2, <1>12, <2>1, WordTable, Received DEF Sent, Idt!Data
  <2> QED
    BY <1>12, <2>2 DEF Alone, Idt!Remapped
<1> QED
  BY <1>3, <1>4, <1>5, <1>6, <1>7, <1>8, <1>9, <1>10, <1>11, <1>12

\* When nobody is inside Idt::init the controllers take the first word as one.
LEMMA QuietAlone ==
  ASSUME CoreInv, OwnStacks, \A p \in Cpus : word[p] = 0
  PROVE  Alone(1)
<1>1. \A x \in Idt!Chips : ~(Need(x) > 0) /\ chip[x].expects \in {"ICW2", "ICW3", "ICW4", "mask"}
  BY DEF CoreInv, PicInv, Served, TypeOK, Idt!TypeOK
<1>2. \A x \in Idt!Chips : chip[x].expects = "mask"
  BY <1>1 DEF Need
<1> QED
  BY <1>2 DEF Alone, Expects, Idt!Chips

\* So they leave the controllers remapped.
LEMMA RemapNext ==
  ASSUME CoreInv, machine.prompt, OnlyOneInv, RemapInv, [Next]_vars
  PROVE  RemapInv'
<1>0. DOMAIN word = Cpus
  BY DEF CoreInv, TypeOK, Idt!TypeOK
<1>1. ASSUME UNCHANGED <<chip, word>>, pc = "kernel_main" => pc' = pc
      PROVE  RemapInv'
  BY <1>1 DEF RemapInv, Alone, Expects, Idt!Quiet, Idt!Remapped
<1>2. ASSUME NEW c \in Cpus, chip' = chip, word' = [word EXCEPT ![c] = 1],
             \A p \in Cpus : word[p] = 0
      PROVE  RemapInv'
  <2>1. Alone(1)'
    BY <1>2, QuietAlone DEF Alone, Expects, OwnStacks
  <2>2. \A p \in Cpus : word'[p] = IF p = c THEN 1 ELSE 0
    BY <1>0, <1>2
  <2>3. \A p \in Cpus : word'[p] # 0 => Alone(word[p])'
    BY <2>1, <2>2
  <2> QED
    BY <2>2, <2>3 DEF RemapInv, Idt!Quiet
<1>3. CASE CallIdt
  <2>1. (\A p \in Cpus : word[p] = 0) /\ chip' = chip /\ word' = [word EXCEPT ![Bsp] = 1]
    BY <1>3 DEF CallIdt, Goto, CoreInv, BootInv, Idt!Call
  <2> QED
    BY <1>2, <2>1, SmpAssumption
<1>4. CASE BspStep /\ ~CallIdt
  <2>1. UNCHANGED <<word, chip>> /\ (pc = "kernel_main" => pc' = pc)
    BY <1>4 DEF BspStep, CallAcpi, SkipEntry, SkipDisabled, CallBootCpu, Return, AllocStack, SendIpis,
       SendFirst, WriteIcr, AwaitIcr, Wait, wait_for_boot, Report, ClearBooted, EndBootCpu, bootVars,
       vars, picVars, AtEntry, Goto
  <2> QED
    BY <1>1, <2>1
<1>5. CASE ApicStep
  BY <1>1, <1>5 DEF ApicStep, Deliver, Lose, picVars
<1>6. ASSUME NEW c \in Cpus, LoadStack(c) \/ ReturnFromIdt(c) \/ set_booted(c) PROVE RemapInv'
  BY <1>1, <1>6 DEF LoadStack, ReturnFromIdt, set_booted, picVars, bspVars
<1>7. ASSUME NEW c \in Cpus, smp_kernel_main(c) PROVE RemapInv'
  <2>1. chip' = chip /\ word' = [word EXCEPT ![c] = 1] /\ ap[c] = "kernel"
    BY <1>7 DEF smp_kernel_main, Idt!Call
  <2>2. word[c] = 0
    BY <2>1 DEF CoreInv, PicInv, BootInv
  <2>3. \A p \in Cpus : word[p] = 0
    BY <2>1, <2>2, OneInIdt DEF CoreInv
  <2> QED
    BY <1>2, <2>1, <2>3
<1>8. ASSUME NEW c \in Cpus, IdtInit(c) PROVE RemapInv'
  <2>1. Idt!outb(c) /\ pc' = pc /\ Idt!TypeOK
    BY <1>8 DEF IdtInit, bspVars, CoreInv, TypeOK
  <2>2. word[c] \in 1 .. 10 /\ word'[c] = IF word[c] = 10 THEN 0 ELSE word[c] + 1
    BY <1>0, <2>1, OutbEffect
  <2>3. \A p \in Cpus : p # c => word'[p] = 0
    <3>1. \A p \in Cpus : p # c => word[p] = 0
      BY <2>2, OneInIdt DEF CoreInv
    <3> QED
      BY <1>0, <2>1, <3>1, OutbEffect
  <2>4. PICK w \in 1 .. 10 : word[c] = w
    BY <2>2
  <2>5. Alone(w)
    BY <2>4 DEF RemapInv
  <2>6. IF w = 10 THEN Idt!Remapped' ELSE Alone(w + 1)'
    BY <2>1, <2>4, <2>5, AloneStep
  <2>7. CASE w = 10
    BY <2>2, <2>3, <2>4, <2>6, <2>7 DEF RemapInv
  <2>8. CASE w # 10
    <3>1. word'[c] = w + 1
      BY <2>2, <2>4, <2>8
    <3>2. \A p \in Cpus : word'[p] # 0 => Alone(word[p])'
      BY <2>3, <2>6, <2>8, <3>1
    <3>3. ~Idt!Quiet'
      BY <3>1 DEF Idt!Quiet
    <3> QED
      BY <3>2, <3>3 DEF RemapInv
  <2> QED
    BY <2>7, <2>8
<1>9. CASE UNCHANGED vars
  BY <1>1, <1>9 DEF vars, picVars
<1>10. ASSUME NEW c \in Cpus PROVE ~IdtShared(c)
  <2>1. ASSUME NEW d \in Cpus, OneStack(c, d), Idt!outb_overwritten(c, d) PROVE FALSE
    <3>1. word[c] # 0 /\ word[d] # 0
      BY <2>1 DEF Idt!outb_overwritten, CoreInv, TypeOK, Idt!TypeOK
    <3> QED
      BY <2>1, <3>1, NoClash DEF CoreInv, OwnStacks
  <2> QED
    BY <2>1 DEF IdtShared
<1>11. ASSUME NEW c \in Cpus, Fault(c) PROVE RemapInv'
  <2>1. ap[c] = "kernel"
    BY <1>11, NoClash DEF Fault, CoreInv, OwnStacks
  <2>2. word[c] = 0
    BY <2>1 DEF CoreInv, PicInv, BootInv
  <2>3. UNCHANGED <<chip, word, pc>>
    BY <1>0, <1>11, <2>2 DEF Fault, Idt!Leave, bspVars, CoreInv, TypeOK, Idt!TypeOK
  <2> QED
    BY <1>1, <2>3
<1> QED
  BY <1>3, <1>4, <1>5, <1>6, <1>7, <1>8, <1>9, <1>10, <1>11 DEF Next, ApStep

\* At boot no processor is on its way.
LEMMA PromptInit == Init => PromptInv
<1> SUFFICES ASSUME Init PROVE OnlyOneInv /\ FlagInv /\ ReportInv /\ ReturnInv /\ RemapInv
  BY DEF PromptInv
<1>1. /\ pc = "kernel_main" /\ ~trampoline_booted
      /\ \A c \in Cpus : /\ word[c] = 0 /\ report[c] = "none"
                         /\ ap[c] = IF c = Bsp THEN "up" ELSE "reset"
  BY DEF Init, Idt!Init
<1> QED
  BY <1>1 DEF OnlyOneInv, OnItsWay, FlagInv, Booting, ReportInv, ReturnInv, RemapInv

\* Every step of a prompt machine keeps PromptInv.
LEMMA PromptNext == CoreInv /\ PromptInv /\ [Next]_vars => PromptInv'
<1> SUFFICES ASSUME CoreInv, PromptInv, [Next]_vars, machine.prompt'
             PROVE  OnlyOneInv' /\ FlagInv' /\ ReportInv' /\ ReturnInv' /\ RemapInv'
  BY DEF PromptInv
<1>1. machine' = machine
  BY DEF Next, BspStep, CallIdt, CallAcpi, SkipEntry, SkipDisabled, CallBootCpu, Return, AllocStack,
     SendIpis, SendFirst, WriteIcr, AwaitIcr, Wait, wait_for_boot, Report, ClearBooted, EndBootCpu,
     bootVars, ApicStep, Deliver, Lose, ApStep, LoadStack, smp_kernel_main, IdtInit, IdtShared, Fault,
     ReturnFromIdt, set_booted,
     bspVars, vars
<1>2. machine.prompt /\ OnlyOneInv /\ FlagInv /\ ReportInv /\ ReturnInv /\ RemapInv
  BY <1>1 DEF PromptInv
<1>3. RemapInv'
  BY <1>2, RemapNext
<1>4. CASE UNCHANGED vars
  BY <1>2, <1>3, <1>4 DEF vars, shared, apVars, OnlyOneInv, OnItsWay, FlagInv, Booting, ReportInv, ReturnInv,
     cpu, madt
<1>5. CASE Next
  BY <1>2, <1>3, <1>5, BspPrompt, OtherPrompt DEF Next
<1> QED
  BY <1>4, <1>5

\* The invariants together.
THEOREM SmpInvariant == Spec => [](CoreInv /\ PromptInv)
<1>1. Init => CoreInv /\ PromptInv
  BY SmpInit, PromptInit DEF CoreInv
<1>2. CoreInv /\ PromptInv /\ [Next]_vars => (CoreInv /\ PromptInv)'
  BY SmpNext, PromptNext DEF PromptInv
<1> QED
  BY <1>1, <1>2, PTL DEF Spec

\* Every variable keeps its type, for any machine.
THEOREM TypeCorrect == Spec => []TypeOK
  BY SmpInvariant, PTL DEF CoreInv

\* However late the processors are and however their words to the 8259s are mixed, as
\* long as each has a stack of its own a controller that takes bytes for settings has a
\* processor that is still to send them; so when all have left Idt::init both controllers
\* are ready.
THEOREM ControllersReady == Spec => []PicReady
<1>1. CoreInv => PicReady
  <2> SUFFICES ASSUME CoreInv, DistinctStacks, Idt!Quiet, NEW x \in Idt!Chips
               PROVE  chip[x].expects = "mask"
    BY DEF PicReady, Idt!Ready
  <2>1. ~(Need(x) > 0) /\ chip[x].expects # "unknown"
    BY DEF CoreInv, PicInv, OwnStacks, Served, Idt!Quiet
  <2>2. chip[x].expects \in {"ICW2", "ICW3", "ICW4", "mask", "unknown"}
    BY DEF CoreInv, TypeOK, Idt!TypeOK
  <2> QED
    BY <2>1, <2>2 DEF Need
<1> QED
  BY <1>1, SmpInvariant, PTL

\* On a prompt machine, a processor reported as booted is up.
THEOREM BootedIsUp == Spec => []ReportedBootedIsUp
<1>1. CoreInv /\ PromptInv => ReportedBootedIsUp
  BY DEF PromptInv, ReportInv, ReportedBootedIsUp, BootedMeansUp
<1> QED
  BY <1>1, SmpInvariant, PTL

\* On a prompt machine, a processor reported as failed runs no kernel code.
THEOREM FailedIsDown == Spec => []ReportedFailedIsDown
<1>1. CoreInv /\ PromptInv => ReportedFailedIsDown
  BY DEF PromptInv, ReportInv, ReportedFailedIsDown
<1> QED
  BY <1>1, SmpInvariant, PTL

\* On a prompt machine, whenever no processor is inside Idt::init both controllers
\* raise the vectors from 32 on.
THEOREM PicStaysRemapped == Spec => []PicRemapped
<1>1. CoreInv /\ PromptInv => PicRemapped
  BY DEF PromptInv, RemapInv, PicRemapped
<1> QED
  BY <1>1, SmpInvariant, PTL

\* On a prompt machine, boot_cpu never replaces trampoline_stack under a processor that
\* has yet to load it.
THEOREM StackStaysPublished == Spec => StackPublished
<1> DEFINE Kept == machine.prompt /\ trampoline_stack' # trampoline_stack
                     => \A c \in Cpus : ap[c] # "trampoline"
<1>1. CoreInv /\ PromptInv /\ [Next]_vars => [Kept]_vars
  <2> SUFFICES ASSUME PromptInv, Next, machine.prompt, trampoline_stack' # trampoline_stack,
                      NEW c \in Cpus
               PROVE  ap[c] # "trampoline"
    OBVIOUS
  <2>1. pc = "stack"
    BY DEF Next, BspStep, CallIdt, CallAcpi, SkipEntry, SkipDisabled, CallBootCpu, Return, AllocStack,
       SendIpis, SendFirst, WriteIcr, AwaitIcr, Wait, wait_for_boot, Report, ClearBooted, EndBootCpu,
       Goto, ApicStep, Deliver, Lose, ApStep, LoadStack, smp_kernel_main, IdtInit, IdtShared, Fault,
     ReturnFromIdt, set_booted,
       bspVars, vars, shared
  <2> QED
    BY <2>1 DEF PromptInv, OnlyOneInv, OnItsWay
<1> QED
  BY <1>1, SmpInvariant, PTL DEF StackPublished, Spec

------------------------------------------------------------------------------
(* Stacks.                                                                  *)

StackPcs == Booting /\ pc # "stack"

\* A step that takes no pages and loads no stack.
LEMMA StackKept ==
  ASSUME CoreInv, StackInv, UNCHANGED <<machine, held>>,
         StackPcs' => StackPcs /\ cpu' = cpu /\ trampoline_stack' = trampoline_stack,
         \A c \in Cpus : OnStack(c)' => OnStack(c) /\ stack'[c] = stack[c]
  PROVE  StackInv'
<1>1. \A c, p : Gives(c, p)' <=> Gives(c, p)
  BY DEF Gives
<1>2. machine.prompt' =>
        /\ StackPcs' => trampoline_stack' = 0 \/ Gives(cpu, trampoline_stack)'
        /\ \A c \in Cpus : OnStack(c)' => Gives(c, stack[c])'
  BY <1>1 DEF StackInv, StackPcs, Gives
<1> QED
  BY <1>2 DEF StackInv, StackPcs, Pages!FramesOf

\* boot_cpu takes a stack that no other processor has, or none.
LEMMA AllocStackStep ==
  ASSUME CoreInv, StackInv, AllocStack
  PROVE  StackInv'
<1>1. pc = "stack" /\ pc' = "init" /\ UNCHANGED <<machine, offset, ap, stack>>
  BY DEF AllocStack, Goto, bootVars, apVars
<1>2. cpu' = cpu /\ \A c \in Cpus : OnStack(c)' <=> OnStack(c)
  BY <1>1 DEF cpu, madt, OnStack
<1>3. CASE Places = {}
  <2>1. held' = held /\ trampoline_stack' = 0
    BY <1>3 DEF AllocStack, pages
  <2>2. \A c, p : Gives(c, p)' <=> Gives(c, p)
    BY <2>1 DEF Gives
  <2>3. (machine.prompt =>
           /\ Booting /\ pc # "stack" => trampoline_stack = 0 \/ Gives(cpu, trampoline_stack)
           /\ \A c \in Cpus : OnStack(c) => Gives(c, stack[c]))'
    BY <1>1, <1>2, <2>1, <2>2 DEF StackInv, Gives
  <2> QED
    BY <2>1, <2>3 DEF StackInv, Pages!FramesOf
<1>4. CASE Places # {}
  <2>1. PICK r : r = StackAt(Min(Places))
    OBVIOUS
  <2>2. /\ trampoline_stack' = r.idx /\ held' = held \cup {r}
        /\ \A h \in held : Pages!FramesOf(r) \cap Pages!FramesOf(h) = {}
        /\ r.idx \in Nat /\ r.count = StackPages /\ r.owner = cpu
    BY <1>4, <2>1, PlaceType, SmpAssumption DEF AllocStack, Pages!Allocate, StackAt
  <2>3. \A h, k \in held' : h # k => Pages!FramesOf(h) \cap Pages!FramesOf(k) = {}
    BY <2>2 DEF StackInv
  <2>4. \A h \in held' : h.idx \in Nat /\ h.count = StackPages
    BY <2>2 DEF StackInv
  <2>5. \A c \in Cpus : machine.prompt /\ OnStack(c)' => Gives(c, stack[c])'
    BY <1>1, <1>2, <2>2 DEF StackInv, Gives
  <2>6. Gives(cpu, trampoline_stack)'
    BY <1>2, <2>2 DEF Gives
  <2>7. (\A h, k \in held : h # k => Pages!FramesOf(h) \cap Pages!FramesOf(k) = {})'
    BY <2>3 DEF Pages!FramesOf
  <2>8. (machine.prompt =>
           /\ Booting /\ pc # "stack" => trampoline_stack = 0 \/ Gives(cpu, trampoline_stack)
           /\ \A c \in Cpus : OnStack(c) => Gives(c, stack[c]))'
    BY <1>1, <2>5, <2>6
  <2> QED
    BY <2>4, <2>7, <2>8 DEF StackInv
<1> QED
  BY <1>3, <1>4

\* No other step of the boot processor takes pages.
LEMMA BspStack ==
  ASSUME CoreInv, StackInv, BspStep, ~AllocStack
  PROVE  StackInv'
<1>1. UNCHANGED <<machine, held, ap, stack>>
  BY DEF BspStep, CallIdt, CallAcpi, SkipEntry, SkipDisabled, CallBootCpu, Return, SendIpis,
     SendFirst, WriteIcr, AwaitIcr, Wait, wait_for_boot, Report, ClearBooted, EndBootCpu, bootVars,
     vars, apVars, pages
<1>2. \A c \in Cpus : OnStack(c)' => OnStack(c) /\ stack'[c] = stack[c]
  BY <1>1 DEF OnStack
<1>3. CASE SkipEntry \/ ClearBooted
  <2>1. pc' = "madt"
    BY <1>3 DEF SkipEntry, AtEntry, ClearBooted, EndBootCpu, Goto
  <2> QED
    BY <1>1, <1>2, <2>1, StackKept DEF StackPcs, Booting
<1>4. CASE CallIdt \/ CallAcpi \/ CallBootCpu \/ Return \/ SkipDisabled
  <2>1. /\ pc \in {"kernel_main", "idt", "madt"} /\ pc' \in {"idt", "madt", "stack", "returned"}
        /\ offset' = offset
    BY <1>4 DEF CallIdt, CallAcpi, CallBootCpu, Return, SkipDisabled, AtEntry, Goto, vars
  <2> QED
    BY <1>1, <1>2, <2>1, StackKept DEF StackPcs, Booting
<1>5. CASE SendIpis \/ Wait \/ Report
  <2>1. StackPcs /\ StackPcs' /\ UNCHANGED <<offset, trampoline_stack>>
    BY <1>5 DEF SendIpis, SendFirst, WriteIcr, AwaitIcr, Wait, wait_for_boot, Report, Goto, bootVars,
       shared, StackPcs, Booting
  <2>2. cpu' = cpu
    BY <1>1, <2>1 DEF cpu, madt
  <2> QED
    BY <1>1, <1>2, <2>1, <2>2, StackKept
<1> QED
  BY <1>3, <1>4, <1>5 DEF BspStep

\* Nor does a step of the APIC or of another processor; on a prompt machine the one that
\* loads a stack loads its own.
LEMMA OtherStack ==
  ASSUME CoreInv, PromptInv, StackInv, ApicStep \/ \E c \in Cpus : ApStep(c)
  PROVE  StackInv'
<1>1. UNCHANGED <<machine, held, pc, offset, trampoline_stack>>
  BY DEF ApicStep, Deliver, Lose, ApStep, LoadStack, smp_kernel_main, IdtInit, IdtShared, Fault,
     ReturnFromIdt, set_booted, bspVars,
     pages, shared
<1>2. cpu' = cpu /\ (StackPcs' <=> StackPcs) /\ DOMAIN ap = Cpus /\ DOMAIN stack = Cpus
  BY <1>1 DEF cpu, madt, StackPcs, Booting, CoreInv, TypeOK
<1>3. CASE \A c \in Cpus : ~LoadStack(c)
  <2>1. \A c \in Cpus : OnStack(c)' => OnStack(c) /\ stack'[c] = stack[c]
    <3>1. CASE ApicStep
      BY <1>2, <3>1 DEF ApicStep, Deliver, Lose, apVars, OnStack
    <3>2. ASSUME NEW d \in Cpus, smp_kernel_main(d) \/ IdtInit(d) \/ IdtShared(d)
          PROVE  \A c \in Cpus : OnStack(c)' => OnStack(c) /\ stack'[c] = stack[c]
      BY <1>2, <3>2 DEF smp_kernel_main, IdtInit, IdtShared, apVars, OnStack
    <3>3. ASSUME NEW d \in Cpus, ReturnFromIdt(d) \/ set_booted(d) \/ Fault(d)
          PROVE  \A c \in Cpus : OnStack(c)' => OnStack(c) /\ stack'[c] = stack[c]
      BY <1>2, <3>3 DEF ReturnFromIdt, set_booted, Fault, OnStack
    <3> QED
      BY <1>3, <3>1, <3>2, <3>3 DEF ApStep
  <2> QED
    BY <1>1, <1>2, <2>1, StackKept
<1>4. ASSUME NEW d \in Cpus, LoadStack(d)
      PROVE  StackInv'
  <2>1. \A c \in Cpus : c # d => (OnStack(c)' <=> OnStack(c)) /\ stack'[c] = stack[c]
    BY <1>2, <1>4 DEF LoadStack, OnStack
  <2>2. stack'[d] = trampoline_stack
    BY <1>2, <1>4 DEF LoadStack
  <2>3. machine.prompt => d = cpu /\ StackPcs
    BY <1>4 DEF LoadStack, PromptInv, OnlyOneInv, OnItsWay, StackPcs, Booting
  <2>4. \A c, p : Gives(c, p)' <=> Gives(c, p)
    BY <1>1 DEF Gives
  <2>5. (machine.prompt =>
           /\ Booting /\ pc # "stack" => trampoline_stack = 0 \/ Gives(cpu, trampoline_stack)
           /\ \A c \in Cpus : OnStack(c) => Gives(c, stack[c]))'
    <3>1. machine.prompt /\ StackPcs => trampoline_stack = 0 \/ Gives(cpu, trampoline_stack)
      BY DEF StackInv, StackPcs
    <3>2. machine.prompt => \A c \in Cpus : OnStack(c)' => Gives(c, stack'[c])
      <4> SUFFICES ASSUME machine.prompt, NEW c \in Cpus, OnStack(c)' PROVE Gives(c, stack'[c])
        OBVIOUS
      <4>1. CASE c = d
        <5>1. stack'[c] # 0
          BY DEF OnStack
        <5> QED
          BY <2>2, <2>3, <3>1, <4>1, <5>1
      <4>2. CASE c # d
        BY <2>1, <4>2 DEF StackInv
      <4> QED
        BY <4>1, <4>2
    <3>3. \A c \in Cpus : Gives(c, stack'[c]) => Gives(c, stack[c])'
      BY <1>1 DEF Gives
    <3>4. Gives(cpu, trampoline_stack) => Gives(cpu, trampoline_stack)'
      BY <1>1, <1>2 DEF Gives
    <3> QED
      BY <1>1, <1>2, <3>1, <3>2, <3>3, <3>4 DEF StackPcs
  <2> QED
    BY <1>1, <1>2, <2>5 DEF StackInv, StackPcs, Booting, Pages!FramesOf
<1> QED
  BY <1>3, <1>4

LEMMA StackInit == Init => StackInv
<1> SUFFICES ASSUME Init PROVE StackInv
  OBVIOUS
<1>1. held = {} /\ pc = "kernel_main"
  BY DEF Init
<1>2. \A c \in Cpus : ~OnStack(c)
  BY DEF Init, OnStack
<1> QED
  BY <1>1, <1>2 DEF StackInv, Booting

LEMMA StackNext == CoreInv /\ PromptInv /\ StackInv /\ [Next]_vars => StackInv'
<1> SUFFICES ASSUME CoreInv, PromptInv, StackInv, [Next]_vars PROVE StackInv'
  OBVIOUS
<1>1. CASE UNCHANGED vars
  BY <1>1 DEF vars, pages, shared, apVars, StackInv, Booting, Pages!FramesOf, Gives, cpu, madt, OnStack
<1>2. CASE Next
  BY <1>2, BspStack, OtherStack, AllocStackStep DEF Next
<1> QED
  BY <1>1, <1>2

\* No two processors of a prompt machine are ever on the same stack, however little memory
\* there is.
THEOREM StacksDistinct == Spec => []PromptDistinctStacks
<1>1. StackInv => PromptDistinctStacks
  <2> SUFFICES ASSUME StackInv, machine.prompt, NEW c \in Cpus, NEW d \in Cpus,
                      OnStack(c), OnStack(d), c # d
               PROVE  stack[c] # stack[d]
    BY DEF PromptDistinctStacks, DistinctStacks
  <2>1. PICK r \in held : r.owner = c /\ r.idx = stack[c]
    BY DEF StackInv, Gives
  <2>2. PICK s \in held : s.owner = d /\ s.idx = stack[d]
    BY DEF StackInv, Gives
  <2>3. Pages!FramesOf(r) \cap Pages!FramesOf(s) = {}
    BY <2>1, <2>2 DEF StackInv
  <2>4. /\ r.idx \in Nat /\ s.idx \in Nat /\ r.count = StackPages /\ s.count = StackPages
        /\ StackPages \in Nat \ {0}
    BY SmpAssumption DEF StackInv
  <2>5. r.idx \in Pages!FramesOf(r) /\ s.idx \in Pages!FramesOf(s)
    BY <2>4 DEF Pages!FramesOf
  <2> QED
    BY <2>1, <2>2, <2>3, <2>5
<1>2. CoreInv /\ PromptInv /\ StackInv /\ [Next]_vars => StackInv'
  BY StackNext
<1> QED
  BY <1>1, <1>2, SmpInvariant, StackInit, PTL DEF Spec

==============================================================================
