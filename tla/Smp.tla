--------------------------------- MODULE Smp ---------------------------------
(***************************************************************************)
(* Starting the other processors: Idt::init on the boot processor (BSP),   *)
(* the loop of Acpi::init over the MADT, Cpu::Smp::boot_cpu, the           *)
(* trampoline and smp_kernel_main on each application processor (AP), and  *)
(* between them the local APIC and the interrupt controllers.              *)
(*                                                                         *)
(* The two sides share trampoline_stack, which an AP loads when its        *)
(* trampoline gets there, trampoline_booted, which it sets, the stacks and *)
(* the 8259s, with no lock.  The BSP only waits a bounded time, so an AP   *)
(* may run any of its steps after the BSP has gone on to the next one, and *)
(* may load the stack meant for the next: what two APs do to each other's  *)
(* calls on one stack is part of the model.                                *)
(***************************************************************************)
EXTENDS Sequences, FiniteSetsExt, Integers

CONSTANTS
  Cpus,          \* local APIC ids
  Bsp,           \* the id cpuid reports on the boot processor
  Machines,      \* the machines: the interrupt controllers of the MADT (madt), the
                 \*   processors an IPI may have no effect on (lossy), and whether a
                 \*   started AP reports before the BSP stops waiting (prompt)
  Frames,        \* physical pages 1 .. Frames can be allocated
  StackPages,    \* pages of a trampoline stack
  Timeout        \* how often wait_for_boot looks at the flag

LAPIC == "LAPIC"

InterruptController ==
  [type : {LAPIC}, id : Cpus, enabled : BOOLEAN] \cup [type : {"other"}]

ASSUME SmpAssumption ==
  /\ IsFiniteSet(Cpus)
  /\ Bsp \in Cpus
  /\ \A m \in Machines : /\ m.madt \in Seq(InterruptController)
                         /\ m.lossy \subseteq Cpus
                         /\ m.prompt \in BOOLEAN
  /\ Frames \in Nat
  /\ StackPages \in Nat \ {0}
  /\ Timeout \in Nat \ {0}

\* The firmware lists a processor once; nothing in the code looks.
ASSUME MadtAssumption ==
  \A m \in Machines : \A i, j \in DOMAIN m.madt :
    /\ m.madt[i].type = LAPIC /\ m.madt[i].enabled
    /\ m.madt[j].type = LAPIC /\ m.madt[j].enabled
    /\ m.madt[i].id = m.madt[j].id
    => i = j

VARIABLES
  machine,
  pc,                 \* where the BSP is
  offset,             \* its position in the MADT, in entries
  timeout,            \* the counter of wait_for_boot
  icr,                \* the interrupt command register
  trampoline_stack,   \* a page number; 0 is Pmm's nullptr
  trampoline_booted,
  report,             \* what the BSP wrote on the terminal about each processor
  held, reserved,     \* the page allocator
  ap,                 \* how far each processor is; a triple fault shuts it down ("fault")
  stack,              \* the stack pointer it loaded, as a page number
  pushed,             \* the pages its stack has been written to
  returns,            \* on each stack: what the callee of smp_kernel_main returns to
  chip, word          \* the interrupt controllers

pages == <<held, reserved>>
shared == <<trampoline_stack, trampoline_booted>>
apVars == <<ap, stack, pushed, returns>>
picVars == <<chip, word>>
vars == <<machine, pc, offset, timeout, icr, shared, report, pages, apVars, picVars>>

Pages == INSTANCE PageAllocator
Idt == INSTANCE Pic

INIT == "INIT"
SIPI == "SIPI"
Idle == [pending |-> FALSE]

madt == machine.madt
cpu == madt[offset].id

Init ==
  /\ machine \in Machines
  /\ pc = "kernel_main"
  /\ offset = 1
  /\ timeout = 0
  /\ icr = Idle
  /\ trampoline_stack = 0 /\ trampoline_booted = FALSE
  /\ report = [c \in Cpus |-> "none"]
  /\ held = {} /\ reserved = {}
  /\ ap = [c \in Cpus |-> IF c = Bsp THEN "up" ELSE "reset"]
  /\ stack = [c \in Cpus |-> 0]
  /\ pushed = [c \in Cpus |-> {}]
  /\ returns = [s \in 0 .. Frames |-> "loop"]   \* written before it is read
  /\ Idt!Init

Goto(from, to) == pc = from /\ pc' = to

------------------------------------------------------------------------------
(* kernel_main and Acpi::init on the BSP.                                   *)

CallIdt ==
  /\ Goto("kernel_main", "idt")
  /\ Idt!Call(Bsp)
  /\ UNCHANGED <<machine, offset, timeout, icr, shared, report, pages, apVars, chip>>

\* Up to the loop: the local APIC is enabled and the trampoline copied.
CallAcpi ==
  /\ word[Bsp] = 0
  /\ Goto("idt", "madt")
  /\ UNCHANGED <<machine, offset, timeout, icr, shared, report, pages, apVars, picVars>>

AtEntry == pc = "madt" /\ offset <= Len(madt)

SkipEntry ==
  /\ AtEntry
  /\ madt[offset].type = LAPIC => madt[offset].enabled /\ cpu = Bsp
  /\ offset' = offset + 1
  /\ UNCHANGED <<machine, pc, timeout, icr, shared, report, pages, apVars, picVars>>

\* The `continue' on a disabled processor skips the line that advances offset.
SkipDisabled ==
  /\ AtEntry
  /\ madt[offset].type = LAPIC
  /\ ~madt[offset].enabled
  /\ UNCHANGED vars

CallBootCpu ==
  /\ AtEntry
  /\ madt[offset].type = LAPIC /\ madt[offset].enabled
  /\ cpu # Bsp
  /\ Goto("madt", "stack")
  /\ UNCHANGED <<machine, offset, timeout, icr, shared, report, pages, apVars, picVars>>

Return ==
  /\ offset > Len(madt)
  /\ Goto("madt", "returned")
  /\ UNCHANGED <<machine, offset, timeout, icr, shared, report, pages, apVars, picVars>>

------------------------------------------------------------------------------
(* boot_cpu.                                                                *)

bootVars == <<machine, offset, report, apVars, picVars>>

StackAt(i) == [idx |-> i, count |-> StackPages, owner |-> cpu]

Places == Pages!Places(StackPages, Frames)

\* Mutant: the pages of the stack are not kept.
AllocSameStack ==
  /\ Goto("stack", "init")
  /\ trampoline_stack' = Min(Places)
  /\ UNCHANGED <<bootVars, timeout, icr, trampoline_booted, pages>>

\* trampoline_stack is never null: virtual_physical_base has been added to what
\* alloc returned when it is compared with nullptr, so the early return below
\* the comparison is dead code and the boot goes on with page 0.
AllocStack ==
  /\ Goto("stack", "init")
  /\ \/ /\ Places # {}
        /\ trampoline_stack' = Min(Places)
        /\ Pages!Allocate(StackAt(Min(Places)))
     \/ /\ Places = {}
        /\ trampoline_stack' = 0
        /\ UNCHANGED pages
  /\ UNCHANGED <<bootVars, timeout, icr, trampoline_booted>>

\* send_ipi writes the command register at one control point and leaves it for
\* the next when the register no longer reads PENDING.
WriteIcr(from, mode, to) ==
  /\ Goto(from, to)
  /\ icr' = [pending |-> TRUE, target |-> cpu, mode |-> mode]
  /\ UNCHANGED <<bootVars, timeout, shared, pages>>

\* Mutant: send_ipi does not poll PENDING.
NoAwaitIcr(from, to, t) ==
  /\ Goto(from, to)
  /\ timeout' = t
  /\ UNCHANGED <<bootVars, icr, shared, pages>>

AwaitIcr(from, to, t) ==
  /\ ~icr.pending
  /\ Goto(from, to)
  /\ timeout' = t
  /\ UNCHANGED <<bootVars, icr, shared, pages>>

SendFirst ==
  \/ WriteIcr("init", INIT, "init_pending")
  \/ AwaitIcr("init_pending", "sipi", timeout)
  \/ WriteIcr("sipi", SIPI, "sipi_pending")

\* Mutants: no wait after SIPI, or none after it has been sent again.
SendWithoutWait == SendFirst \/ AwaitIcr("sipi_pending", "clear", Timeout)

ResendWithoutWait ==
  \/ SendFirst
  \/ AwaitIcr("sipi_pending", "wait", Timeout)
  \/ WriteIcr("resend", SIPI, "resend_pending")
  \/ AwaitIcr("resend_pending", "failed", Timeout)

SendIpis ==
  \/ SendFirst
  \/ AwaitIcr("sipi_pending", "wait", Timeout)
  \/ WriteIcr("resend", SIPI, "resend_pending")
  \/ AwaitIcr("resend_pending", "wait_again", Timeout)

\* What a prompt machine rules out: giving up on a processor that has started.
InFlight == ap[cpu] \in {"trampoline", "kernel", "idt", "set_booted"}

\* Mutant: the counter is not decremented.
wait_for_ever(from, yes, yesTimeout, no) ==
  /\ pc = from
  /\ IF trampoline_booted
     THEN pc' = yes /\ timeout' = yesTimeout
     ELSE UNCHANGED <<pc, timeout>>
  /\ UNCHANGED <<bootVars, icr, shared, pages>>

\* One iteration of wait_for_boot: it returns TRUE at yes and FALSE at no.
wait_for_boot(from, yes, yesTimeout, no) ==
  /\ pc = from
  /\ IF trampoline_booted
     THEN pc' = yes /\ timeout' = yesTimeout
     ELSE /\ timeout = 1 /\ machine.prompt => ~InFlight
          /\ timeout' = timeout - 1
          /\ pc' = IF timeout = 1 THEN no ELSE from
  /\ UNCHANGED <<bootVars, icr, shared, pages>>

\* A first wait decides whether SIPI is sent again; a second one, which runs in
\* both cases, decides what is reported.
Wait ==
  \/ wait_for_boot("wait", "wait_again", Timeout, "resend")
  \/ wait_for_boot("wait_again", "booted", 0, "failed")

Report ==
  /\ pc \in {"booted", "failed"}
  /\ report' = [report EXCEPT ![cpu] = pc]
  /\ pc' = "clear"
  /\ UNCHANGED <<machine, offset, timeout, icr, shared, pages, apVars, picVars>>

EndBootCpu(booted, step) ==
  /\ Goto("clear", "madt")
  /\ trampoline_booted' = booted
  /\ offset' = offset + step
  /\ UNCHANGED <<machine, timeout, icr, trampoline_stack, report, pages, apVars, picVars>>

\* Mutants: the flag stays set; offset is advanced here and in Acpi::init.
KeepBooted == EndBootCpu(trampoline_booted, 1)

ClearAndAdvanceTwice == EndBootCpu(FALSE, 2)

ClearBooted == EndBootCpu(FALSE, 1)

------------------------------------------------------------------------------
(* The local APIC delivers the command, or does not.                        *)

Deliver ==
  /\ icr.pending
  /\ icr' = Idle
  /\ ap' = CASE icr.mode = INIT -> [ap EXCEPT ![icr.target] = "wait_for_sipi"]
             [] icr.mode = SIPI /\ ap[icr.target] = "wait_for_sipi" ->
                  [ap EXCEPT ![icr.target] = "trampoline"]
             [] OTHER -> ap
  /\ UNCHANGED <<machine, pc, offset, timeout, shared, report, pages, stack, pushed, returns,
                 picVars>>

Lose ==
  /\ icr.pending
  /\ icr.target \in machine.lossy
  /\ icr' = Idle
  /\ UNCHANGED <<machine, pc, offset, timeout, shared, report, pages, apVars, picVars>>

------------------------------------------------------------------------------
(* An application processor.                                                *)

bspVars == <<machine, pc, offset, timeout, icr, trampoline_stack, report, pages>>

LoadStack(c) ==
  /\ ap[c] = "trampoline"
  /\ stack' = [stack EXCEPT ![c] = trampoline_stack]
  /\ ap' = [ap EXCEPT ![c] = "kernel"]
  /\ UNCHANGED <<bspVars, trampoline_booted, pushed, returns, picVars>>

\* A processor that has a stack, whatever becomes of it.
OnStack(c) ==
  /\ c # Bsp /\ stack[c] # 0
  /\ ap[c] \in {"kernel", "idt", "set_booted", "up", "fault"}

\* d's calls write to the same places as c's.
OneStack(c, d) == c # d /\ OnStack(c) /\ OnStack(d) /\ stack[c] = stack[d]

\* The call pushes the return address below the lowest byte of the allocation;
\* smp_kernel_main's call of Idt::init pushes the address of its next line.
smp_kernel_main(c) ==
  /\ ap[c] = "kernel" /\ stack[c] # 0
  /\ pushed' = [pushed EXCEPT ![c] = @ \cup {stack[c] - 1}]
  /\ ap' = [ap EXCEPT ![c] = "idt"]
  /\ returns' = [returns EXCEPT ![stack[c]] = "set_booted"]
  /\ Idt!Call(c)
  /\ UNCHANGED <<bspVars, trampoline_booted, stack, chip>>

\* A word of Idt::init, on any processor.
IdtInit(c) == Idt!outb(c) /\ UNCHANGED <<bspVars, trampoline_booted, apVars>>

\* The same while another processor runs the calls of Idt::init on this stack.
IdtShared(c) ==
  /\ \E d \in Cpus : OneStack(c, d) /\ Idt!outb_overwritten(c, d)
  /\ UNCHANGED <<bspVars, trampoline_booted, apVars>>

\* With no interrupt descriptor table a page fault is a triple fault: below the stack
\* that page 0 makes nothing is mapped, and the return address of one processor may be
\* torn by the arguments of the other.
Fault(c) ==
  /\ \/ ap[c] = "kernel" /\ stack[c] = 0
     \/ ap[c] = "idt" /\ word[c] # 0 /\ \E d \in Cpus : OneStack(c, d) /\ word[d] # 0
  /\ ap' = [ap EXCEPT ![c] = "fault"]
  /\ Idt!Leave(c)
  /\ UNCHANGED <<bspVars, trampoline_booted, stack, pushed, returns, chip>>

\* Idt::init returns to what its stack says: the call of set_booted, unless another
\* processor has made that call on the same stack since.
ReturnFromIdt(c) ==
  /\ ap[c] = "idt" /\ word[c] = 0
  /\ \/ /\ returns[stack[c]] = "set_booted"
        /\ returns' = [returns EXCEPT ![stack[c]] = "loop"]
        /\ ap' = [ap EXCEPT ![c] = "set_booted"]
     \/ /\ returns[stack[c]] = "loop"
        /\ ap' = [ap EXCEPT ![c] = "up"]
        /\ UNCHANGED returns
  /\ UNCHANGED <<bspVars, trampoline_booted, stack, pushed, picVars>>

\* It is called again when Idt::init has been called on its stack meanwhile.
set_booted(c) ==
  /\ ap[c] = "set_booted"
  /\ trampoline_booted' = TRUE
  /\ ap' = [ap EXCEPT ![c] = IF returns[stack[c]] = "loop" THEN "up" ELSE "set_booted"]
  /\ returns' = [returns EXCEPT ![stack[c]] = "loop"]
  /\ UNCHANGED <<bspVars, stack, pushed, picVars>>

BspStep ==
  \/ CallIdt \/ CallAcpi \/ SkipEntry \/ SkipDisabled \/ CallBootCpu \/ Return
  \/ AllocStack \/ SendIpis \/ Wait \/ Report \/ ClearBooted

ApicStep == Deliver \/ Lose

ApStep(c) ==
  \/ LoadStack(c) \/ smp_kernel_main(c) \/ IdtInit(c) \/ IdtShared(c)
  \/ ReturnFromIdt(c) \/ set_booted(c) \/ Fault(c)

Next == BspStep \/ ApicStep \/ \E c \in Cpus : ApStep(c)

Spec == Init /\ [][Next]_vars

\* A processor that is executing goes on executing, and the APIC does not hold
\* a command for ever.
Fairness ==
  /\ WF_vars(BspStep)
  /\ WF_vars(ApicStep)
  /\ \A c \in Cpus : WF_vars(ApStep(c))

FairSpec == Spec /\ Fairness

------------------------------------------------------------------------------
(* Properties.                                                              *)

TypeOK ==
  /\ machine \in Machines
  /\ pc \in {"kernel_main", "idt", "madt", "stack", "init", "init_pending", "sipi",
             "sipi_pending", "wait", "resend", "resend_pending", "wait_again", "booted",
             "failed", "clear", "returned"}
  /\ offset \in 1 .. Len(madt) + 1
  /\ timeout \in 0 .. Timeout
  /\ icr \in {Idle} \cup [pending : {TRUE}, target : Cpus, mode : {INIT, SIPI}]
  /\ trampoline_stack \in 0 .. Frames
  /\ trampoline_booted \in BOOLEAN
  /\ report \in [Cpus -> {"none", "booted", "failed"}]
  /\ ap \in [Cpus -> {"reset", "wait_for_sipi", "trampoline", "kernel", "idt", "set_booted",
                     "up", "fault"}]
  /\ stack \in [Cpus -> 0 .. Frames]
  /\ pushed \in [Cpus -> SUBSET (-1 .. Frames)]
  /\ returns \in [0 .. Frames -> {"set_booted", "loop"}]
  /\ Idt!TypeOK

\* "allocate stack for CPU with lapic ID" (smp.cpp:46): no two processors ever
\* run on the same stack.
DistinctStacks ==
  \A c, d \in Cpus : OnStack(c) /\ OnStack(d) /\ c # d => stack[c] # stack[d]

\* The same, if every processor reports before the BSP stops waiting for it.
PromptDistinctStacks == machine.prompt => DistinctStacks

\* Every page a processor pushes to is a page of its own stack.
StackInsideAllocation ==
  \A c \in Cpus : pushed[c] \subseteq UNION {Pages!FramesOf(r) : r \in {h \in held : h.owner = c}}

\* "Waits & timeouts for the AP to boot" (smp.hpp:18): the processor the BSP reports
\* as booted has booted.
BootedMeansUp == \A c \in Cpus : report[c] = "booted" => ap[c] = "up"

\* The same, if processors are prompt.
ReportedBootedIsUp == machine.prompt => BootedMeansUp

\* "[SMP] Failed to boot CPU" (smp.cpp:60): a processor reported as failed is not
\* executing kernel code, if processors are prompt; not even the one that got no stack.
ReportedFailedIsDown ==
  machine.prompt =>
    \A c \in Cpus : report[c] = "failed" => ap[c] \in {"reset", "wait_for_sipi", "fault"}

\* The stack published for a prompt processor stays published until it has loaded it.
StackPublished ==
  [][machine.prompt /\ trampoline_stack' # trampoline_stack
       => \A c \in Cpus : ap[c] # "trampoline"]_vars

\* "Remap PIC" (idt.cpp:11): while no processor is inside Idt::init the interrupt
\* controllers have the vectors 32 to 47, if processors are prompt.
PicRemapped ==
  machine.prompt /\ Idt!Quiet /\ pc \notin {"kernel_main"} => Idt!Remapped

\* However the words of several late processors are mixed, neither controller is left
\* in the middle of its initialisation, where it would take a mask for a setting, as
\* long as each processor runs on a stack of its own.
PicReady == DistinctStacks /\ Idt!Quiet => Idt!Ready

AllEnabled == \A i \in DOMAIN madt : madt[i].type = LAPIC => madt[i].enabled

\* Acpi::init returns whatever the processors and the APIC do.
AcpiInitReturns == <>(pc = "returned")

\* It does if the MADT lists no disabled processor.
EnabledMadtReturns == AllEnabled => AcpiInitReturns

Listed == {madt[i].id : i \in {j \in DOMAIN madt : madt[j].type = LAPIC}}

\* Every processor of such a MADT that IPIs reach ends up in smp_kernel_main's last
\* loop whatever becomes of the others, if processors are prompt and boot_cpu always
\* finds memory for a stack.
EveryCpuUp ==
  machine.prompt /\ AllEnabled /\ [](pc = "stack" => Places # {})
    => <>[](\A c \in Listed \ machine.lossy : ap[c] = "up")

==============================================================================
