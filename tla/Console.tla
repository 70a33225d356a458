------------------------------- MODULE Console -------------------------------
(***************************************************************************)
(* The screen (hardware/terminal.cpp, hardware/devices/vbe.cpp,            *)
(* hardware/panic.cpp) and everything the kernel writes on it: the loader  *)
(* enters long mode, kernel_main maps the frame buffer and clears it, then *)
(* Acpi::init, boot_cpu and Pci::init write their lines and the processor  *)
(* halts.                                                                  *)
(*                                                                         *)
(* A character is drawn into a cell of 8 by 16 pixels.  Without a          *)
(* background only the pixels of the glyph are written, on top of what the *)
(* cell showed; with one all of them are.  In a column that the right edge *)
(* cuts the pixels behind the edge land in the next line of pixels, which  *)
(* screen does not show: what is said of it is said of whole columns.      *)
(***************************************************************************)
EXTENDS Format

CONSTANTS
  Machines,     \* boot loader and firmware: see ConsoleAssumption
  Printable     \* the characters that the font has, and the runs of plain text

page_size == 4096

\* The fields of the boot information that kernel_main reads.
Info == [width : Nat, height : Nat, pitch : Nat, bpp : {32}]

\* The mode that the multiboot header asks for; the boot loader may set another.
mb_header == [width |-> 1280, height |-> 720, pitch |-> 1280 * 4, bpp |-> 32]

\* A processor boot_cpu is called for, and how that ends.
CpuEntry == [id : 0 .. 255, booted : BOOLEAN]

\* ecm_base as its hexadecimal digits.
McfgEntry == [ecm_base : [1 .. 16 -> 0 .. 15], segment : 0 .. 2^16 - 1,
              start_bus_number : 0 .. 255, end_bus_number : 0 .. 255]

\* The characters that move the cursor and draw nothing.
Special == {"\n", "\t", "\r"}

\* The plain text of the messages, in which a space is a dot.
Words ==
  {".", "!!", "KERNEL", "PANIC", "OCCURRED", "Error", "message:", "ACPI", "not", "supported",
   "[ACPI]", "ID", "and", "version", "[SMP]", "booted", "failed",
   "[DEVMGR]", "No", "PCI", "Express", "#", ":", ":0:0", "-"}

ASSUME PrintableAssumption ==
  /\ Printable \cap Special = {}
  /\ Words \cup ToSet(Figure) \cup {"x"} \subseteq Printable

\* The kernel takes the mode it gets: higher than wide, or with columns or rows that end
\* inside a cell, though with one row at least.  VBE counts columns and lines in 16 bits.
\* The firmware's name is printable, and a table with a 32-bit length has fewer than 2^28
\* entries of 16 bytes.
ASSUME ConsoleAssumption ==
  \A m \in Machines :
    /\ m.extended_cpuid \in BOOLEAN /\ m.long_mode \in BOOLEAN
    /\ m.multiboot \in BOOLEAN
    /\ m.info \in Info
    /\ m.info.width \in 1 .. 2^16 - 1 /\ m.info.height \in 16 .. 2^16 - 1
    /\ m.info.pitch >= m.info.width * 4
    /\ m.version \in 0 .. 2
    /\ m.oem_id \in Seq(Printable)
    /\ m.cpus \in Seq(CpuEntry)
    /\ m.express \in BOOLEAN
    /\ m.mcfg \in Seq(McfgEntry) /\ Len(m.mcfg) < 2^28

VARIABLES
  machine,
  pc,
  i,         \* the loop over the processors, then over the MCFG
  mapped,    \* the pages of the frame buffer that are mapped
  x, y,      \* the cursor
  screen,    \* the glyphs in each cell drawn since the screen was cleared
  todo,      \* what write_line has still to write
  lines      \* history: what was to be written, and the text that was

vars == <<machine, pc, i, mapped, x, y, screen, todo, lines>>

mode == machine.info

Init ==
  /\ machine \in Machines
  /\ pc = "loader"
  /\ i = 1
  /\ mapped = 0
  /\ x = 0 /\ y = 0
  /\ screen = << >>
  /\ todo = << >>
  /\ lines = << >>

------------------------------------------------------------------------------
(* The frame buffer.                                                        *)

\* Where set_pixel writes, in bytes from the start of the frame buffer.
PixelOffset(px, py) == 4 * ((px * 4 + py * mode.pitch) \div (mode.bpp \div 8))

clear == screen' = << >>

\* Graphics::init, from whose end is_working is set.
GraphicsInit == clear

\* A processor without long mode stops; another one gets the page tables of the
\* image and calls kernel_main with what the boot loader has left in ebx and eax.
loader ==
  /\ pc = "loader"
  /\ pc' = IF machine.extended_cpuid /\ machine.long_mode THEN "kernel_main" ELSE "halted"
  /\ UNCHANGED <<machine, i, mapped, x, y, screen, todo, lines>>

\* The back buffer is allocated and never used.
KernelMain ==
  /\ pc = "kernel_main"
  /\ machine.multiboot
  /\ mapped' = (mode.width * mode.pitch + page_size - 1) \div page_size
  /\ GraphicsInit
  /\ pc' = "acpi"
  /\ UNCHANGED <<machine, i, x, y, todo, lines>>

\* kernel_main returns, and its caller halts.
NotMultiboot ==
  /\ pc = "kernel_main"
  /\ ~machine.multiboot
  /\ pc' = "halted"
  /\ UNCHANGED <<machine, i, mapped, x, y, screen, todo, lines>>

\* The pixels of a character's glyph that write_text sets, which tests all but the last
\* column: each printable character has its own, and the space has none.
font_bitmap(c) == {c} \ {"."}

write_text(c, cell, background) ==
  LET shown == IF background \/ cell \notin DOMAIN screen THEN {} ELSE screen[cell]
  IN  screen' = [k \in DOMAIN screen \cup {cell} |->
                   IF k = cell THEN shown \cup font_bitmap(c) ELSE screen[k]]

------------------------------------------------------------------------------
(* The terminal.                                                            *)

Width16(n) == n % 2^16

handle_special_characters(c) ==
  /\ c \in Special
  /\ y' = IF c = "\n" THEN Width16(y + 1) ELSE y
  /\ x' = CASE c = "\n" -> x [] c = "\t" -> Width16(x + 4) [] c = "\r" -> 0
  /\ UNCHANGED screen

\* The cell for the next character: the next row at the right edge, and the start
\* of the last whole row at the bottom.  Mutants: the next row one column
\* too late or too early; the first row at the bottom; no bottom.
CellFrom(right, bottom, last) ==
  LET wraps == x * 8 >= right
      row == IF wraps THEN Width16(y + 1) ELSE y
  IN  IF row * 16 >= bottom THEN <<0, last>>
      ELSE <<IF wraps THEN 0 ELSE x, row>>

WrapLate == CellFrom(mode.width + 1, mode.height, mode.height \div 16 - 1)
WrapEarly == CellFrom(mode.width - 8, mode.height, mode.height \div 16 - 1)
BackToTop == CellFrom(mode.width, mode.height, 0)
NoBottom == CellFrom(mode.width, 2^20, 0)

Cell == CellFrom(mode.width, mode.height, mode.height \div 16 - 1)

\* write of a character, with and without a background.
write(c, background) ==
  \/ handle_special_characters(c)
  \/ /\ c \notin Special
     /\ write_text(c, Cell, background)
     /\ x' = Width16(Cell[1] + 1)
     /\ y' = Cell[2]

\* One character of a write_line.
WriteNext ==
  /\ todo # << >>
  /\ write(Head(todo).char, Head(todo).background)
  /\ todo' = Tail(todo)
  /\ UNCHANGED <<machine, pc, i, mapped, lines>>

\* sprintf and write_line.
write_line(format, arguments, background) ==
  LET text == sprintf(format, arguments)
  IN  /\ todo = << >>
      /\ todo' = [k \in 1 .. Len(text) + 2 |->
                    [char |-> (text \o <<"\r", "\n">>)[k], background |-> background]]
      /\ lines' = Append(lines, [format |-> format, arguments |-> arguments, text |-> text])
      /\ UNCHANGED <<machine, mapped, screen>>

------------------------------------------------------------------------------
(* What the kernel writes.                                                  *)

\* panic: the cursor is set before the first of its two lines.
Panic ==
  /\ pc = "acpi" /\ machine.version = 0
  /\ write_line(<<"!!", ".", "KERNEL", ".", "PANIC", ".", "OCCURRED", ".", "!!">>, << >>, TRUE)
  /\ x' = 0 /\ y' = 0
  /\ pc' = "panic"
  /\ UNCHANGED i

PanicMessage ==
  /\ pc = "panic"
  /\ write_line(<<"Error", ".", "message:", ".", "%s">>, <<<<"ACPI", ".", "not", ".", "supported">>>>,
                TRUE)
  /\ pc' = "halting"
  /\ UNCHANGED <<i, x, y>>

AcpiLine ==
  /\ pc = "acpi" /\ machine.version # 0
  /\ write_line(<<"[ACPI]", ".", "ID", ".", "%s", ".", "and", ".", "version", ".", "%d">>,
                <<machine.oem_id, machine.version>>, FALSE)
  /\ pc' = "smp"
  /\ UNCHANGED <<i, x, y>>

BootCpuLine ==
  /\ pc = "smp" /\ i <= Len(machine.cpus)
  /\ write_line(<<"[SMP]", ".", IF machine.cpus[i].booted THEN "booted" ELSE "failed", ".",
                  "ID", ".", "%d">>, <<machine.cpus[i].id>>, FALSE)
  /\ i' = i + 1
  /\ UNCHANGED <<pc, x, y>>

AcpiReturns ==
  /\ pc = "smp" /\ i > Len(machine.cpus)
  /\ todo = << >>
  /\ pc' = IF machine.express THEN "mcfg" ELSE "no mcfg"
  /\ i' = 1
  /\ UNCHANGED <<machine, mapped, x, y, screen, todo, lines>>

NoExpressLine ==
  /\ pc = "no mcfg"
  /\ write_line(<<"[DEVMGR]", ".", "No", ".", "PCI", ".", "Express">>, << >>, FALSE)
  /\ pc' = "halting"
  /\ UNCHANGED <<i, x, y>>

McfgLine ==
  /\ pc = "mcfg" /\ i <= Len(machine.mcfg)
  /\ LET e == machine.mcfg[i]
     IN  write_line(<<"[DEVMGR]", ".", "#", "%d", ".", "%p", ":", ".", "%d", ":", "%d", ":0:0", ".",
                      "-", ".", "%d", ":", "%d", ":0:0">>,
                    <<i - 1, e.ecm_base, e.segment, e.start_bus_number, e.segment,
                      e.end_bus_number>>, FALSE)
  /\ i' = i + 1
  /\ UNCHANGED <<pc, x, y>>

Halt ==
  /\ \/ pc = "halting" \/ (pc = "mcfg" /\ i > Len(machine.mcfg))
  /\ todo = << >>
  /\ pc' = "halted"
  /\ UNCHANGED <<machine, i, mapped, x, y, screen, todo, lines>>

Next ==
  \/ loader \/ KernelMain \/ NotMultiboot
  \/ WriteNext
  \/ Panic \/ PanicMessage
  \/ AcpiLine \/ BootCpuLine \/ AcpiReturns
  \/ NoExpressLine \/ McfgLine
  \/ Halt

Spec == Init /\ [][Next]_vars

------------------------------------------------------------------------------
(* Properties.                                                              *)

\* The columns that write uses: the last may be cut by the right edge.
Columns == (mode.width + 7) \div 8
WholeColumns == mode.width % 8 = 0
WholeRows == mode.height \div 16

TypeOK ==
  /\ machine \in Machines
  /\ pc \in {"loader", "kernel_main", "acpi", "panic", "smp", "mcfg", "no mcfg", "halting",
             "halted"}
  /\ i \in 1 .. Max({Len(machine.cpus), Len(machine.mcfg)}) + 1
  /\ mapped \in Nat
  /\ x \in 0 .. Columns /\ y \in 0 .. 2^16 - 1
  /\ \A cell \in DOMAIN screen : cell \in (0 .. Columns - 1) \X Nat
  /\ todo \in Seq([char : Printable \cup Special, background : BOOLEAN])

\* kernel_main maps as many lines of pixels as the screen has columns of them: enough for
\* all lines and a row of cells that sticks out below.
Landscape == mode.height + 16 <= mode.width

\* However long the lines and however many, no pixel is written outside the pages that
\* kernel_main has mapped, although it maps width instead of height lines of pixels, the
\* last row of cells may lie below the screen and the last column behind its right edge.
DrawsInsideMapping ==
  mapped # 0 /\ Landscape =>
    /\ PixelOffset(mode.width - 1, mode.height - 1) + 4 <= mapped * page_size
    /\ \A cell \in DOMAIN screen :
         PixelOffset(cell[1] * 8 + 7, cell[2] * 16 + 15) + 4 <= mapped * page_size

\* "Clears the display with a specific color" (vbe.hpp:28), all of it: what clear writes
\* from the first pixel to the last is mapped.
ClearsDisplay ==
  mapped # 0 => PixelOffset(mode.width - 1, mode.height - 1) + 4 <= mapped * page_size

\* "Writes a character on a position in the screen" (vbe.hpp:35): none is cut off at the
\* right edge.
CharactersWhole == \A cell \in DOMAIN screen : cell[1] * 8 + 8 <= mode.width

\* A line of the transcript takes this many rows.
RowsOf(text) == Max({1, (Len(text) + Columns - 1) \div Columns})

\* The row in which line k begins: below those of the lines before it.
FirstRow(k) ==
  LET rows[n \in 0 .. Len(lines)] == IF n = 0 THEN 0 ELSE rows[n - 1] + RowsOf(lines[n].text)
  IN  rows[k - 1]

Placed == UNION {{<<k, j>> : j \in DOMAIN lines[k].text} : k \in DOMAIN lines}

CellOf(k, j) == <<(j - 1) % Columns, FirstRow(k) + (j - 1) \div Columns>>

\* "Writes a string on the terminal ... then switches to a new line" (terminal.hpp):
\* as long as everything written fits, a screen of whole columns shows just that, a line
\* as wide as the screen without an empty row behind it, and the panic message from the top.
ShowsTranscript ==
  WholeColumns /\ todo = << >> /\ FirstRow(Len(lines) + 1) <= WholeRows =>
    /\ DOMAIN screen = {CellOf(p[1], p[2]) : p \in Placed}
    /\ \A p \in Placed : screen[CellOf(p[1], p[2])] = font_bitmap(lines[p[1]].text[p[2]])

\* When a screen of whole columns is full the rows above the last whole one stay.
OverwritesOnlyLastRow ==
  [][WholeColumns => \A cell \in DOMAIN screen :
       cell[2] < WholeRows - 1 => cell \in DOMAIN screen' /\ screen'[cell] = screen[cell]]_vars

\* "Formats a string" (lib.hpp:7): the text of every line without %p is its format
\* with each directive replaced by its argument, numbers in decimal.
FormatRight ==
  \A l \in ToSet(lines) :
    "%p" \notin ToSet(l.format) =>
      l.text = FlattenSeq([k \in DOMAIN l.format |->
                 CASE l.format[k] = "%d" -> Decimal(Argument(l.format, l.arguments, k))
                   [] l.format[k] = "%s" -> Argument(l.format, l.arguments, k)
                   [] OTHER              -> <<l.format[k]>>])
==============================================================================
