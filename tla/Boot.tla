-------------------------------- MODULE Boot --------------------------------
(***************************************************************************)
(* The start of the kernel (src/src/main.c): kmain from the boot loader's  *)
(* answers to the main loop, with the interrupt hardware it sets up.       *)
(*                                                                         *)
(* kmain takes one step for each part of its initialisation.  The devices  *)
(* may raise interrupt requests at any time; the processor takes one       *)
(* between two steps of kmain when interrupts are enabled.  A gate of type *)
(* 0x8E disables them until the handler returns, so a handler is one step. *)
(* The 8259 controller and the processor are external: they are modelled   *)
(* as far as the code drives them.                                         *)
(***************************************************************************)
EXTENDS Integers, FiniteSets

CONSTANTS
  RaisedIrqs,     \* request lines that devices raise
  Faults,         \* exceptions that an instruction of the kernel may raise
  MAX_TICKS       \* where the model's tick counter stops; the code tells 1 apart

ASSUME BootAssumption ==
  /\ RaisedIrqs \subseteq 0 .. 7      \* the slave controller is masked
  /\ Faults \subseteq 0 .. 31
  /\ MAX_TICKS \in Nat /\ MAX_TICKS >= 2

VARIABLES
  firmware,       \* what holds of the boot loader's answers
  pc,             \* the part of kmain that comes next, "halted" or "reset"
  interrupts,     \* the processor's interrupt flag
  gdtLoaded,      \* the segments are the kernel's, no longer the boot loader's
  eX_IDT,         \* vectors that have a gate
  idtLoaded,
  unmasked,       \* request lines the controller lets through
  irr,            \* requests that wait in the controller
  isr,            \* requests in service: no end of interrupt was sent yet
  eX_TimerTicks,
  beat,           \* flips whenever the timer handler runs
  firedAsync,     \* the handler has printed in the middle of other code
  nullUsed,       \* an answer that is missing was used
  struck          \* an exception, or a request without a gate, has ended it all

vars == <<firmware, pc, interrupts, gdtLoaded, eX_IDT, idtLoaded, unmasked, irr,
          isr, eX_TimerTicks, beat, firedAsync, nullUsed, struck>>

cpu     == <<interrupts, gdtLoaded, eX_IDT, idtLoaded>>
devices == <<unmasked, irr, isr>>
timer   == <<eX_TimerTicks, beat, firedAsync>>

\* The base revision is supported; there is a response with a framebuffer_count
\* of one or more, its framebuffers[0] is there and has 32 bits per pixel; there
\* is a memory map, its entry_count is not zero ("regions") and its entries are
\* there; the direct map has an answer.
Answers == {"revision", "framebuffer", "framebuffers", "bpp32", "memmap", "regions",
            "entries", "hhdm"}

\* What the Limine protocol promises (external): a count that is not zero comes
\* with its array.  The kernel relies on it without a check (main.c:1843, 1869).
CountsKept ==
  /\ "framebuffer" \in firmware => "framebuffers" \in firmware
  /\ {"memmap", "regions"} \subseteq firmware => "entries" \in firmware

\* The boot loader starts the kernel with interrupts disabled and all request
\* lines masked.
Init ==
  /\ firmware \in SUBSET Answers
  /\ pc = "checks"
  /\ interrupts = FALSE
  /\ gdtLoaded = FALSE
  /\ eX_IDT = {}
  /\ idtLoaded = FALSE
  /\ unmasked = {}
  /\ irr = {}
  /\ isr = {}
  /\ eX_TimerTicks = 0
  /\ beat = FALSE
  /\ firedAsync = FALSE
  /\ nullUsed = FALSE
  /\ struck = FALSE

Stopped == pc \in {"halted", "reset"}

\* kmain goes from one part to the next, using the answers in `used`.
Step(from, to, used) ==
  /\ pc = from
  /\ pc' = to
  /\ nullUsed' = (nullUsed \/ ~(used \subseteq firmware))
  /\ UNCHANGED <<firmware, struck>>

-----------------------------------------------------------------------------
(* Interrupts and exceptions                                               *)

\* Variant: the gates leave interrupts enabled (type 0x8F).
GateFlagKept == interrupts

\* Type 0x8E, an interrupt gate: the handler starts with interrupts disabled.
GateFlag == FALSE

\* Variant: no end of interrupt is sent.
EndOfInterruptMissing(service) == service

\* outb(0x20, 0x20) ends the request of the highest priority in service.
EndOfInterrupt(service) ==
  service \ {q \in service : \A r \in service : q <= r}

\* service is the controller's in-service set while the handler runs; async
\* says that the handler interrupts other code.
eX_TimerHandler(service, async) ==
  /\ eX_TimerTicks' = IF eX_TimerTicks < MAX_TICKS THEN eX_TimerTicks + 1 ELSE MAX_TICKS
  /\ firedAsync' = (firedAsync \/ (async /\ eX_TimerTicks' = 1))
  /\ beat' = ~beat
  /\ isr' = EndOfInterrupt(service)

\* Variant: the code and the data descriptor are swapped.
DescriptorsSwapped == <<"null", "data", "code64">>

\* The descriptors eX_GDT_Init makes.
eX_GDT == <<"null", "code64", "data">>

Descriptor(selector) == eX_GDT[(selector \div 8) + 1]

\* eX_IDT_SetGate gives every gate this selector.
GateSelector == \h08

\* The processor can use the gate: its selector names a 64-bit code segment.
\* In the boot loader's table it does not.
HasGate(vector) ==
  /\ idtLoaded /\ vector \in eX_IDT
  /\ gdtLoaded /\ Descriptor(GateSelector) = "code64"

\* The processor finds no gate, raises a general protection fault, finds no
\* gate for it nor for the double fault, and resets (external).
TripleFault ==
  /\ pc' = "reset"
  /\ UNCHANGED <<firmware, nullUsed, cpu, timer>>

\* A device raises a request (external).
Raise(irq) ==
  /\ irq \in RaisedIrqs \ irr
  /\ irr' = irr \cup {irq}
  /\ UNCHANGED <<firmware, pc, nullUsed, struck, cpu, unmasked, isr, timer>>

\* The controller's most urgent request that may interrupt the processor.
Deliverable(irq) ==
  /\ irq \in irr \cap unmasked
  /\ \A q \in isr \cup (irr \cap unmasked) : irq <= q
  /\ irq \notin isr

TakeIrq(irq) ==
  /\ pc # "reset"
  /\ interrupts
  /\ Deliverable(irq)
  /\ irr' = irr \ {irq}
  /\ UNCHANGED unmasked
  /\ \/ /\ HasGate(32 + irq)
        /\ eX_TimerHandler(isr \cup {irq}, TRUE)
        /\ UNCHANGED <<firmware, pc, nullUsed, struck, cpu>>
     \/ /\ ~HasGate(32 + irq)
        /\ isr' = isr \cup {irq}
        /\ struck' = TRUE
        /\ TripleFault

\* Whatever draws follows eX_Framebuffer, which is framebuffers[0].
Drawing == {"framebuffer", "framebuffers"}

\* eX_BugCheck clears the screen, prints and halts.
eX_BugCheck(flag) ==
  /\ pc' = "halted"
  /\ interrupts' = flag
  /\ nullUsed' = (nullUsed \/ ~(Drawing \subseteq firmware))
  /\ UNCHANGED <<firmware, gdtLoaded, eX_IDT, idtLoaded>>

\* An instruction of the kernel faults: eX_PageFaultHandler and
\* eX_InvalidOpcodeHandler end in eX_BugCheck.
Fault(vector) ==
  /\ ~Stopped
  /\ vector \in Faults
  /\ struck' = TRUE
  /\ UNCHANGED devices
  /\ \/ HasGate(vector) /\ eX_BugCheck(GateFlag) /\ UNCHANGED timer
     \/ ~HasGate(vector) /\ TripleFault

-----------------------------------------------------------------------------
(* kmain                                                                   *)

\* Variant: the check of the framebuffer's answer is missing.
CheckedNotFramebuffer == {"revision", "memmap"}

\* The answers kmain checks before it follows the list of framebuffers.
Checked == {"revision", "framebuffer", "memmap"}

\* The early checks: hcf without a word, or on to the screen and the GDT.
Checks ==
  /\ \/ Checked \subseteq firmware /\ "bpp32" \in firmware /\ Step("checks", "screen", Drawing)
     \/ Checked \subseteq firmware /\ "bpp32" \notin firmware /\ Step("checks", "halted", Drawing)
     \/ ~(Checked \subseteq firmware) /\ Step("checks", "halted", {})
  /\ UNCHANGED <<cpu, devices, timer>>

\* eX_Clear and the first message.
Screen ==
  /\ Step("screen", "gdt", Drawing)
  /\ UNCHANGED <<cpu, devices, timer>>

\* The table is loaded and the segment registers are: cs with 0x08, the others
\* with 0x10.
eX_GDT_Init ==
  /\ Step("gdt", "memmap", {})
  /\ gdtLoaded' = TRUE
  /\ UNCHANGED <<interrupts, eX_IDT, idtLoaded, devices, timer>>

\* The memory map on the screen: its entries are followed as far as entry_count
\* goes, before anything has looked at the pointer to them.  Where it is NULL the
\* reads go to address zero: kmain goes on with what is there, or a page fault
\* (Fault) finds no gate yet.
MemoryMap ==
  /\ Step("memmap", "pmm",
          Drawing \cup {"memmap"} \cup (IF "regions" \in firmware THEN {"entries"} ELSE {}))
  /\ UNCHANGED <<cpu, devices, timer>>

\* pmm_init fails when the pointer to the entries is NULL.
Pmm ==
  /\ \/ "entries" \in firmware /\ Step("pmm", "idt", Drawing) /\ UNCHANGED cpu
     \/ "entries" \notin firmware /\ pc = "pmm" /\ eX_BugCheck(interrupts) /\ UNCHANGED struck
  /\ UNCHANGED <<devices, timer>>

\* Variant: the page fault has no gate.
GateVectorsNoPageFault == {\h06, \h20}

\* The vectors eX_IDT_Init makes gates for: invalid opcode, IRQ0, page fault.
GateVectors == {\h06, \h20, \h0E}

eX_IDT_Init ==
  /\ Step("idt", "int20", {})
  /\ eX_IDT' = GateVectors
  /\ idtLoaded' = TRUE
  /\ UNCHANGED <<interrupts, gdtLoaded, devices, timer>>

\* Variant: the gate is not tried before interrupts are enabled.
IntTimerSkipped ==
  /\ Step("int20", "pic", Drawing)
  /\ UNCHANGED <<cpu, devices, timer>>

\* "int $0x20": the timer handler runs as a subroutine of kmain, and sends an
\* end of interrupt although nothing is in service.  Without a gate that can be
\* used the processor resets.
IntTimer ==
  /\ pc = "int20"
  /\ IF HasGate(\h20)
     THEN /\ Step("int20", "pic", Drawing)
          /\ eX_TimerHandler(isr, FALSE)
          /\ UNCHANGED <<cpu, unmasked, irr>>
     ELSE TripleFault /\ UNCHANGED <<struck, devices>>

\* eX_PIC_Init: the command words reset the controller, and 0xFC lets the
\* timer and the keyboard through.
eX_PIC_Init ==
  /\ Step("pic", "pit", {})
  /\ unmasked' = {0, 1}
  /\ irr' = {}
  /\ isr' = {}
  /\ UNCHANGED <<cpu, timer>>

\* eX_PIT_Init, the readings that are printed, heap_init and elf_init, which
\* cannot fail.
PitHeapElf ==
  /\ Step("pit", "hhdm", Drawing)
  /\ UNCHANGED <<cpu, devices, timer>>

\* The direct map's answer is checked where it is used; eX_Keyboard_Init.
Hhdm ==
  /\ \/ /\ "hhdm" \in firmware
        /\ Step("hhdm", "sti", Drawing \cup {"hhdm"})
        /\ UNCHANGED cpu
     \/ "hhdm" \notin firmware /\ pc = "hhdm" /\ eX_BugCheck(interrupts) /\ UNCHANGED struck
  /\ UNCHANGED <<devices, timer>>

Sti ==
  /\ Step("sti", "shell", {})
  /\ interrupts' = TRUE
  /\ UNCHANGED <<gdtLoaded, eX_IDT, idtLoaded, devices, timer>>

\* The greeting and eX_Shell_Init; from here on kmain loops (Terminal).
ShellInit ==
  /\ Step("shell", "loop", Drawing)
  /\ UNCHANGED <<cpu, devices, timer>>

kmain ==
  \/ Checks \/ Screen \/ eX_GDT_Init \/ MemoryMap \/ Pmm \/ eX_IDT_Init \/ IntTimer \/ eX_PIC_Init
  \/ PitHeapElf \/ Hhdm \/ Sti \/ ShellInit

Next ==
  \/ kmain
  \/ \E irq \in RaisedIrqs : Raise(irq) \/ TakeIrq(irq)
  \/ \E vector \in Faults : Fault(vector)

\* The processor executes kmain and takes the interrupts it is offered; the
\* interval timer is periodic.  Faults and other devices are not owed.
Fairness ==
  /\ WF_vars(kmain)
  /\ WF_vars(\E irq \in RaisedIrqs : TakeIrq(irq))
  /\ WF_vars(Raise(0))

Spec == Init /\ [][Next]_vars /\ Fairness

-----------------------------------------------------------------------------
(***************************************************************************)
(* Properties.                                                             *)
(***************************************************************************)

\* The variables have the values of their C types or hardware registers.
TypeOK ==
  /\ firmware \subseteq Answers
  /\ pc \in {"checks", "screen", "gdt", "memmap", "pmm", "idt", "int20", "pic", "pit", "hhdm",
             "sti", "shell", "loop", "halted", "reset"}
  /\ interrupts \in BOOLEAN
  /\ gdtLoaded \in BOOLEAN
  /\ eX_IDT \subseteq 0 .. 255
  /\ idtLoaded \in BOOLEAN
  /\ unmasked \subseteq 0 .. 7
  /\ irr \subseteq RaisedIrqs
  /\ isr \subseteq RaisedIrqs
  /\ eX_TimerTicks \in 0 .. MAX_TICKS
  /\ beat \in BOOLEAN
  /\ firedAsync \in BOOLEAN
  /\ nullUsed \in BOOLEAN
  /\ struck \in BOOLEAN

\* The timer handler never prints while it interrupts other code: the console
\* and its cursor are shared without a lock, and the only print of the handler
\* (main.c:1455) is used up by the synchronous "int $0x20" of the boot.
HandlerNeverPrintsAsync == ~firedAsync

\* Whichever answers of the boot loader are missing, none of them is used, by
\* kmain, a bug check or an exception's handler, as long as a count that is not
\* zero comes with its array: main.c:1843 follows framebuffers[0] and
\* main.c:1869 follows entries[i] on the strength of the count alone, the latter
\* before pmm_init looks at the pointer (pmm.c:45).
AnswersCheckedBeforeUse == CountsKept => ~nullUsed

\* The exceptions that have a handler: invalid opcode and page fault.
Handled == {\h06, \h0E}

\* Once the interrupt descriptor table is loaded, one thing alone resets the
\* machine: the keyboard's request, let through without a gate (main.c:1364).
\* The timer's request, "int $0x20" and the exceptions with a handler find a
\* gate into the kernel's own code segment, and no other line is let through.
ResetOnlyByKeyboard ==
  [][Faults \subseteq Handled /\ idtLoaded /\ pc # "reset" /\ pc' = "reset"
       => 1 \in irr \ irr']_vars

\* A halted kernel stays halted: every way into hcf has interrupts disabled,
\* so no handler runs any more.
HaltIsFinal == [][pc = "halted" => UNCHANGED <<pc, eX_TimerTicks, beat>>]_vars

\* In the main loop the timer goes on ticking: no request stays in service.
TimerKeepsTicking ==
  \A b \in BOOLEAN : pc = "loop" /\ beat = b ~> beat # b \/ Stopped

\* With all answers there, kmain gets to the main loop unless an exception or a
\* request without a gate strikes: each table is set up before the step that
\* depends on it, "int $0x20" finds a gate into a code segment of the kernel's
\* own table (main.c:1441, 1610, 1914), and no timer request before the main
\* loop holds kmain up.
BootCompletes == firmware = Answers ~> pc = "loop" \/ struck

\* "Robust Interrupt Descriptor Table (IDT) for CPU exceptions and hardware
\* requests." (README.md:19), "Enable IRQ1: keyboard" (main.c:1363): a hardware
\* request that the kernel has enabled does not reset the machine.
EnabledRequestsSurvive == pc # "reset"
=============================================================================
