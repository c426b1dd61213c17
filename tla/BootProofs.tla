----------------------------- MODULE BootProofs -----------------------------
(***************************************************************************)
(* The safety properties of the boot, for every set of request lines that  *)
(* devices raise, every set of exceptions and every combination of the     *)
(* boot loader's answers.                                                  *)
(***************************************************************************)
EXTENDS Boot, TLAPS

\* The parts of kmain behind the synchronous "int $0x20".
AfterIntTimer == {"pic", "pit", "hhdm", "sti", "shell", "loop"}

\* Interrupts are enabled only behind sti, by which time the handler's one
\* message is used up; a halted processor has them disabled.
FlagInv ==
  /\ interrupts => pc \in {"shell", "loop", "reset"}
  /\ pc \in AfterIntTimer => eX_TimerTicks >= 1

\* The kernel's gates are usable as soon as they are loaded, and only the timer
\* and the keyboard are let through.
GateInv ==
  /\ pc \notin {"checks", "screen", "gdt", "halted", "reset"} => gdtLoaded
  /\ pc \in AfterIntTimer \cup {"int20"} => idtLoaded
  /\ idtLoaded => gdtLoaded /\ eX_IDT = GateVectors
  /\ unmasked \subseteq {0, 1}

\* What is behind the early checks relies on the answers they looked at, the
\* handlers of the loaded gates too.
CheckedInv ==
  /\ pc \notin {"checks", "halted", "reset"} => Checked \subseteq firmware
  /\ idtLoaded => Checked \subseteq firmware

IInv ==
  /\ TypeOK
  /\ FlagInv
  /\ GateInv
  /\ CheckedInv
  /\ HandlerNeverPrintsAsync
  /\ AnswersCheckedBeforeUse

-----------------------------------------------------------------------------

\* The invariant holds when the boot loader starts the kernel.
LEMMA InitIInv == Init => IInv
<1>. SUFFICES ASSUME Init PROVE IInv
  OBVIOUS
<1>. USE DEF Init
<1>0. 0 \in 0 .. MAX_TICKS
  BY BootAssumption
<1>1. TypeOK
  <2>1. firmware \subseteq Answers /\ eX_TimerTicks \in 0 .. MAX_TICKS
    BY <1>0
  <2>. QED
    BY <2>1, Zenon DEF TypeOK
<1>2. FlagInv /\ GateInv /\ CheckedInv
  BY DEF Init, FlagInv, GateInv, CheckedInv, AfterIntTimer
<1>3. HandlerNeverPrintsAsync /\ AnswersCheckedBeforeUse
  BY DEF Init, HandlerNeverPrintsAsync, AnswersCheckedBeforeUse
<1>. QED
  BY <1>1, <1>2, <1>3 DEF IInv

\* A tick counts up to its bound, and a first tick is behind it.
LEMMA HandlerFacts ==
  ASSUME TypeOK, NEW service \in SUBSET RaisedIrqs, NEW async \in BOOLEAN,
         eX_TimerHandler(service, async)
  PROVE  /\ eX_TimerTicks' \in 0 .. MAX_TICKS /\ eX_TimerTicks' >= 1
         /\ beat' \in BOOLEAN
         /\ isr' \subseteq RaisedIrqs
         /\ firedAsync' \in BOOLEAN
         /\ async => (eX_TimerTicks >= 1 => firedAsync' = firedAsync)
         /\ ~async => firedAsync' = firedAsync
<1>1. eX_TimerTicks \in 0 .. MAX_TICKS /\ MAX_TICKS \in Nat /\ MAX_TICKS >= 2
  BY BootAssumption DEF TypeOK
<1>2. /\ eX_TimerTicks' \in 0 .. MAX_TICKS /\ eX_TimerTicks' >= 1
      /\ eX_TimerTicks >= 1 => eX_TimerTicks' # 1
  BY <1>1 DEF eX_TimerHandler
<1>. QED
  BY <1>2 DEF eX_TimerHandler, EndOfInterrupt, TypeOK

\* A kernel behind the early checks may draw, if the count of framebuffers is
\* kept.
LEMMA MayDraw ==
  ASSUME Checked \subseteq firmware, CountsKept
  PROVE  Drawing \subseteq firmware
BY DEF Checked, CountsKept, Drawing

\* The steps of kmain that touch neither the processor nor the devices.
LEMMA QuietStep ==
  ASSUME IInv,
         NEW from \in {"checks", "screen", "gdt", "memmap", "pmm", "idt", "int20", "pic",
                        "pit", "hhdm", "sti", "shell"},
         NEW to \in {"screen", "gdt", "memmap", "pmm", "idt", "pit", "hhdm", "sti",
                      "shell", "loop", "halted"},
         NEW used,
         Step(from, to, used), CountsKept => used \subseteq firmware,
         to \notin {"screen", "gdt", "halted"} => from \notin {"checks", "screen", "gdt"},
         to \in AfterIntTimer => from \in AfterIntTimer,
         to # "halted" => Checked \subseteq firmware,
         interrupts => to = "loop",
         UNCHANGED <<cpu, devices, timer>>
  PROVE  IInv'
<1>1. TypeOK'
  BY DEF IInv, TypeOK, Step, cpu, devices, timer
<1>2. FlagInv' /\ CheckedInv'
  BY DEF IInv, FlagInv, CheckedInv, Step, cpu, timer
<1>4. GateInv'
  BY DEF IInv, GateInv, AfterIntTimer, Step, cpu, devices
<1>3. HandlerNeverPrintsAsync' /\ AnswersCheckedBeforeUse'
  BY DEF IInv, HandlerNeverPrintsAsync, AnswersCheckedBeforeUse, CountsKept, Step, timer
<1>. QED
  BY <1>1, <1>2, <1>3, <1>4 DEF IInv

\* A bug check of kmain, before interrupts are enabled.
LEMMA BugCheckStep ==
  ASSUME IInv, NEW flag, flag = FALSE,
         Checked \subseteq firmware,
         eX_BugCheck(flag), struck' \in BOOLEAN,
         UNCHANGED <<devices, timer>>
  PROVE  IInv'
<1>1. TypeOK'
  BY DEF IInv, TypeOK, eX_BugCheck, devices, timer
<1>2. FlagInv' /\ GateInv' /\ CheckedInv'
  BY DEF IInv, FlagInv, GateInv, CheckedInv, eX_BugCheck, devices, timer, AfterIntTimer
<1>3. HandlerNeverPrintsAsync' /\ AnswersCheckedBeforeUse'
  BY MayDraw DEF IInv, HandlerNeverPrintsAsync, AnswersCheckedBeforeUse, CountsKept,
     eX_BugCheck, timer
<1>. QED
  BY <1>1, <1>2, <1>3 DEF IInv

\* With the kernel's tables loaded, the timer and the exceptions that have a
\* handler find a usable gate.
LEMMA HandledGates ==
  ASSUME GateInv, idtLoaded, NEW vector \in Handled \cup {\h20}
  PROVE  HasGate(vector)
<1>1. vector \in GateVectors
  BY DEF Handled, GateVectors
<1>2. Descriptor(GateSelector) = "code64"
  BY DEF Descriptor, GateSelector, eX_GDT
<1>. QED
  BY <1>1, <1>2 DEF HasGate, GateInv

\* Every part of kmain keeps the invariant.
LEMMA KmainStep == ASSUME IInv, kmain PROVE IInv'
<1>1. CASE Checks
  <2>1. {} \subseteq firmware /\ ~interrupts
    BY <1>1 DEF Checks, Step, IInv, FlagInv
  <2>2. CASE Checked \subseteq firmware /\ Step("checks", "screen", Drawing)
    BY <1>1, <2>1, <2>2, QuietStep, MayDraw DEF Checks, AfterIntTimer
  <2>4. CASE Checked \subseteq firmware /\ Step("checks", "halted", Drawing)
    BY <1>1, <2>1, <2>4, QuietStep, MayDraw DEF Checks, AfterIntTimer
  <2>3. CASE Step("checks", "halted", {})
    BY <1>1, <2>1, <2>3, QuietStep DEF Checks, AfterIntTimer
  <2>. QED
    BY <1>1, <2>2, <2>3, <2>4 DEF Checks
<1>. DEFINE ok == Checked \subseteq firmware
<1>2. CASE Screen
  <2>1. ok /\ ~interrupts
    BY <1>2 DEF Screen, Step, IInv, CheckedInv, FlagInv
  <2>. QED
    BY <1>2, <2>1, QuietStep, MayDraw DEF Screen, AfterIntTimer
<1>3. CASE eX_GDT_Init
  <2>1. ok /\ ~interrupts /\ pc' = "memmap" /\ nullUsed' = nullUsed
    BY <1>3 DEF eX_GDT_Init, Step, IInv, CheckedInv, FlagInv, TypeOK
  <2>2. TypeOK'
    BY <1>3, <2>1 DEF IInv, TypeOK, eX_GDT_Init, Step, devices, timer
  <2>3. FlagInv' /\ GateInv' /\ CheckedInv'
    BY <1>3, <2>1 DEF IInv, FlagInv, GateInv, CheckedInv, eX_GDT_Init, Step, AfterIntTimer, devices
  <2>4. HandlerNeverPrintsAsync' /\ AnswersCheckedBeforeUse'
    BY <1>3, <2>1 DEF IInv, HandlerNeverPrintsAsync, AnswersCheckedBeforeUse, CountsKept,
       eX_GDT_Init, Step, timer
  <2>. QED
    BY <2>2, <2>3, <2>4 DEF IInv
<1>4. CASE MemoryMap
  <2>. DEFINE used == Drawing \cup {"memmap"}
                        \cup (IF "regions" \in firmware THEN {"entries"} ELSE {})
  <2>1. ok /\ ~interrupts
    BY <1>4 DEF MemoryMap, Step, IInv, CheckedInv, FlagInv
  <2>2. CountsKept => used \subseteq firmware
    BY <2>1, MayDraw DEF Checked, CountsKept
  <2>3. Step("memmap", "pmm", used) /\ UNCHANGED <<cpu, devices, timer>>
    BY <1>4 DEF MemoryMap
  <2>. HIDE DEF used
  <2>. QED
    BY <2>1, <2>2, <2>3, QuietStep DEF AfterIntTimer
<1>5. CASE Pmm
  <2>1. ok /\ interrupts = FALSE
    BY <1>5 DEF Pmm, Step, IInv, CheckedInv, FlagInv, TypeOK
  <2>2. CASE Step("pmm", "idt", Drawing) /\ UNCHANGED cpu
    BY <1>5, <2>1, <2>2, QuietStep, MayDraw DEF Pmm, AfterIntTimer
  <2>3. CASE eX_BugCheck(interrupts) /\ UNCHANGED struck
    <3>1. struck' \in BOOLEAN /\ UNCHANGED <<devices, timer>>
      BY <1>5, <2>3 DEF Pmm, IInv, TypeOK
    <3>. QED
      BY <2>1, <2>3, <3>1, BugCheckStep
  <2>. QED
    BY <1>5, <2>2, <2>3 DEF Pmm
<1>6. CASE eX_IDT_Init
  <2>1. ok /\ ~interrupts /\ pc' = "int20" /\ nullUsed' = nullUsed
    BY <1>6 DEF eX_IDT_Init, Step, IInv, CheckedInv, FlagInv, TypeOK
  <2>2. GateVectors \subseteq 0 .. 255
    BY DEF GateVectors
  <2>3. TypeOK'
    BY <1>6, <2>1, <2>2 DEF IInv, TypeOK, eX_IDT_Init, Step, devices, timer
  <2>4. FlagInv' /\ GateInv' /\ CheckedInv'
    BY <1>6, <2>1 DEF IInv, FlagInv, GateInv, CheckedInv, eX_IDT_Init, Step, AfterIntTimer, devices
  <2>5. HandlerNeverPrintsAsync' /\ AnswersCheckedBeforeUse'
    BY <1>6, <2>1 DEF IInv, HandlerNeverPrintsAsync, AnswersCheckedBeforeUse, CountsKept,
       eX_IDT_Init, Step, timer
  <2>. QED
    BY <2>3, <2>4, <2>5 DEF IInv
<1>7. CASE IntTimer
  <2>0. HasGate(\h20)
    BY <1>7, HandledGates DEF IntTimer, IInv, GateInv
  <2>1. /\ ok /\ ~interrupts /\ pc' = "pic" /\ (CountsKept => nullUsed' = nullUsed)
        /\ nullUsed' \in BOOLEAN /\ firmware' = firmware /\ struck' = struck
        /\ gdtLoaded /\ idtLoaded
    BY <1>7, <2>0, MayDraw DEF IntTimer, Step, IInv, CheckedInv, FlagInv, TypeOK, HasGate
  <2>2. /\ eX_TimerTicks' \in 0 .. MAX_TICKS /\ eX_TimerTicks' >= 1 /\ beat' \in BOOLEAN
        /\ isr' \subseteq RaisedIrqs /\ firedAsync' = firedAsync
    BY <1>7, <2>0, HandlerFacts DEF IntTimer, IInv, TypeOK
  <2>6. UNCHANGED <<cpu, unmasked, irr>>
    BY <1>7, <2>0 DEF IntTimer
  <2>3. TypeOK'
    BY <2>1, <2>2, <2>6 DEF IInv, TypeOK, cpu
  <2>4. FlagInv' /\ GateInv' /\ CheckedInv'
    BY <2>1, <2>2, <2>6 DEF IInv, FlagInv, GateInv, CheckedInv, cpu
  <2>5. HandlerNeverPrintsAsync' /\ AnswersCheckedBeforeUse'
    BY <2>1, <2>2 DEF IInv, HandlerNeverPrintsAsync, AnswersCheckedBeforeUse, CountsKept
  <2>. QED
    BY <2>3, <2>4, <2>5 DEF IInv
<1>8. CASE eX_PIC_Init
  <2>1. ok /\ ~interrupts /\ pc' = "pit" /\ nullUsed' = nullUsed /\ eX_TimerTicks >= 1
    BY <1>8 DEF eX_PIC_Init, Step, IInv, CheckedInv, FlagInv, TypeOK, AfterIntTimer
  <2>2. TypeOK'
    BY <1>8, <2>1 DEF IInv, TypeOK, eX_PIC_Init, Step, cpu, timer
  <2>3. FlagInv' /\ GateInv' /\ CheckedInv'
    BY <1>8, <2>1 DEF IInv, FlagInv, GateInv, CheckedInv, eX_PIC_Init, Step, cpu, timer, AfterIntTimer
  <2>4. HandlerNeverPrintsAsync' /\ AnswersCheckedBeforeUse'
    BY <1>8, <2>1 DEF IInv, HandlerNeverPrintsAsync, AnswersCheckedBeforeUse, CountsKept,
       eX_PIC_Init, Step, timer
  <2>. QED
    BY <2>2, <2>3, <2>4 DEF IInv
<1>9. CASE PitHeapElf
  <2>1. ok /\ ~interrupts
    BY <1>9 DEF PitHeapElf, Step, IInv, CheckedInv, FlagInv
  <2>. QED
    BY <1>9, <2>1, QuietStep, MayDraw DEF PitHeapElf, AfterIntTimer
<1>10. CASE Hhdm
  <2>1. ok /\ interrupts = FALSE
    BY <1>10 DEF Hhdm, Step, IInv, CheckedInv, FlagInv, TypeOK
  <2>2. CASE "hhdm" \in firmware /\ Step("hhdm", "sti", Drawing \cup {"hhdm"}) /\ UNCHANGED cpu
    <3>1. CountsKept => Drawing \cup {"hhdm"} \subseteq firmware
      BY <2>1, <2>2, MayDraw
    <3>. QED
      BY <1>10, <2>1, <2>2, <3>1, QuietStep DEF Hhdm, AfterIntTimer
  <2>3. CASE eX_BugCheck(interrupts) /\ UNCHANGED struck
    <3>1. struck' \in BOOLEAN /\ UNCHANGED <<devices, timer>>
      BY <1>10, <2>3 DEF Hhdm, IInv, TypeOK
    <3>. QED
      BY <2>1, <2>3, <3>1, BugCheckStep
  <2>. QED
    BY <1>10, <2>2, <2>3 DEF Hhdm
<1>11. CASE Sti
  <2>1. ok /\ pc' = "shell" /\ nullUsed' = nullUsed /\ eX_TimerTicks >= 1
    BY <1>11 DEF Sti, Step, IInv, CheckedInv, FlagInv, TypeOK, AfterIntTimer
  <2>2. TypeOK'
    BY <1>11, <2>1 DEF IInv, TypeOK, Sti, Step, devices, timer
  <2>3. FlagInv' /\ GateInv' /\ CheckedInv'
    BY <1>11, <2>1 DEF IInv, FlagInv, GateInv, CheckedInv, Sti, Step, timer, devices, AfterIntTimer
  <2>4. HandlerNeverPrintsAsync' /\ AnswersCheckedBeforeUse'
    BY <1>11, <2>1 DEF IInv, HandlerNeverPrintsAsync, AnswersCheckedBeforeUse, CountsKept,
       Sti, Step, timer
  <2>. QED
    BY <2>2, <2>3, <2>4 DEF IInv
<1>12. CASE ShellInit
  <2>1. ok
    BY <1>12 DEF ShellInit, Step, IInv, CheckedInv
  <2>. QED
    BY <1>12, <2>1, QuietStep, MayDraw DEF ShellInit, AfterIntTimer
<1>. QED
  BY <1>1, <1>2, <1>3, <1>4, <1>5, <1>6, <1>7, <1>8, <1>9, <1>10, <1>11, <1>12 DEF kmain

\* A request that has no gate, or an exception, resets the processor.
LEMMA TripleFaultStep ==
  ASSUME IInv, TripleFault,
         struck' \in BOOLEAN, unmasked' = unmasked, irr' \subseteq RaisedIrqs, isr' \subseteq RaisedIrqs
  PROVE  IInv'
<1>1. TypeOK'
  BY DEF IInv, TypeOK, TripleFault, cpu, timer
<1>2. FlagInv' /\ GateInv' /\ CheckedInv'
  BY DEF IInv, FlagInv, GateInv, CheckedInv, TripleFault, cpu, timer, AfterIntTimer
<1>3. HandlerNeverPrintsAsync' /\ AnswersCheckedBeforeUse'
  BY DEF IInv, HandlerNeverPrintsAsync, AnswersCheckedBeforeUse, CountsKept, TripleFault, timer
<1>. QED
  BY <1>1, <1>2, <1>3 DEF IInv

\* Devices and the processor keep the invariant: the handler finds a tick
\* counted already.
LEMMA InterruptStep ==
  ASSUME IInv, NEW irq \in RaisedIrqs, Raise(irq) \/ TakeIrq(irq)
  PROVE  IInv'
<1>1. CASE Raise(irq)
  <2>1. TypeOK'
    BY <1>1 DEF IInv, TypeOK, Raise, cpu, timer
  <2>2. FlagInv' /\ GateInv' /\ CheckedInv'
    BY <1>1 DEF IInv, FlagInv, GateInv, CheckedInv, Raise, cpu, timer
  <2>3. HandlerNeverPrintsAsync' /\ AnswersCheckedBeforeUse'
    BY <1>1 DEF IInv, HandlerNeverPrintsAsync, AnswersCheckedBeforeUse, CountsKept, Raise, timer
  <2>. QED
    BY <2>1, <2>2, <2>3 DEF IInv
<1>2. CASE TakeIrq(irq)
  <2>1. /\ irr' \subseteq RaisedIrqs /\ unmasked' = unmasked
        /\ isr \cup {irq} \in SUBSET RaisedIrqs
    BY <1>2 DEF TakeIrq, IInv, TypeOK
  <2>2. eX_TimerTicks >= 1
    BY <1>2 DEF TakeIrq, IInv, FlagInv, AfterIntTimer
  <2>3. CASE eX_TimerHandler(isr \cup {irq}, TRUE) /\ UNCHANGED <<firmware, pc, nullUsed, struck, cpu>>
    <3>1. /\ eX_TimerTicks' \in 0 .. MAX_TICKS /\ eX_TimerTicks' >= 1 /\ beat' \in BOOLEAN
          /\ isr' \subseteq RaisedIrqs /\ firedAsync' = firedAsync
      BY <2>1, <2>2, <2>3, HandlerFacts DEF IInv
    <3>2. TypeOK'
      BY <2>1, <2>3, <3>1 DEF IInv, TypeOK, cpu
    <3>3. FlagInv' /\ GateInv' /\ CheckedInv'
      BY <2>1, <2>3, <3>1 DEF IInv, FlagInv, GateInv, CheckedInv, cpu
    <3>4. HandlerNeverPrintsAsync' /\ AnswersCheckedBeforeUse'
      BY <2>3, <3>1 DEF IInv, HandlerNeverPrintsAsync, AnswersCheckedBeforeUse, CountsKept
    <3>. QED
      BY <3>2, <3>3, <3>4 DEF IInv
  <2>4. CASE isr' = isr \cup {irq} /\ struck' = TRUE /\ TripleFault
    BY <2>1, <2>4, TripleFaultStep
  <2>. QED
    BY <1>2, <2>3, <2>4 DEF TakeIrq
<1>. QED
  BY <1>1, <1>2

\* An exception ends in a bug check with interrupts disabled, or resets.
LEMMA FaultStep ==
  ASSUME IInv, NEW vector \in Faults, Fault(vector)
  PROVE  IInv'
<1>1. CASE HasGate(vector) /\ eX_BugCheck(GateFlag) /\ UNCHANGED timer
  <2>1. Checked \subseteq firmware
    BY <1>1 DEF HasGate, IInv, CheckedInv
  <2>2. GateFlag = FALSE /\ struck' \in BOOLEAN /\ UNCHANGED <<devices, timer>>
    BY <1>1 DEF Fault, GateFlag
  <2>. QED
    BY <1>1, <2>1, <2>2, BugCheckStep
<1>2. CASE TripleFault
  BY <1>2, TripleFaultStep DEF Fault, devices, IInv, TypeOK
<1>. QED
  BY <1>1, <1>2 DEF Fault

\* The invariant is inductive.
LEMMA NextIInv == IInv /\ [Next]_vars => IInv'
<1>. SUFFICES ASSUME IInv, [Next]_vars PROVE IInv'
  OBVIOUS
<1>1. CASE UNCHANGED vars
  BY <1>1 DEF IInv, vars, TypeOK, FlagInv, GateInv, CheckedInv, HandlerNeverPrintsAsync,
              AnswersCheckedBeforeUse, CountsKept
<1>. QED
  BY <1>1, KmainStep, InterruptStep, FaultStep DEF Next

-----------------------------------------------------------------------------

\* The timer handler never prints while it interrupts other code
\* (main.c:1455): when interrupts are enabled its one message is used up.
THEOREM BootHandlerNeverPrintsAsync == Spec => []HandlerNeverPrintsAsync
<1>1. IInv => HandlerNeverPrintsAsync
  BY DEF IInv
<1>. QED
  BY <1>1, InitIInv, NextIInv, PTL DEF Spec

\* Whichever answers of the boot loader are missing, none of them is used by
\* kmain, a bug check or an exception's handler, as long as a count that is not
\* zero comes with its array (main.c:1832-1876, 1885, 1991).
THEOREM BootAnswersChecked == Spec => []AnswersCheckedBeforeUse
<1>1. IInv => AnswersCheckedBeforeUse
  BY DEF IInv
<1>. QED
  BY <1>1, InitIInv, NextIInv, PTL DEF Spec

\* A halt is final: no request wakes a processor that has run hcf, on any way
\* into it (main.c:147-152, 1652).
THEOREM BootHaltIsFinal == Spec => HaltIsFinal
<1>1. ASSUME IInv, [Next]_vars
      PROVE  [pc = "halted" => UNCHANGED <<pc, eX_TimerTicks, beat>>]_vars
  <2>. SUFFICES ASSUME pc = "halted", Next
                PROVE  UNCHANGED <<pc, eX_TimerTicks, beat>>
    BY <1>1
  <2>1. ~interrupts
    BY <1>1 DEF IInv, FlagInv
  <2>2. ~kmain
    BY DEF kmain, Checks, Screen, eX_GDT_Init, MemoryMap, Pmm, eX_IDT_Init, IntTimer,
           eX_PIC_Init, PitHeapElf, Hhdm, Sti, ShellInit, Step
  <2>3. \A irq \in RaisedIrqs : ~TakeIrq(irq)
    BY <2>1 DEF TakeIrq
  <2>4. \A vector \in Faults : ~Fault(vector)
    BY DEF Fault, Stopped
  <2>. QED
    BY <2>2, <2>3, <2>4 DEF Next, Raise, timer
<1>. QED
  BY <1>1, InitIInv, NextIInv, PTL DEF Spec, HaltIsFinal

\* Once the interrupt descriptor table is loaded, only the keyboard's request,
\* let through without a gate (main.c:1364), resets the machine.
THEOREM BootResetOnlyByKeyboard == Spec => ResetOnlyByKeyboard
<1>. DEFINE Reset == Faults \subseteq Handled /\ idtLoaded /\ pc # "reset" /\ pc' = "reset"
<1>1. ASSUME IInv, [Next]_vars
      PROVE  [Reset => 1 \in irr \ irr']_vars
  <2>. SUFFICES ASSUME Reset, Next
                PROVE  1 \in irr \ irr'
    BY <1>1
  <2>1. ~kmain
    <3>1. pc = "int20" => HasGate(\h20)
      BY <1>1, HandledGates DEF IInv
    <3>. QED
      BY <3>1 DEF kmain, Checks, Screen, eX_GDT_Init, MemoryMap, Pmm, eX_IDT_Init, IntTimer,
           eX_PIC_Init, PitHeapElf, Hhdm, Sti, ShellInit, Step, eX_BugCheck
  <2>2. \A vector \in Faults : ~Fault(vector)
    <3>1. \A vector \in Faults : HasGate(vector)
      BY <1>1, HandledGates DEF IInv
    <3>. QED
      BY <3>1 DEF Fault, eX_BugCheck
  <2>3. \A irq \in RaisedIrqs : ~Raise(irq)
    BY DEF Raise
  <2>4. PICK irq \in RaisedIrqs : TakeIrq(irq)
    BY <2>1, <2>2, <2>3 DEF Next
  <2>5. irq \in irr /\ irq \in {0, 1} /\ irr' = irr \ {irq} /\ ~HasGate(32 + irq)
    BY <1>1, <2>4 DEF TakeIrq, Deliverable, IInv, GateInv
  <2>6. irq # 0
    <3>1. 32 + 0 = \h20
      OBVIOUS
    <3>. QED
      BY <1>1, <2>5, <3>1, HandledGates DEF IInv
  <2>. QED
    BY <2>5, <2>6
<1>. QED
  BY <1>1, InitIInv, NextIInv, PTL DEF Spec, ResetOnlyByKeyboard
=============================================================================
