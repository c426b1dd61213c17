# A TLA+ model of the eyaX kernel

eyaX is a small x86-64 kernel in C: one processor, no processes, a boot
sequence that ends in a loop that polls the keyboard and feeds a shell. This
project models its parts in TLA+, checks small instances with TLC and proves
the central results with TLAPS for every instance. Source paths below are
relative to the repository (`src/main.c` is the kernel's main file).

## The system

| part | code | state | operations |
|---|---|---|---|
| ZMM heap | `main.c` 1182-1245 | `blocks[1024]`, a table of extents of `heap[1024]` | `heap_init`, `malloc`, `free` |
| physical memory manager | `pmm.c` | two bitmaps, a counter, a flag | `pmm_init`, `pmm_alloc_page`, `pmm_free_page`, `pmm_free_pages` |
| keyboard driver | `keyboard.c` | ring buffer, read and write index, Shift, caps lock, prefix flag | `eX_Keyboard_Poll`, `..._HandleScancode`, `..._PushChar`, `..._GetChar` |
| shell | `shell.c` | line buffer and its length | `eX_Shell_Update`: Enter, Backspace, a character |
| console and font | `main.c` 154-1139, 1322-1335, 1814-1826 | cursor, framebuffer | `eX_PrintChar`, `eX_PrintString`, `eX_Backspace`, `eX_Clear` |
| main loop | `main.c` 2018-2021 | none of its own | poll, then update, forever |
| boot and interrupts | `main.c` 1349-1491, 1577-1660, 1831-2016 | GDT, IDT, PIC mask, tick counter, interrupt flag | the steps of `kmain`, timer handler, exception handlers, bug check, `eX_Sleep` (never called) |
| ELF validator | `elf.c` | none between calls | `elf_validate_image` and its checks |
| formatted printing | `main.c` 1141-1180, 1247-1320 | none | `eX_Print` |
| page bitmap allocator (PPA) | `main.c` 1662-1797 | a bitmap, two counters | `eX_PPA_Init`, never called |
| memory functions | `main.c` 96-145 | none | `memcpy`, `memset`, `memmove`, `memcmp` |
| logo, scaled characters | `main.c` 1510-1575 | none | never called |

How they interact: `kmain` calls every initialisation in a fixed order and
then alternates between the keyboard driver and the shell. The driver hands
characters to the shell through its ring buffer; the shell draws on the
console, whose cursor it never reads, so the line's length and the cursor are
kept in step only by construction. The timer interrupt is the only
concurrency: its handler counts ticks, prints once, and acknowledges. The
bytes of the keyboard arrive from outside at any time.

What is hard here, and a test would hardly reach:

* long sequences of legal calls: splits and frees in the ZMM table, wrapping
  indices in the ring, stale contents of the line buffer;
* words that wrap, are cut or are rounded: regions of the memory map, offsets
  in an ELF image, counters of free pages, numbers that are printed;
* moves between overlapping ranges, and pixels addressed by one of two widths;
* late bytes: modifiers change while codes wait in the controller;
* interrupts between any two steps of the boot, or between the test of a
  sleeper and its `hlt`, and missing answers of the boot loader;
* limits: a full ring, a full line, a cursor below the framebuffer.

`PROJECT.json` lists these hazards at their lines with the properties for each.

## Modules

| module | models | kind |
|---|---|---|
| `Zmm`, `ZmmProofs` | the ZMM heap | state machine, proofs |
| `Pmm` | the physical memory manager | state machine |
| `Ppa` | the page bitmap allocator | state machine |
| `Pages`, `PagesProofs` | both page managers on one memory map | composition of `Pmm` and `Ppa`, proofs about each |
| `CharQueue` | what the driver promises: a bounded queue | abstract specification |
| `Keyboard` | the driver | state machine, refinement of `CharQueue` |
| `Typing` | the driver and the keys in the user's hands | composition |
| `Console` | cursor and cells of the framebuffer | operators on a record |
| `Framebuffer` | the pixels behind the cells of `Console` | state machine |
| `LineEditor` | what the shell promises | abstract specification |
| `Shell`, `ShellProofs` | the shell on the console | state machine, refinement of `LineEditor`, proofs |
| `Terminal` | main loop: `Keyboard` and `Shell` (and with it `Console`) | composition |
| `KeyboardProofs` | the driver, `Typing` and `Terminal` | proofs |
| `Boot`, `BootProofs` | `kmain`, the descriptor tables, interrupts and exceptions | state machine, proofs |
| `Sleep` | `eX_Sleep` beside `Boot` | composition |
| `Elf`, `ElfProofs` | `elf_validate_image` | state machine, proofs |
| `Libc` | the memory functions | state machine |
| `Printing` | `eX_Print` and the conversion of numbers | state machine |
| `Routines`, `RoutinesProofs` | a call of `Libc`, a call of `Printing`, or a sequence of `Framebuffer` operations | one specification for the three, proofs about each |
| `Induction` | induction on the natural numbers, in a form the provers can use | lemmas |
| `MC*` | the instances for TLC | constants |

Definitions have the names of the C functions and variables they stand for.
A definition whose comment starts with "Variant" is a plausible wrong version
of the definition that follows it; `PROJECT.json` names, for each property,
the variant that violates it.

How state and actions correspond to the code:

* **Zmm.** `blocks` is the table; a pointer is its offset in `heap`. `malloc`
  is one action with the scan (`FirstFit`), the exact fit (`TakeWhole`), the
  split (`TakeSplit`) and the failure. The store to `blocks[i + 1]` overwrites
  that entry whatever it described, and sets `overrun` when there is no such
  entry. Callers are `Clients` with one allocation each; they free only what
  they hold, and ask for zero bytes too, which nothing in `malloc` refuses (a
  negative size is taken for a caller's error). `aliasFreed` and `emptySplits`
  record what such requests have led to; they belong to the properties, not to
  the code. The kernel itself does not call the allocator yet.
* **Pmm.** A bitmap is the set of its one bits; words wrap modulo `WORD`.
  `pmm_init` is a step for the reset and one for each entry, with the test of
  bit `i` exactly as the code has it. `granted` counts the holders of a frame;
  it belongs to the callers, not to the code.
* **Ppa.** The bitmap is the set of the used pages, a counter a word that
  wraps. Each entry of a loop over the memory map is a step; the loops over
  pages are part of one. A bit outside the bitmap sets `strayed`. The entries
  are the PMM's. Nothing in the kernel calls `eX_PPA_Init`; `Pages` lets it
  run, or not, after the check of the memory map and before `pmm_init`.
* **Keyboard.** One step is one scancode (a turn of the poll loop, with the
  whole of `eX_Keyboard_HandleScancode` and the push), one call of
  `eX_Keyboard_GetChar`, or a byte from the keyboard (external). `drop` flips
  when a full ring refuses a character, so that the refinement can tell a drop
  from nothing at all.
* **Typing** adds the physical keys (external): what each stroke meant when it
  was made is recorded in `meant`, what the driver offered in `decoded`.
* **Console.** A cell shows the character drawn in it, or a blank when the
  font has no glyph for it (`eX_Font`). The code neither wraps nor scrolls: a
  glyph right of the framebuffer goes into the padding behind its rows
  (`Pitch` is the distance of two rows in memory), and beyond that one pixel
  row lower at the left, over pieces of other cells (`Garbled`); one below the
  framebuffer sets `outside`.
* **Framebuffer** keeps the memory of the framebuffer beside a `Console`
  record. Glyphs start at multiples of eight pixels, so that a row of a glyph
  is one entry of the memory, a byte of the font. Width and pitch are taken to
  be multiples of eight pixels; a framebuffer 1366 pixels wide has a last
  column that `Columns` leaves out.
* **Shell.** One step is one character with everything it causes: for Enter,
  the terminator, the reply, the reset of the line and the prompt. The names
  and texts of the commands are constants.
* **Terminal.** `pc` says which of the two loops runs. Each turn is one step,
  and bytes arrive between any two. The prompt starts on the first row of a
  cleared console: the boot log that `kmain` has printed above it
  (`main.c` 1852-2012) is left out.
* **Boot.** One step for each part of `kmain`. A gate works when both tables
  are loaded and its selector names the 64-bit code descriptor. The 8259 controller is modelled
  by its mask, its waiting requests and the ones in service (external).
  Handlers run with interrupts disabled (gate type 0x8E), so each is one step.
  A request or an exception without a gate resets the machine. An answer of
  the boot loader that is used while it is missing sets `nullUsed`: that
  includes the arrays behind `framebuffer_count` and `entry_count`, whose
  pointers are answers of their own. `kmain` follows `framebuffers[0]` and
  `entries[i]` on the strength of the count, the latter before `pmm_init`
  compares the pointer with NULL; that a count comes with its array is the boot
  loader's promise (`CountsKept`).
* **Sleep.** The test of the counter and the `hlt` are two steps; a handler
  that returns ends a `hlt`, and has no effect on one that is still to come.
* **Libc.** A behaviour is one call; a turn of a loop is a step. The arguments
  of `memcpy` do not overlap (`restrict`).
* **Printing.** A behaviour is one call; a step is a character of the format, a
  directive, or a digit. An argument is a slot of 64 bits, of which `%d`, `%u`,
  `%x` and `%X` take the low half.
* **Elf.** One step for the header and one for each program header. The image
  is a record of the fields the code reads; `reads` collects the ranges of the
  image it has touched.

`Terminal` describes the keyboard as the code means to use it, by polling. On
a machine where the controller raises IRQ1 the kernel does not get that far:
see the run `boot_keyboard`.

## Runs

Passing runs:

| run | shows | bounds |
|---|---|---|
| `zmm` | allocations are in the heap; they are disjoint, and free entries cover nothing held, unless a pointer to zero bytes was freed at another caller's address; the table is overrun only after a split for zero bytes | four bytes, four entries, four callers, sizes 0 to 3: the heap fills, fragments, splits over live entries and runs over its table; symmetric callers |
| `pages` | PMM: usable bitmap exact, reserved memory stays reserved, counter right up to the first allocation; PPA: free pages and counter exact, no bit outside the bitmap | four frames of two bytes for the PMM, eight for the PPA, two pages in a byte of its bitmap, words of 16 values, all maps of two regions with bases and lengths around every limit, three allocations |
| `typing` | strokes are decoded with the modifiers of their moment; no modifier sticks; the ring implements the queue; caps lock and Shift agree on all 128 codes | four strokes of six keys (a letter, both Shifts, caps lock, Insert with fake Shift codes, keypad Enter), five bytes of delay, three slots, so that the ring fills and wraps |
| `shell` | the shell implements the line editor; cursor, screen and line agree; only a cursor below the framebuffer writes outside it | lines of three characters, two letters and a character without a glyph, a column of padding, commands that are prefixes of each other, four rows and answers that run below the last one |
| `terminal` | the shell edits and runs what the bytes mean; losses only in bursts; everything is handled | five bytes of five codes, a ring of four slots, two bytes of delay, a framebuffer narrower than the line |
| `boot` | no missing answer is used if counts come with their arrays; the handler never prints asynchronously; a halt is final; once the IDT is loaded only IRQ1 resets the machine; the timer goes on; a boot with all answers completes; a sleeper wakes up | all 256 combinations of answers, requests on IRQ 0, 1 and 4, both exceptions that have a gate, five ticks, sleeps of no and of two ticks |
| `elf` | reads stay in the image; the verdict is the documented one | words of 16 values, headers of four and three bytes, up to three program headers, values around every limit |
| `routines` | `memmove`, both signs of `memcmp` and the others as C mandates; what is printed is what the format means; the format is overread only behind a lone percent sign; cells show the pixels of their glyphs; pixels are stored behind the framebuffer only from below or right of it | four bytes of three values and all ranges; all formats of four characters over six, and the kernel's kinds of formats with sixteen critical numbers in both arguments (slots of 10 bits, ints of 8); six console operations on two rows of two cells with a column of padding |

The bounds keep every limit the code tests within reach: the ring and the line
fill up, indices wrap, words wrap, a region ends before, at and after the
highest address. `boot` and `elf` end (halt, verdict), a call
in `routines` returns, and eX_PPA_Init in `pages` may halt the kernel, so their
deadlock check is off; all other runs check for deadlock. The properties of the
PPA are about memory maps as the boot loader guarantees them (`SoundMap`:
regions that do not wrap, usable ones that overlap no other); the run has other
maps too, which the PMM copes with and the PPA does not.

Runs that show a disagreement between the code and what the repository says
of it (each is a finding in `PROJECT.json`):

| run | what happens |
|---|---|
| `zmm_tracked` | a split overwrites the entry of a live allocation, which can then never be freed |
| `pmm_released` | `pmm_init` tests the bit of the entry's index instead of the page's, so no frame is ever released |
| `pmm_holder` | every allocation returns the same frame, and the second holder cannot free it |
| `boot_keyboard` | IRQ1 is unmasked but has no gate: a keyboard request resets the machine |

Further observations that have no run of their own:

* A request of zero bytes is granted with the address of the bytes that follow.
  After `malloc(0)`, `malloc(2)` and `free` of the first, `free` has marked the
  entry of the second as well, and another `malloc(2)` gives two callers the
  same bytes. `AllocationsDisjoint` and `FreeBlocksUnheld` therefore end with
  such a free (`aliasFreed`), and say that nothing else leads there.
* `malloc(0)` splits an entry without shortening the heap. Requests of zero
  bytes use up the table, and the split of its last entry writes behind it.
  `SplitInTable` counts those splits: with an entry per byte, as in the code,
  one is enough, and without one the table is not overrun.
* `pmm_alloc_page` takes a frame that was never counted and takes one off the
  counter. From the first allocation on the number of free pages is too small,
  or wraps to the largest word, which is why `FreePagesCounted` stops there.
* `main.c` 1843 and 1869-1870 follow `framebuffers[0]` and `entries[i]` without
  a check; the one of `pmm.c` 45 comes after the entries have been printed.
* One flag stands for both Shift keys: when one is released while the other is
  held, Shift is off. `DecodedAsTyped` leaves that case out.
* While bytes keep coming `eX_Keyboard_Poll` does not return and the shell has
  no turn; the streams of `EverythingHandled` end.
* The console neither wraps nor scrolls, so after enough lines it writes below
  the framebuffer (`OutsideOnlyBelow` says when).
* `eX_Print` knows neither `%lu` nor `%0X`: the page counts of the PMM and the
  halves of the HHDM offset are printed as those characters, and the arguments
  are not used up. `%X` shows the low 32 bits of the address of a bug check.
* Eleven characters that can be typed have no glyph and are drawn blank:
  `$ & ; [ ] ^ { | } ~` and the backquote.
* `eX_PPA_Init` takes a bitmap at address 0 for none and halts. It relies on
  regions that neither wrap nor overlap, and writes the bitmap at a physical
  address.
* The help lists `echo`, which the shell does not know.
* "PPA initialized" is printed although `eX_PPA_Init` is never called.

## Fairness

* `Terminal`: weak fairness of the main loop, because the processor keeps
  executing it. Nothing is assumed of the keyboard, which may stop at any time.
* `Boot`: weak fairness of `kmain`, of taking a request that is deliverable,
  and of the timer's request (the PIT is periodic). Exceptions and other
  devices owe nothing.
* `Sleep`: weak fairness of the sleeper's own steps; the wake-up itself comes
  from the timer, by the fairness of `Boot`.

## Proofs

Every invariant and action property that a passing run checks is also a
theorem, for every value of the constants within the named assumptions of the
modules; so are both refinements. `PROJECT.json` lists the theorems with the
property each one states.

* **Zmm** (`ZmmInvariant`, `ZmmDisjoint`, `ZmmInHeap`, `ZmmFreeBlocksUnheld`,
  `ZmmSplitInTable`), for every heap, table and set of sizes, zero included. The
  properties are not inductive: a split may overwrite the entry of a live allocation, so
  disjointness cannot come from "every allocation has its entry". The
  invariant `IInv` says instead that the entries are apart from each other,
  that each entry is either an allocation's own or apart from it (up to the
  first free of a zero-byte pointer at another caller's address), and
  (`Staircase`) that an entry that covers anything starts at least as far into
  the heap as it is into the table, less one for each split made for zero
  bytes. `Staircase` is why the unchecked store to `blocks[i + 1]` stays in a
  table with an entry per byte until there is such a split: an entry that can
  be split is followed by at least one more byte of the heap.
* **Pmm** (`PmmInvariant`, `PmmUsableExact`, `PmmReserved`, `PmmCounter`),
  from `PMM_MAX_PHYS_ADDR + PMM_PAGE_SIZE <= WORD` and maps with
  no more entries than there are frames. The lemma `EntryFramesExact` shows
  that the code's cuts and roundings, in words that wrap, visit exactly the
  complete frames of a region; the invariant then follows the loop over the
  entries. The counter needs the cardinality of the cleared frames, and that it
  is that number less the allocations, modulo the word (`CounterBalance`).
* **Ppa and Pages** (`PagesInvariant`, `PagesFreeExact`, `PagesCountExact`,
  `PagesInBitmap`), for sound maps and `BITS <= PMM_PAGE_SIZE` (8
  and 4096 in the code), so that rounding the page count up to bytes does not wrap.
  The invariant says, loop by loop, that `highest_address` is above every
  region (`HighestInv`), that the bitmap lies at the start of a region that
  holds it (`PlacedInv`), and that the free pages are those of the entries done
  so far, counted exactly (`FreeInv`). No page is released twice, since two
  usable regions that do not overlap share no complete page
  (`NoSharedPage`).
* **Keyboard** (`KeyboardImplementsQueue`), for every buffer size from 1 to
  256. The refinement mapping reads the ring from the read index on. The
  lemmas `PushAppends` and `GetTakesHead` show what the two index updates do
  to that sequence, from arithmetic modulo the buffer size; the invariant
  (`IndexInv`) keeps the indices in range and the cells typeable.
  `KeyboardCapsLock` is about the two tables: `TablesAgree` compares them code
  by code, and caps lock swaps the case of a letter (`CapsSwaps`).
* **Typing** (`TypingDecoded`, `TypingModifiers`), for every set of keys whose
  codes are of the forms of scancode set 1 (`TypingAssumption`: one byte below
  128, or a longer code that types nothing; only a Shift key has a break code
  that matters). What the driver knows now says little while bytes wait in the
  controller, so the invariant speaks of the future: `Runs(d, q, f)` says that
  the bytes `q` take the driver from `d` to `f`, and `TypingInv` that the
  waiting bytes take it to a state that agrees with the user. A stroke or a
  release extends the run at its end (`RunsByte`, `RunsMute`), a poll takes
  its first step (`RunsTail`). `OneShift` carries the condition about
  overlapping Shift keys.
* **Terminal** (`TerminalBursts`, `TerminalTranscript`), for every ring, line
  size and sequence of bytes. `BurstInv` bounds the characters in the ring by
  the bytes polled in this round. `TranscriptInv` has the same shape as
  `TypingInv`, one stage later: the driver's modifiers follow the bytes polled
  so far, and the characters that wait in the ring edit the shell's line into
  the one those bytes mean (`Leads`). `ShellEdits` reduces the shell's step,
  with its stale buffer and terminator, to an edit of the line.
* **Shell** (`ShellInvariant`, `ShellTypeOK`, `ShellPrompt`, `ShellScreen`,
  `ShellOutside`, `ShellRefinement`), for every line size and framebuffer.
  What the commands print are complete lines (`ShellAssumption`); the results
  about the screen are for one that is wide enough for the prompt with a full
  line, the reply to an unknown command, and each line of the other replies
  (`WideEnough`). The line on the screen is not inductive alone: the next
  prompt is drawn on the rows below, so the invariant also says that these are
  blank (`BelowBlank`). The lemmas `RowText` and `LinesText` say what printing
  a text of any length does, by induction on the text. The refinement needs
  that the terminator cuts the stale tail off (`TerminatedLine`).
* **Boot** (`BootHandlerNeverPrintsAsync`, `BootAnswersChecked`,
  `BootHaltIsFinal`, `BootResetOnlyByKeyboard`), for every set of requests and
  exceptions and all answers of the boot loader. The invariant ties the
  interrupt flag and the tick counter to `pc` (`FlagInv`: interrupts are on only behind `sti`, and the counter is
  not 0 behind the `int $0x20` of `kmain`, so that no later tick prints), and
  the loaded gates to the early checks (`CheckedInv`: the handlers draw on a
  framebuffer that was looked at) and to the loaded segments (`GateInv`: behind
  a loaded IDT are all three gates and the kernel's own code segment, and only
  IRQ 0 and 1 are let through). `BootAnswersChecked` has the condition
  `CountsKept` in its statement, `BootResetOnlyByKeyboard` that the exceptions
  are those with a handler.
* **Elf** (`ElfInvariant`, `ElfReads`, `ElfVerdict`), for every image and word
  size in which the program header table's size does not wrap (65535 headers
  of 56 bytes do not). The invariant `LoopInv` says what the loop has
  established about the headers before `i`; the lemmas show that each check of
  the code is its documented meaning in unbounded arithmetic.
* **Libc** (`LibcCallExact`, `LibcSourceIntact`), for every memory, byte size,
  contents and arguments. `CallExact` speaks of the end of a call only; the
  invariant says for each address whether the loop has passed it and what it
  holds in either case (`LibcProgress`), and that `memcmp` has met no
  difference (`EqualSoFar`). The lemma `PendingUnwritten` is where the
  direction of `memmove` matters: the addresses already written and the source
  positions still to be read are apart.
* **Printing** (`PrintInvariant`, `PrintDigitsFit`, `PrintOverread`,
  `PrintExact`), for every format, with ints of even range no wider than the
  slots, a buffer for the digits of the widest number in base 4 (2^64 <= 4^32)
  and calls with an argument for each directive (`WidthAssumption`,
  `CallAssumption`). The invariant relates the loop to a reader that takes the
  format one character at a time (`Reading`): between directives the text is
  the reader's (`TextInv`), and while a number is converted the buffer holds
  its last digits in reverse and `value` is what remains of it (`Converted`).
  `FitInv` bounds the remaining value by a power of 4 for each free place of
  the buffer.
* **Framebuffer** (`FramebufferShowsGlyphs`, `FramebufferWritesInMemory`), for every
  width, padding, height and glyphs. A place in memory belongs to one
  row and column only (`PlaceUnique`), so a glyph changes the cells that
  `Console` says it covers and no other (`DrawnCell`).

Induction over data: the induction rules of the library take a predicate as a
parameter, which the provers cannot instantiate. `Induction` states the rule
for sets instead (`SetInduction`: a set with 0 that has `n + 1` with every `n`
has every natural number), and each proof by induction names the set of the
numbers for which its claim holds. With it the recursive functions `Progress`,
`Power`, `Reading` and `Transcript` are shown to satisfy their definitions.

Only model-checked: the liveness properties (`EverythingHandled`,
`TimerKeepsTicking`, `BootCompletes`, `SleepReturns`), which need fairness,
and the correspondence of the mask test of `elf_valid_alignment` with powers of
two (an assumption that TLC evaluates in `MCElf`).

## Not modelled

* The unused logo and scaled characters (`eX_DrawLogo`, `eX_DrawScaledChar`)
  and `eX_PIC_UnmaskIRQ`: no code calls them, and what they would interact with
  is not there.
* The bitmaps of the glyphs, except for two in the run `routines`: data without
  a definition to check them against. Which characters have a glyph is modelled.
* The diagnostic port readings of the boot, which are printed and not used.
* What follows the end of a format in memory, when `eX_Print` reads on.
* The Limine header (declarations; the answers are inputs of `Boot`, `Pmm` and
  `Ppa`) and the build files.

## Plan

Done, in this order: `Zmm`, `Pmm`, `Keyboard` with `CharQueue` and `Typing`,
`Console`, `Shell` with `LineEditor`, `Terminal`, `Boot`, `Elf`; then `Libc`,
`Printing`, `Framebuffer`, `Routines`, `Ppa`, `Pages` and `Sleep`; then the
proofs of all safety properties.

Next:

1. A theorem on `Sleep`: a sleeper that has returned has slept at least as
   long as it was asked to.
2. Where a theorem still assumes more than the code needs (`WideEnough`,
   `SoundMap`), the weakest condition under which it holds.
