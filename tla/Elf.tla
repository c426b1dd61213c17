--------------------------------- MODULE Elf ---------------------------------
(***************************************************************************)
(* The ELF image validator (src/src/elf.c): elf_validate_image as a state  *)
(* machine, one step for the header and one for each program header.       *)
(*                                                                         *)
(* Offsets, addresses and sizes are unsigned words of WORD values.  The    *)
(* bytes of the image are abstracted to what the code reads: the magic     *)
(* number, whether the header's other fixed fields are the required ones   *)
(* (class, byte order, versions, machine, type, sizes), and the contents   *)
(* of the program header table.                                            *)
(***************************************************************************)
EXTENDS Integers, Sequences

CONSTANTS
  WORD,           \* number of uint64_t values
  EHDR_SIZE,      \* sizeof(Elf64_Ehdr)
  PHDR_SIZE,      \* sizeof(Elf64_Phdr)
  PT_LOAD,
  PhdrTypes,
  Null,           \* the null pointer
  Images          \* the arguments of elf_validate_image

Word == 0 .. WORD - 1

Phdr == [p_type : PhdrTypes, pf_x : BOOLEAN, p_offset : Word, p_vaddr : Word,
         p_filesz : Word, p_memsz : Word, p_align : Word]

\* table[k + 1] is what the image holds at e_phoff + k * PHDR_SIZE.
Image == [null : BOOLEAN, size : Word, magic : BOOLEAN, fixed_fields : BOOLEAN,
          e_entry : Word, e_phoff : Word, table : Seq(Phdr)]

ASSUME ElfAssumption ==
  /\ WORD \in Nat /\ EHDR_SIZE \in Nat /\ PHDR_SIZE \in Nat
  /\ 4 <= EHDR_SIZE
  /\ Null \notin Word
  /\ Images \subseteq Image
  \* 65535 headers of 56 bytes are no uint64_t overflow.
  /\ \A image \in Images : Len(image.table) * PHDR_SIZE < WORD

VARIABLES
  image,
  i,                     \* the loop variable
  found_load_segment,
  entry_is_executable,
  pc,                    \* "start", "loop", "accepted" or "rejected"
  reads                  \* the [offset, length) ranges of the image read

vars == <<image, i, found_load_segment, entry_is_executable, pc, reads>>

Init ==
  /\ image \in Images
  /\ i = 0
  /\ found_load_segment = FALSE
  /\ entry_is_executable = FALSE
  /\ pc = "start"
  /\ reads = {}

-----------------------------------------------------------------------------
(* The checks                                                              *)

\* Variant: the sum is compared, and may wrap.
RangeValidBySum(offset, length, size) == (offset + length) % WORD <= size

elf_range_valid(offset, length, size) == offset <= size /\ length <= size - offset

elf_add_overflow(a, b) == b > (WORD - 1) - a

\* alignment & (alignment - 1) is zero exactly for zero and the powers of two.
elf_valid_alignment(alignment) ==
  alignment <= 1 \/ \E n \in 0 .. alignment : alignment = 2 ^ n

elf_check_file(img) == ~img.null /\ img.size >= 4 /\ img.magic

e_phnum(img)    == Len(img.table)
table_size(img) == (e_phnum(img) * PHDR_SIZE) % WORD

elf_check_supported(img) ==
  /\ elf_check_file(img)
  /\ img.size >= EHDR_SIZE
  /\ img.fixed_fields
  /\ e_phnum(img) # 0
  /\ elf_range_valid(img.e_phoff, table_size(img), img.size)

\* The bytes elf_check_supported reads: the magic number once the image is
\* long enough for it, then the header once the image is long enough for that.
HeaderReads(img) ==
  (IF ~img.null /\ img.size >= 4 THEN {<<0, 4>>} ELSE {})
    \cup (IF elf_check_file(img) /\ img.size >= EHDR_SIZE THEN {<<0, EHDR_SIZE>>} ELSE {})

header_offset(img, index) == (img.e_phoff + index * PHDR_SIZE) % WORD

\* The offset of a program header in the image, or Null.
elf_program_header(img, index) ==
  IF /\ elf_check_supported(img)
     /\ index < e_phnum(img)
     /\ elf_range_valid(header_offset(img, index), PHDR_SIZE, img.size)
    THEN header_offset(img, index) ELSE Null

elf_check_load_segment(img, phdr) ==
  /\ phdr.p_type = PT_LOAD
  /\ phdr.p_filesz <= phdr.p_memsz
  /\ elf_range_valid(phdr.p_offset, phdr.p_filesz, img.size)
  /\ ~elf_add_overflow(phdr.p_vaddr, phdr.p_memsz)
  /\ elf_valid_alignment(phdr.p_align)
  /\ phdr.p_align > 1 => phdr.p_vaddr % phdr.p_align = phdr.p_offset % phdr.p_align

\* Variant: the end of the segment counts as inside.
HoldsEntryAtEnd(img, phdr) ==
  /\ phdr.pf_x
  /\ img.e_entry >= phdr.p_vaddr
  /\ img.e_entry - phdr.p_vaddr <= phdr.p_memsz

\* The entry point is in the memory of an executable segment.
HoldsEntry(img, phdr) ==
  /\ phdr.pf_x
  /\ phdr.p_memsz # 0
  /\ img.e_entry >= phdr.p_vaddr
  /\ img.e_entry - phdr.p_vaddr < phdr.p_memsz

-----------------------------------------------------------------------------
(* elf_validate_image                                                      *)

ValidateHeader ==
  /\ pc = "start"
  /\ pc' = IF elf_check_supported(image) THEN "loop" ELSE "rejected"
  /\ reads' = reads \cup HeaderReads(image)
  /\ UNCHANGED <<image, i, found_load_segment, entry_is_executable>>

NextIndex == i + 1

\* One turn of the loop.  A segment that is not to be loaded is passed over.
ValidateSegment ==
  /\ pc = "loop"
  /\ i < e_phnum(image)
  /\ LET offset == elf_program_header(image, i)
         phdr   == image.table[i + 1]
         load   == phdr.p_type = PT_LOAD
     IN  \/ /\ offset = Null \/ (load /\ ~elf_check_load_segment(image, phdr))
            /\ pc' = "rejected"
            /\ reads' = IF offset = Null THEN reads ELSE reads \cup {<<offset, PHDR_SIZE>>}
            /\ UNCHANGED <<image, i, found_load_segment, entry_is_executable>>
         \/ /\ offset # Null
            /\ load => elf_check_load_segment(image, phdr)
            /\ i' = NextIndex
            /\ found_load_segment' = (found_load_segment \/ load)
            /\ entry_is_executable' =
                 (entry_is_executable \/ (load /\ HoldsEntry(image, phdr)))
            /\ reads' = reads \cup {<<offset, PHDR_SIZE>>}
            /\ UNCHANGED <<image, pc>>

Verdict == IF found_load_segment /\ entry_is_executable THEN "accepted" ELSE "rejected"

ValidateEnd ==
  /\ pc = "loop"
  /\ i >= e_phnum(image)
  /\ pc' = Verdict
  /\ UNCHANGED <<image, i, found_load_segment, entry_is_executable, reads>>

Next == ValidateHeader \/ ValidateSegment \/ ValidateEnd

Spec == Init /\ [][Next]_vars

-----------------------------------------------------------------------------
(***************************************************************************)
(* Properties, in unbounded arithmetic.                                    *)
(***************************************************************************)

\* The variables have the values of their C types.
TypeOK ==
  /\ image \in Images
  /\ i \in 0 .. e_phnum(image)
  /\ found_load_segment \in BOOLEAN
  /\ entry_is_executable \in BOOLEAN
  /\ pc \in {"start", "loop", "accepted", "rejected"}
  /\ reads \subseteq Word \X Nat

\* The validator never reads a byte outside the image, not even of one that
\* it rejects and whatever the offsets in the image say ("Validate the
\* complete table before accessing any entry.", elf.c:241).
ReadsInImage == \A r \in reads : r[1] + r[2] <= image.size

\* A segment that can be loaded, by the list above elf_check_load_segment
\* (elf.c:302-307).
Loadable(img, phdr) ==
  /\ phdr.p_offset + phdr.p_filesz <= img.size
  /\ phdr.p_filesz <= phdr.p_memsz
  /\ phdr.p_vaddr + phdr.p_memsz < WORD
  /\ phdr.p_align <= 1 \/ \E n \in 0 .. phdr.p_align : phdr.p_align = 2 ^ n
  /\ phdr.p_align # 0 => phdr.p_vaddr % phdr.p_align = phdr.p_offset % phdr.p_align

\* The indices of the segments to load.
LoadIndices(img) == {k \in 1 .. Len(img.table) : img.table[k].p_type = PT_LOAD}

\* An image that can be run, by the list above elf_validate_image
\* (elf.c:353-361).
Runnable(img) ==
  /\ ~img.null /\ img.magic /\ img.fixed_fields
  /\ EHDR_SIZE <= img.size
  /\ img.e_phoff + Len(img.table) * PHDR_SIZE <= img.size
  /\ \A k \in LoadIndices(img) : Loadable(img, img.table[k])
  /\ \E k \in LoadIndices(img) :
       /\ img.table[k].pf_x
       /\ img.table[k].p_vaddr <= img.e_entry
       /\ img.e_entry < img.table[k].p_vaddr + img.table[k].p_memsz

\* The verdict is exactly the documented one, although the code computes in
\* words that wrap: what is accepted can be run, what is rejected cannot.
VerdictExact ==
  /\ pc = "accepted" => Runnable(image)
  /\ pc = "rejected" => ~Runnable(image)
=============================================================================
