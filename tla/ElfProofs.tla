------------------------------ MODULE ElfProofs ------------------------------
(***************************************************************************)
(* Proofs about Elf, for every word size, header size and set of images:   *)
(* the verdict is the documented one and no byte outside the image is read.*)
(***************************************************************************)
EXTENDS Elf, TLAPS

-----------------------------------------------------------------------------
(* The word arithmetic of the checks is exact                              *)

\* elf_range_valid compares without a sum and decides what the sum says.
LEMMA RangeValid ==
  ASSUME NEW offset \in Nat, NEW length \in Nat, NEW size \in Nat
  PROVE  elf_range_valid(offset, length, size) <=> offset + length <= size
  BY DEF elf_range_valid

\* A word is its own remainder.
LEMMA SmallMod ==
  ASSUME NEW n \in Nat, NEW x \in 0 .. n - 1
  PROVE  x % n = x
  OBVIOUS

\* The table's size does not wrap.
LEMMA TableSize ==
  ASSUME NEW img \in Images
  PROVE  /\ e_phnum(img) \in Nat
         /\ table_size(img) = e_phnum(img) * PHDR_SIZE
         /\ table_size(img) \in Nat
<1>1. e_phnum(img) \in Nat /\ PHDR_SIZE \in Nat /\ WORD \in Nat
  BY ElfAssumption DEF e_phnum, Image
<1>2. e_phnum(img) * PHDR_SIZE \in Nat
  BY <1>1
<1>3. e_phnum(img) * PHDR_SIZE < WORD
  BY ElfAssumption DEF e_phnum
<1>4. (e_phnum(img) * PHDR_SIZE) % WORD = e_phnum(img) * PHDR_SIZE
  BY <1>1, <1>2, <1>3, SmallMod
<1> QED
  BY <1>1, <1>2, <1>4 DEF table_size

\* A header before the end of the table lies before the table's end.
LEMMA EntryBelowTable ==
  ASSUME NEW n \in Nat, NEW k \in 0 .. n - 1, NEW p \in Nat
  PROVE  k * p \in Nat /\ k * p + p <= n * p
<1>1. n * p - (k * p + p) = (n - k - 1) * p
  OBVIOUS
<1>2. (n - k - 1) * p \in Nat
  OBVIOUS
<1> QED
  BY <1>1, <1>2

\* After elf_check_supported, elf_program_header never fails inside the table
\* and returns a header inside the image: the offset does not wrap.
LEMMA ProgramHeaderInImage ==
  ASSUME NEW img \in Images, elf_check_supported(img), NEW k \in 0 .. e_phnum(img) - 1
  PROVE  /\ elf_program_header(img, k) \in Word
         /\ elf_program_header(img, k) # Null
         /\ elf_program_header(img, k) + PHDR_SIZE <= img.size
<1> DEFINE n == e_phnum(img)
<1>1. /\ n \in Nat /\ PHDR_SIZE \in Nat /\ WORD \in Nat
      /\ table_size(img) = n * PHDR_SIZE /\ n * PHDR_SIZE \in Nat
  BY ElfAssumption, TableSize
<1>2. img.e_phoff \in Word /\ img.size \in Word
  BY ElfAssumption DEF Image
<1>3. img.e_phoff + n * PHDR_SIZE <= img.size
  BY <1>1, <1>2, RangeValid DEF elf_check_supported, Word
<1>4. k * PHDR_SIZE \in Nat /\ k * PHDR_SIZE + PHDR_SIZE <= n * PHDR_SIZE
  BY <1>1, EntryBelowTable
<1> HIDE DEF n
<1>5. /\ img.e_phoff + k * PHDR_SIZE \in 0 .. WORD - 1
      /\ img.e_phoff + k * PHDR_SIZE + PHDR_SIZE <= img.size
  BY <1>1, <1>2, <1>3, <1>4 DEF Word
<1>6. header_offset(img, k) = img.e_phoff + k * PHDR_SIZE
  BY <1>1, <1>5, SmallMod DEF header_offset
<1>7. /\ header_offset(img, k) \in Word
      /\ header_offset(img, k) + PHDR_SIZE <= img.size
  BY <1>5, <1>6 DEF Word
<1>8. elf_range_valid(header_offset(img, k), PHDR_SIZE, img.size)
  BY <1>1, <1>2, <1>7, RangeValid DEF Word
<1>9. k < e_phnum(img)
  BY <1>1 DEF n
<1>10. elf_program_header(img, k) = header_offset(img, k)
  BY <1>8, <1>9 DEF elf_program_header
<1> QED
  BY <1>7, <1>10, ElfAssumption

\* For a segment to load, elf_check_load_segment is the documented list.
LEMMA SegmentCheckExact ==
  ASSUME NEW img \in Images, NEW phdr \in Phdr, phdr.p_type = PT_LOAD
  PROVE  elf_check_load_segment(img, phdr) <=> Loadable(img, phdr)
<1>1. /\ img.size \in Nat /\ WORD \in Nat
      /\ phdr.p_offset \in Nat /\ phdr.p_vaddr \in Nat
      /\ phdr.p_filesz \in Nat /\ phdr.p_memsz \in Nat /\ phdr.p_align \in Nat
  BY ElfAssumption DEF Image, Phdr, Word
<1>2. elf_range_valid(phdr.p_offset, phdr.p_filesz, img.size)
        <=> phdr.p_offset + phdr.p_filesz <= img.size
  BY <1>1, RangeValid
<1>3. ~elf_add_overflow(phdr.p_vaddr, phdr.p_memsz) <=> phdr.p_vaddr + phdr.p_memsz < WORD
  BY <1>1 DEF elf_add_overflow
<1>4. (phdr.p_align > 1 => phdr.p_vaddr % phdr.p_align = phdr.p_offset % phdr.p_align)
        <=> (phdr.p_align # 0 => phdr.p_vaddr % phdr.p_align = phdr.p_offset % phdr.p_align)
  <2>1. phdr.p_vaddr % 1 = 0 /\ phdr.p_offset % 1 = 0
    BY <1>1
  <2> QED
    BY <1>1, <2>1
<1> QED
  BY <1>2, <1>3, <1>4 DEF elf_check_load_segment, Loadable, elf_valid_alignment

-----------------------------------------------------------------------------
(* The inductive invariant                                                 *)

\* What the loop has established about the headers before i.
LoopInv ==
  pc = "loop" =>
    /\ elf_check_supported(image)
    /\ \A k \in 1 .. i : image.table[k].p_type = PT_LOAD => Loadable(image, image.table[k])
    /\ found_load_segment <=> \E k \in 1 .. i : image.table[k].p_type = PT_LOAD
    /\ entry_is_executable <=>
         \E k \in 1 .. i : image.table[k].p_type = PT_LOAD /\ HoldsEntry(image, image.table[k])

\* Nothing has happened before the header is checked.
StartInv ==
  pc = "start" => i = 0 /\ found_load_segment = FALSE /\ entry_is_executable = FALSE

IInv == TypeOK /\ ReadsInImage /\ StartInv /\ LoopInv /\ VerdictExact

\* The types of an image's parts.
LEMMA ImageTypes ==
  ASSUME NEW img \in Images
  PROVE  /\ img.size \in Word /\ img.e_entry \in Word /\ img.e_phoff \in Word
         /\ img.table \in Seq(Phdr) /\ e_phnum(img) = Len(img.table) /\ Len(img.table) \in Nat
         /\ \A k \in 1 .. Len(img.table) : img.table[k] \in Phdr
         /\ WORD \in Nat /\ EHDR_SIZE \in Nat /\ PHDR_SIZE \in Nat /\ 4 <= EHDR_SIZE
  BY ElfAssumption DEF Image, e_phnum

\* The entry point test of the code, without a subtraction.
LEMMA HoldsEntryExact ==
  ASSUME NEW img \in Images, NEW phdr \in Phdr
  PROVE  HoldsEntry(img, phdr) <=>
           phdr.pf_x /\ phdr.p_vaddr <= img.e_entry
             /\ img.e_entry < phdr.p_vaddr + phdr.p_memsz
<1>1. img.e_entry \in Nat /\ phdr.p_vaddr \in Nat /\ phdr.p_memsz \in Nat
  BY ImageTypes DEF Phdr, Word
<1> QED
  BY <1>1 DEF HoldsEntry

\* An image that fails the header check cannot be run.
LEMMA UnsupportedNotRunnable ==
  ASSUME NEW img \in Images, ~elf_check_supported(img)
  PROVE  ~Runnable(img)
<1>1. elf_range_valid(img.e_phoff, table_size(img), img.size)
        <=> img.e_phoff + Len(img.table) * PHDR_SIZE <= img.size
  <2>1. img.e_phoff \in Nat /\ img.size \in Nat /\ e_phnum(img) = Len(img.table)
    BY ImageTypes DEF Word
  <2>2. /\ table_size(img) = Len(img.table) * PHDR_SIZE
        /\ Len(img.table) * PHDR_SIZE \in Nat
    BY <2>1, TableSize
  <2> QED
    BY <2>1, <2>2, RangeValid
<1>2. EHDR_SIZE <= img.size => img.size >= 4 /\ img.size >= EHDR_SIZE
  BY ImageTypes DEF Word
<1>3. e_phnum(img) = 0 => LoadIndices(img) = {}
  BY ImageTypes DEF LoadIndices
<1> QED
  BY <1>1, <1>2, <1>3, Zenon DEF Runnable, elf_check_supported, elf_check_file

\* An image that passes the header check satisfies that part of Runnable.
LEMMA SupportedHeader ==
  ASSUME NEW img \in Images, elf_check_supported(img)
  PROVE  /\ ~img.null /\ img.magic /\ img.fixed_fields
         /\ EHDR_SIZE <= img.size
         /\ img.e_phoff + Len(img.table) * PHDR_SIZE <= img.size
<1>1. elf_range_valid(img.e_phoff, table_size(img), img.size)
        <=> img.e_phoff + Len(img.table) * PHDR_SIZE <= img.size
  <2>1. img.e_phoff \in Nat /\ img.size \in Nat /\ e_phnum(img) = Len(img.table)
    BY ImageTypes DEF Word
  <2>2. /\ table_size(img) = Len(img.table) * PHDR_SIZE
        /\ Len(img.table) * PHDR_SIZE \in Nat
    BY <2>1, TableSize
  <2> QED
    BY <2>1, <2>2, RangeValid
<1>2. img.size >= EHDR_SIZE => EHDR_SIZE <= img.size
  BY ImageTypes DEF Word
<1> QED
  BY <1>1, <1>2, Zenon DEF elf_check_supported, elf_check_file

\* At the end of the loop the verdict is the documented one.
LEMMA VerdictAtEnd ==
  ASSUME IInv, pc = "loop", i >= e_phnum(image)
  PROVE  (found_load_segment /\ entry_is_executable) <=> Runnable(image)
<1>1. image \in Images /\ i = Len(image.table)
  BY ImageTypes DEF IInv, TypeOK
<1>2. \A k \in LoadIndices(image) : Loadable(image, image.table[k])
  BY <1>1 DEF IInv, LoopInv, LoadIndices
<1>3. entry_is_executable <=>
        \E k \in LoadIndices(image) : HoldsEntry(image, image.table[k])
  BY <1>1 DEF IInv, LoopInv, LoadIndices
<1>4. \A k \in LoadIndices(image) :
        HoldsEntry(image, image.table[k]) <=>
          /\ image.table[k].pf_x
          /\ image.table[k].p_vaddr <= image.e_entry
          /\ image.e_entry < image.table[k].p_vaddr + image.table[k].p_memsz
  BY <1>1, ImageTypes, HoldsEntryExact DEF LoadIndices
<1>5. entry_is_executable => found_load_segment
  BY <1>1 DEF IInv, LoopInv
<1>6. /\ ~image.null /\ image.magic /\ image.fixed_fields
      /\ EHDR_SIZE <= image.size
      /\ image.e_phoff + Len(image.table) * PHDR_SIZE <= image.size
  BY <1>1, SupportedHeader DEF IInv, LoopInv
<1> QED
  BY <1>2, <1>3, <1>4, <1>5, <1>6, Zenon DEF Runnable

\* Every step of the validator preserves the invariant.
LEMMA Inductive ==
  ASSUME IInv, [Next]_vars
  PROVE  IInv'
<1> USE DEF IInv
<1>1. CASE ValidateHeader
  <2>1. TypeOK'
    <3>1. HeaderReads(image) \subseteq Word \X Nat
      BY ImageTypes DEF TypeOK, HeaderReads, Word, elf_check_file
    <3> QED
      BY <1>1, <3>1 DEF ValidateHeader, TypeOK
  <2>2. ReadsInImage'
    <3>1. \A r \in HeaderReads(image) : r[1] + r[2] <= image.size
      BY ImageTypes DEF TypeOK, HeaderReads, Word, elf_check_file
    <3> QED
      BY <1>1, <3>1 DEF ValidateHeader, ReadsInImage
  <2>3. LoopInv'
    <3>1. i = 0 /\ found_load_segment = FALSE /\ entry_is_executable = FALSE
      BY <1>1 DEF ValidateHeader, StartInv
    <3> QED
      BY <1>1, <3>1 DEF ValidateHeader, LoopInv
  <2>4. VerdictExact'
    BY <1>1, UnsupportedNotRunnable DEF ValidateHeader, VerdictExact, TypeOK
  <2>5. StartInv'
    BY <1>1 DEF ValidateHeader, StartInv
  <2> QED
    BY <2>1, <2>2, <2>3, <2>4, <2>5
<1>2. CASE ValidateSegment
  <2> DEFINE offset == elf_program_header(image, i)
             phdr   == image.table[i + 1]
             load   == phdr.p_type = PT_LOAD
  <2>1. /\ image \in Images /\ i \in 0 .. e_phnum(image) - 1
        /\ phdr \in Phdr /\ i + 1 \in 1 .. Len(image.table)
    BY <1>2, ImageTypes DEF ValidateSegment, NextIndex, TypeOK
  <2>2. offset \in Word /\ offset # Null /\ offset + PHDR_SIZE <= image.size
    BY <1>2, <2>1, ProgramHeaderInImage DEF ValidateSegment, NextIndex, LoopInv
  <2>3. load => (elf_check_load_segment(image, phdr) <=> Loadable(image, phdr))
    BY <2>1, SegmentCheckExact
  <2>4. reads' = reads \cup {<<offset, PHDR_SIZE>>} /\ image' = image
    BY <1>2, <2>2 DEF ValidateSegment, NextIndex
  <2>5. ReadsInImage'
    BY <2>2, <2>4 DEF ReadsInImage
  <2>6. TypeOK'
    <3>1. reads' \subseteq Word \X Nat
      BY <2>1, <2>2, <2>4, ImageTypes DEF TypeOK
    <3>2. i' \in 0 .. e_phnum(image)
      BY <1>2, <2>1, ImageTypes DEF ValidateSegment, NextIndex
    <3> QED
      BY <1>2, <2>4, <3>1, <3>2 DEF ValidateSegment, NextIndex, TypeOK
  <2>7. CASE load /\ ~elf_check_load_segment(image, phdr)
    <3>1. pc' = "rejected"
      BY <1>2, <2>7, <2>2 DEF ValidateSegment, NextIndex
    <3>2. ~Runnable(image)
      BY <2>1, <2>3, <2>7 DEF Runnable, LoadIndices
    <3> QED
      BY <2>4, <2>5, <2>6, <3>1, <3>2 DEF StartInv, LoopInv, VerdictExact
  <2>8. CASE load => elf_check_load_segment(image, phdr)
    <3>1. /\ pc' = "loop" /\ i' = i + 1
          /\ found_load_segment' = (found_load_segment \/ load)
          /\ entry_is_executable' = (entry_is_executable \/ (load /\ HoldsEntry(image, phdr)))
      BY <1>2, <2>8, <2>2 DEF ValidateSegment, NextIndex
    <3>2. \A k \in 1 .. i' : k \in 1 .. i \/ k = i + 1
      BY <2>1, <3>1, ImageTypes
    <3>3. 1 .. i \subseteq 1 .. i' /\ i + 1 \in 1 .. i'
      BY <2>1, <3>1, ImageTypes
    <3>4. pc = "loop"
      BY <1>2 DEF ValidateSegment, NextIndex
    <3>5. elf_check_supported(image)
      BY <3>4 DEF LoopInv
    <3>6. \A k \in 1 .. i' : image.table[k].p_type = PT_LOAD => Loadable(image, image.table[k])
      BY <2>3, <2>8, <3>2, <3>4 DEF LoopInv
    <3>7. found_load_segment' <=> \E k \in 1 .. i' : image.table[k].p_type = PT_LOAD
      BY <3>1, <3>2, <3>3, <3>4, Zenon DEF LoopInv
    <3>8. entry_is_executable' <=>
            \E k \in 1 .. i' : image.table[k].p_type = PT_LOAD /\ HoldsEntry(image, image.table[k])
      BY <3>1, <3>2, <3>3, <3>4, Zenon DEF LoopInv
    <3>9. LoopInv'
      BY <2>4, <3>5, <3>6, <3>7, <3>8 DEF LoopInv
    <3>10. VerdictExact'
      BY <3>1 DEF VerdictExact
    <3> QED
      BY <2>5, <2>6, <3>1, <3>9, <3>10 DEF StartInv
  <2> QED
    BY <2>7, <2>8
<1>3. CASE ValidateEnd
  <2>1. pc' \in {"accepted", "rejected"} /\ image' = image
    BY <1>3 DEF ValidateEnd, Verdict
  <2>2. VerdictExact'
    BY <1>3, VerdictAtEnd DEF ValidateEnd, Verdict, VerdictExact
  <2> QED
    BY <1>3, <2>1, <2>2 DEF ValidateEnd, TypeOK, ReadsInImage, StartInv, LoopInv
<1>4. CASE UNCHANGED vars
  BY <1>4 DEF vars, TypeOK, ReadsInImage, StartInv, LoopInv, VerdictExact
<1> QED
  BY <1>1, <1>2, <1>3, <1>4 DEF Next

\* The invariant holds in every state.
THEOREM ElfInvariant == Spec => []IInv
<1>1. Init => IInv
  <2>1. ASSUME Init PROVE TypeOK
    <3>1. 0 \in 0 .. e_phnum(image)
      BY <2>1, ImageTypes DEF Init
    <3> QED
      BY <2>1, <3>1 DEF Init, TypeOK
  <2>2. ASSUME Init PROVE ReadsInImage /\ StartInv /\ LoopInv /\ VerdictExact
    BY <2>2 DEF Init, ReadsInImage, LoopInv, StartInv, VerdictExact
  <2> QED
    BY <2>1, <2>2 DEF IInv
<1> QED
  BY <1>1, Inductive, PTL DEF Spec

\* elf_validate_image reads no byte outside the image, whatever the header and
\* the program headers say, for every image and every word size.
THEOREM ElfReads == Spec => []ReadsInImage
<1>1. IInv => ReadsInImage
  BY DEF IInv
<1> QED
  BY <1>1, ElfInvariant, PTL

\* The verdict of elf_validate_image is the documented one, for every image and
\* every word size.
THEOREM ElfVerdict == Spec => []VerdictExact
<1>1. IInv => VerdictExact
  BY DEF IInv
<1> QED
  BY <1>1, ElfInvariant, PTL
=============================================================================
