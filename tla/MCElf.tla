-------------------------------- MODULE MCElf --------------------------------
(***************************************************************************)
(* TLC instance of Elf: words of 16 values, headers of four and of three  *)
(* bytes, and values at, just before and just after the limits the code    *)
(* tests.                                                                  *)
(***************************************************************************)
EXTENDS Elf, Bitwise

CONSTANT PT_NOTE

\* The test the code makes is the one of elf_valid_alignment.
ASSUME AlignmentByMask ==
  \A a \in 2 .. 30 : elf_valid_alignment(a) <=> (a & (a - 1)) = 0

\* One header, in place, with a segment of any kind.
OneSegment ==
  [null : {FALSE}, size : {7}, magic : {TRUE}, fixed_fields : {TRUE},
   e_entry : {0, 1, 4, 15}, e_phoff : {4},
   table : {<<p>> : p \in [p_type : {PT_LOAD, PT_NOTE}, pf_x : BOOLEAN,
                           p_offset : {0, 5, 7, 8, 15}, p_vaddr : {0, 1, 13, 15},
                           p_filesz : {0, 2, 3}, p_memsz : {0, 2, 3, 15},
                           p_align : {0, 1, 2, 3, 4}]}]

Segment(type, x, memsz, align) ==
  [p_type |-> type, pf_x |-> x, p_offset |-> 1, p_vaddr |-> 1,
   p_filesz |-> 1, p_memsz |-> memsz, p_align |-> align]

\* Executable, not executable, not to be loaded, and malformed.
Segments == {Segment(PT_LOAD, TRUE, 2, 2), Segment(PT_LOAD, FALSE, 2, 2),
             Segment(PT_NOTE, TRUE, 2, 2), Segment(PT_LOAD, TRUE, 2, 3)}

\* Images of any length, with tables of up to two headers anywhere.
AnyTable ==
  [null : BOOLEAN, size : {0, 3, 4, 7, 10, 15}, magic : BOOLEAN, fixed_fields : BOOLEAN,
   e_entry : {2, 3}, e_phoff : {0, 3, 4, 5, 7, 10, 14, 15},
   table : UNION {[1 .. n -> Segments] : n \in 0 .. 2}]
    \cup
  [null : {FALSE}, size : {13, 15}, magic : {TRUE}, fixed_fields : {TRUE},
   e_entry : {2}, e_phoff : {4, 7}, table : [1 .. 3 -> Segments]]

MCImages == OneSegment \cup AnyTable
=============================================================================
