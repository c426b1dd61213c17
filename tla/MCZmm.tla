------------------------------- MODULE MCZmm -------------------------------
(* TLC instances of Zmm: the heap is as many bytes as the table has entries,  *)
(* as in the kernel (1024 and 1024), with callers enough to fill it, or to    *)
(* fill it but for one byte and hold a pointer to no bytes.                   *)
EXTENDS Zmm, TLC

ClientSymmetry == Permutations(Clients)
=============================================================================
