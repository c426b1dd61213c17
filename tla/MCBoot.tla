------------------------------- MODULE MCBoot -------------------------------
(***************************************************************************)
(* TLC instances of Sleep, and with it Boot: the timer, the keyboard and a *)
(* masked device raise requests, and the exceptions with a gate may happen *)
(* anywhere.                                                               *)
(***************************************************************************)
EXTENDS Sleep, TLC
=============================================================================
