------------------------------ MODULE CharQueue ------------------------------
(***************************************************************************)
(* What the keyboard driver promises its reader: a bounded queue of        *)
(* characters.  A character offered to a full queue is dropped; every      *)
(* other one is delivered once, in the order of arrival.                   *)
(***************************************************************************)
EXTENDS Integers, Sequences

CONSTANTS
  Capacity,   \* characters the queue can hold
  Chars,      \* characters that may be offered
  NoChar      \* the answer of an empty queue

VARIABLES
  queue,      \* the characters waiting
  got,        \* the answer of the last Get
  drop        \* flips when a character is dropped

vars == <<queue, got, drop>>

Init ==
  /\ queue = <<>>
  /\ got = NoChar
  /\ drop = FALSE

Put(c) ==
  \/ /\ Len(queue) < Capacity
     /\ queue' = Append(queue, c)
     /\ UNCHANGED <<got, drop>>
  \/ /\ Len(queue) = Capacity
     /\ drop' = ~drop
     /\ UNCHANGED <<queue, got>>

Get ==
  \/ /\ queue # <<>>
     /\ got' = Head(queue)
     /\ queue' = Tail(queue)
     /\ UNCHANGED drop
  \/ /\ queue = <<>>
     /\ got' = NoChar
     /\ UNCHANGED <<queue, drop>>

Next == Get \/ \E c \in Chars : Put(c)

Spec == Init /\ [][Next]_vars
=============================================================================
