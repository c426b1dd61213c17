------------------------------ MODULE MCTyping ------------------------------
(***************************************************************************)
(* TLC instance of Typing: a letter, both Shift keys, caps lock, a key     *)
(* that sends fake Shift codes (Insert with NumLock on), and the keypad's  *)
(* Enter, whose code after the prefix is that of Enter.                    *)
(***************************************************************************)
EXTENDS Typing

CONSTANTS A, LShift, RShift, Caps, Insert, KeypadEnter

MCMake ==
  A :> <<\h1E>> @@ LShift :> <<\h2A>> @@ RShift :> <<\h36>> @@ Caps :> <<\h3A>>
    @@ Insert :> <<\hE0, \h2A, \hE0, \h52>> @@ KeypadEnter :> <<\hE0, \h1C>>

MCBreak ==
  A :> <<\h9E>> @@ LShift :> <<\hAA>> @@ RShift :> <<\hB6>> @@ Caps :> <<\hBA>>
    @@ Insert :> <<\hE0, \hD2, \hE0, \hAA>> @@ KeypadEnter :> <<\hE0, \h9C>>

AllBytes == 0 .. 255
=============================================================================
