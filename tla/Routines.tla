------------------------------ MODULE Routines ------------------------------
(***************************************************************************)
(* The routines of the kernel that keep no state of their own from one     *)
(* call to the next, or only the framebuffer: a behaviour is a call of a   *)
(* memory function (Libc), a call of eX_Print (Printing), or a sequence of *)
(* console operations (Framebuffer), from any of their starting states.    *)
(***************************************************************************)
EXTENDS Libc, Printing, Framebuffer

routinesVars == <<libcVars, printVars, framebufferVars>>

\* Calls that have returned: of memset for no bytes, and of eX_Print("").
LibcIdle ==
  /\ call = [fn |-> "memset", dest |-> 0, src |-> 0, n |-> 0, c |-> 0]
  /\ mem = [a \in Address |-> 0]
  /\ old = mem
  /\ i = 0 /\ running = FALSE /\ result = 0

PrintIdle ==
  /\ format = <<>> /\ args = <<>> /\ pos = 1 /\ arg = 1 /\ printed = <<>>
  /\ value = 0 /\ base = 10 /\ uppercase = FALSE /\ buffer = <<>>
  /\ printPc = "done"

FramebufferIdle ==
  /\ console = ClearedConsole
  /\ pixels = ClearPixels([n \in Memory |-> 255])
  /\ past = FALSE
  /\ drawn = MaxDrawn

RoutinesInit ==
  \/ LibcInit /\ PrintIdle /\ FramebufferIdle
  \/ PrintInit /\ LibcIdle /\ FramebufferIdle
  \/ FramebufferInit /\ LibcIdle /\ PrintIdle

RoutinesNext ==
  \/ LibcNext /\ UNCHANGED <<printVars, framebufferVars>>
  \/ eX_Print /\ UNCHANGED <<libcVars, framebufferVars>>
  \/ FramebufferNext /\ UNCHANGED <<libcVars, printVars>>

RoutinesSpec == RoutinesInit /\ [][RoutinesNext]_routinesVars
=============================================================================
