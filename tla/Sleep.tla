------------------------------- MODULE Sleep --------------------------------
(***************************************************************************)
(* eX_Sleep (src/src/main.c) beside the boot and the timer of Boot: a      *)
(* caller in the main loop waits for ticks, halting the processor until    *)
(* the next interrupt.  An interrupt may be taken between the test of the  *)
(* counter and the hlt instruction.  The kernel does not call eX_Sleep yet.*)
(***************************************************************************)
EXTENDS Boot

CONSTANTS
  eX_PIT_FREQUENCY,   \* ticks in a second
  Seconds             \* durations the caller asks for

ASSUME SleepAssumption ==
  /\ eX_PIT_FREQUENCY \in Nat \ {0}
  /\ Seconds \subseteq Nat

VARIABLES
  sleep,     \* "awake", at the "test" or before the "hlt", or "halted"
  target     \* the tick to wait for

sleepVars == <<vars, sleep, target>>

SleepInit ==
  /\ Init
  /\ sleep = "awake"
  /\ target = 0

\* The counter of 64 bits does not overflow; the model's ends at MAX_TICKS.
eX_Sleep(seconds) ==
  /\ pc = "loop"
  /\ sleep = "awake"
  /\ eX_TimerTicks + seconds * eX_PIT_FREQUENCY <= MAX_TICKS
  /\ target' = eX_TimerTicks + seconds * eX_PIT_FREQUENCY
  /\ sleep' = "test"
  /\ UNCHANGED vars

\* Variant: the loop waits for the tick itself, not for one that is past it.
DueExactly == eX_TimerTicks = target

Due == eX_TimerTicks >= target

Test ==
  /\ ~Stopped
  /\ sleep = "test"
  /\ sleep' = IF Due THEN "awake" ELSE "hlt"
  /\ UNCHANGED <<vars, target>>

Hlt ==
  /\ ~Stopped
  /\ sleep = "hlt"
  /\ sleep' = "halted"
  /\ UNCHANGED <<vars, target>>

\* The processor goes on behind the hlt when a handler returns.
Interrupted(irq) ==
  /\ TakeIrq(irq)
  /\ sleep' = IF sleep = "halted" THEN "test" ELSE sleep
  /\ UNCHANGED target

SleepNext ==
  \/ \E seconds \in Seconds : eX_Sleep(seconds)
  \/ Test
  \/ Hlt
  \/ \E irq \in RaisedIrqs : Interrupted(irq)
  \/ /\ \/ kmain
        \/ \E irq \in RaisedIrqs : Raise(irq)
        \/ \E vector \in Faults : Fault(vector)
     /\ UNCHANGED <<sleep, target>>

\* The processor keeps executing the loop of eX_Sleep; nobody has to call it.
SleepSpec == SleepInit /\ [][SleepNext]_sleepVars /\ Fairness /\ WF_sleepVars(Test \/ Hlt)

-----------------------------------------------------------------------------
(***************************************************************************)
(* Properties.                                                             *)
(***************************************************************************)

\* A sleeper always wakes up: a tick that comes between the test and the hlt,
\* and so does not end the hlt, is made up for by the next one, since the timer
\* is periodic and the test accepts a later tick (main.c:1382-1388).
SleepReturns == sleep # "awake" ~> sleep = "awake" \/ Stopped
=============================================================================
