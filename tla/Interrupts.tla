----------------------------- MODULE Interrupts -----------------------------
(***************************************************************************)
(* Ctrl-C, as the code meets it: Python raises KeyboardInterrupt in the    *)
(* main thread, between any two of its steps, as often as the user presses *)
(* the keys.                                                               *)
(***************************************************************************)
EXTENDS Naturals

CONSTANT MaxInterrupts       \* bound: how often the user presses Ctrl-C

ASSUME InterruptsAssumption == MaxInterrupts \in Nat

VARIABLE interrupts          \* how often KeyboardInterrupt was raised so far

InterruptsInit == interrupts = 0

CtrlC == interrupts < MaxInterrupts /\ interrupts' = interrupts + 1
=============================================================================
