------------------------------ MODULE SchedulerMC -----------------------------
(* A small pool: holes, a full pool and a moving bound all happen with three   *)
(* slots; a delay of Infinity makes the 64-bit sum wrap.                       *)
EXTENDS Scheduler

SomeDelays == {0, 1, Infinity}
===============================================================================
