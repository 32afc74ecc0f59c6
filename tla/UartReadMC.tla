------------------------------ MODULE UartReadMC ------------------------------
(* Finite and infinite timeouts on a clock of a few ticks.                     *)
EXTENDS UartRead

TwoAndInfinity == {2, Infinity}
Both == {1, Infinity}
===============================================================================
