------------------------------- MODULE ConfigMC -------------------------------
(* Two data words, so that a configuration can be torn between them.           *)
EXTENDS Config

Bits == {0, 1}
Zeros == [k \in 1..Words |-> 0]
TwoSignatures == {1, 2}
===============================================================================
