------------------------------ MODULE UartWriteMC -----------------------------
(* A FIFO of two bytes and calls of up to three: chunks are cut short, the     *)
(* FIFO fills, drains and is refilled while the last frame is on the wire.     *)
EXTENDS UartWrite
===============================================================================
