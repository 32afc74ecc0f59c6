----------------------------- MODULE PllUsersMC ------------------------------
(* A FIFO of two bytes and calls of up to three: chunks are cut short, the     *)
(* FIFO fills, drains and is refilled while the last frame is on the wire.     *)
(* Two pending DMA events: a third one is dropped, and so may be one of two    *)
(* that are written at once.  One lock may go astray.                          *)
EXTENDS PllUsers
===============================================================================
