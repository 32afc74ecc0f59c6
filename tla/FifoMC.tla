-------------------------------- MODULE FifoMC --------------------------------
(* An instance of Fifo small enough to enumerate, big enough to wrap and fill  *)
(* inside one call.  The loops only move bytes: their values may be permuted.  *)
EXTENDS Fifo, TLC

BothContexts == {"main", "irq"}
ByteSymmetry == Permutations(Byte)
===============================================================================
