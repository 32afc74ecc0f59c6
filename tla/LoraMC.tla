-------------------------------- MODULE LoraMC --------------------------------
(***************************************************************************)
(* One item with two values, set twice: again while it is saved, or after  *)
(* that.                                                                   *)
(***************************************************************************)
EXTENDS Lora

CONSTANTS zero, one, m1
===============================================================================
