-------------------------------- MODULE AdcMC --------------------------------
(***************************************************************************)
(* Three channels, so that one can wait behind two that take turns.        *)
(***************************************************************************)
EXTENDS Adc
===============================================================================
