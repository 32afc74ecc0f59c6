------------------------------ MODULE DevicesMC ------------------------------
(***************************************************************************)
(* All the drivers of the table, each started on its own, and the WiFi     *)
(* modem with three requests, so that one can follow a failed one in a new *)
(* connection, and with a command the modem repeats and one it does not.   *)
(***************************************************************************)
EXTENDS Devices

AllDrivers == DOMAIN Table
===============================================================================
