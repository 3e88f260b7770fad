---------------------------- MODULE MCBleConfig ----------------------------
(* BleConfig on small instances. *)
EXTENDS BleConfig
=============================================================================
