---------------------------- MODULE MCWifiDriver ----------------------------
(* A small instance of WifiDriver: one network, a queue of three codes     *)
(* where the driver has five, the three modes the driver supports.         *)
EXTENDS WifiDriver
=============================================================================
