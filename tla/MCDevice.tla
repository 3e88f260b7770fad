------------------------------ MODULE MCDevice ------------------------------
(* Two networks, and one reset.                               *)
EXTENDS Device
=============================================================================
