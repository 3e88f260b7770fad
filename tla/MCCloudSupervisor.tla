------------------------- MODULE MCCloudSupervisor -------------------------
(* CloudSupervisor on small instances. *)
EXTENDS CloudSupervisor
=============================================================================
