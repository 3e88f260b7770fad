---------------------------- MODULE MCWanService ----------------------------
(* WanService on small instances. *)
EXTENDS WanService

\* Two message ids are enough: one SUBACK is outstanding at a time, and its id
\* is only compared with the one stored last.
MCMsgId == {1, 2}
=============================================================================
