----------------------------- MODULE WanSession -----------------------------
(***************************************************************************)
(* What a cloud session promises to the application that started it: the   *)
(* order in which its reports arrive (aiio_service_event_t).  A session is *)
(* launched, connects, may announce its activation, comes online; it ends  *)
(* with one failure report, and a disconnection may still be reported      *)
(* after a failure, because the service task looks at the disconnect bit   *)
(* once more before it ends.                                               *)
(***************************************************************************)
EXTENDS Naturals, Sequences

VARIABLE reports    \* the reports of the current session, oldest first

Failures == {"LANCH_FAIL", "SUBSCRIBE_TIMEOUT", "MQTT_DISCONNECT"}

\* The reports that may come next when the last one was `last`.
Follows(last) ==
    CASE last = "none"              -> {"MQTT_CONNECTED", "LANCH_FAIL", "MQTT_DISCONNECT"}
      [] last = "MQTT_CONNECTED"    -> {"ACTIVITY", "ONLINE", "SUBSCRIBE_TIMEOUT", "MQTT_DISCONNECT"}
      [] last = "ACTIVITY"          -> {"ONLINE", "MQTT_DISCONNECT"}
      [] last = "ONLINE"            -> {"MQTT_DISCONNECT"}
      [] last = "LANCH_FAIL"        -> {"MQTT_DISCONNECT"}
      [] last = "SUBSCRIBE_TIMEOUT" -> {"MQTT_DISCONNECT"}
      [] OTHER                      -> {}

LastReport == IF reports = <<>> THEN "none" ELSE reports[Len(reports)]

Init == reports = <<>>

Launch == reports' = <<>>

Report == \E e \in Follows(LastReport) : reports' = Append(reports, e)

Next == Launch \/ Report

Spec == Init /\ [][Next]_reports
=============================================================================
