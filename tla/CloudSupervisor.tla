-------------------------- MODULE CloudSupervisor --------------------------
(***************************************************************************)
(* The cloud supervisor (src/src/cloud/aipi_cloud.c): one task that takes  *)
(* events from a queue and starts or stops BLE provisioning, the Wi-Fi     *)
(* station and the cloud session; the tasks that post those events, after  *)
(* or before they change the flags by which the supervisor decides: the    *)
(* wifi event task, the session's callbacks and the BLE worker.            *)
(*                                                                         *)
(* The supervisor has the highest priority of them, so that its handlers   *)
(* are steps between the points where they block; the others may be        *)
(* interrupted at every access to what they share with it.                 *)
(***************************************************************************)
EXTENDS Naturals, Sequences

CONSTANTS
    Networks,           \* the Wi-Fi networks there are
    NoNetwork,          \* a name no network has: blank or overwritten
    QueueMax,           \* QUEUE_MAX_SIZE (5)
    WifiQueueMax,       \* the length of wifi_config_queue_handle (5)
    MaxDisconnects,     \* WIFI_MAX_DISCONNECT_NUMBER (10)
    MaxTrouble          \* bound: how often the environment disturbs the device

ASSUME NetworkAssumption == NoNetwork \notin Networks
ASSUME BoundAssumption ==
    /\ QueueMax \in Nat \ {0} /\ WifiQueueMax \in Nat \ {0}
    /\ MaxDisconnects \in Nat /\ MaxTrouble \in Nat

VARIABLES
    \* the supervisor
    queue,                  \* cloud_rev_queue_handle
    sup,                    \* where the supervisor waits
    ble_config_start, wifi_config_start, wifi_start_connected, wifi_connect,
    wifi_disconnect_count,
    wifi_sta,               \* the network aipi_device->wifi_sta names
    sta_local,              \* ... and whether it points into a block of test_sta_wifi_entry
    \* the Wi-Fi driver and its firmware
    sta_started,            \* g_wifi_sta_interface and g_wifi_sta_init_flag
    wifi_config,            \* wifi_config.sta
    link, link_net,         \* the firmware: off, trying or up, and with which network
    wifi_queue, wifi_pc,    \* wifi_config_queue_handle, and where cb_wifi_event is
    wifi_lost,              \* history: it was full, and dropped an event of the firmware
    \* the cloud session
    service_init_state, cloud_connect,
    session, last,          \* its task, and its last report
    svc_pc, restore_pc,     \* where cloud_rev_cb is, in the service and in the mqtt task
    \* BLE provisioning
    ble, ble_pc,            \* the radio, and what the worker is posting
    wifi_config_data,       \* the network received last
    start_failed,           \* history: BLE was to be started last, and that failed
    \* history
    lost,                   \* an event was dropped because a queue was full
    trouble

supVars   == <<queue, sup, wifi_sta, sta_local>>
flagVars  == <<ble_config_start, wifi_config_start>>
linkFlags == <<wifi_connect, wifi_start_connected, wifi_disconnect_count>>
wifiVars  == <<sta_started, wifi_config, link, link_net, wifi_queue, wifi_lost>>
svcVars   == <<service_init_state, session, last>>
cbVars    == <<cloud_connect, svc_pc, restore_pc>>
bleVars   == <<ble, ble_pc, wifi_config_data, start_failed>>
history   == <<lost, trouble>>
vars == <<supVars, flagVars, linkFlags, wifiVars, wifi_pc, svcVars, cbVars, bleVars, history>>

Session == INSTANCE WanSession WITH reports <- IF last = "none" THEN <<>> ELSE <<last>>

Events == {"CONFIG_DATA", "CONFIG_START", "BLE_DISCONNECTED", "CONFIG_OK", "CONFIG_FAIL",
           "WIFI_CONNECTED", "CLOUD_CONNECTED", "CLOUD_ONLINE", "CLOUD_DISCONNECTED"}

InQueue(e) == \E i \in 1 .. Len(queue) : queue[i] = e

-----------------------------------------------------------------------------
(* At boot the device task connects to the saved network, or starts        *)
(* provisioning when there is none; the supervisor starts a second later.  *)
Init ==
    /\ \/ \E n \in Networks :
            /\ wifi_sta = n /\ wifi_config = n /\ link_net = n
            /\ link = "trying" /\ sta_started = TRUE
            /\ wifi_start_connected = TRUE /\ queue = <<>>
       \/ /\ wifi_sta = NoNetwork /\ wifi_config = NoNetwork /\ link_net = NoNetwork
          /\ link = "off" /\ sta_started = FALSE
          /\ wifi_start_connected = FALSE /\ queue = <<"CONFIG_START">>
    /\ sup = "poll" /\ sta_local = FALSE
    /\ ble_config_start = FALSE /\ wifi_config_start = FALSE
    /\ wifi_connect = FALSE /\ wifi_disconnect_count = 0
    /\ wifi_queue = <<>> /\ wifi_pc = "idle" /\ wifi_lost = FALSE
    /\ service_init_state = FALSE /\ cloud_connect = FALSE
    /\ session = "none" /\ last = "none" /\ svc_pc = "idle" /\ restore_pc = "idle"
    /\ ble = "off" /\ ble_pc = "idle" /\ wifi_config_data = NoNetwork /\ start_failed = FALSE
    /\ lost = FALSE /\ trouble = 0

-----------------------------------------------------------------------------
(* Posting: a task waits 100 ticks for space, then its event is dropped.   *)
FullByOne == Len(queue) > QueueMax              \* mutant
Full == Len(queue) = QueueMax

Post(e) ==
    /\ queue' = IF Full THEN queue ELSE Append(queue, e)
    /\ lost' = (lost \/ Full)
    /\ UNCHANGED <<sup, wifi_sta, sta_local>>

\* The supervisor posts to its own queue, after it took an event from it.
Rest(e) == Append(Tail(queue), e)

Takes(e) == sup = "poll" /\ queue # <<>> /\ Head(queue) = e

Disturb == trouble < MaxTrouble /\ trouble' = trouble + 1

-----------------------------------------------------------------------------
(* The Wi-Fi driver, as the supervisor calls it.                           *)

\* wifi_event_handler does not wait for space.
Notify(e) ==
    LET room == Len(wifi_queue) < WifiQueueMax
    IN  /\ wifi_queue' = IF room THEN Append(wifi_queue, e) ELSE wifi_queue
        /\ wifi_lost' = (wifi_lost \/ ~room)

\* The firmware answers a disconnect with an event; when it was only trying it may not.
Disconnected == \/ link # "off" /\ Notify("DISCONNECTED")
                \/ link # "up" /\ UNCHANGED <<wifi_queue, wifi_lost>>

\* aiio_wifi_stop and aiio_wifi_disconnect, for a station.
WifiStop ==
    IF sta_started
      THEN /\ sta_started' = FALSE /\ link' = "off" /\ link_net' = NoNetwork
           /\ Disconnected
           /\ UNCHANGED wifi_config
      ELSE UNCHANGED wifiVars

\* aiio_wifi_start: nothing happens when the station was started before.  The flag of
\* the station is set also when the firmware refused to connect.
StartsAgain == ~sta_started

WifiStart(n, again) ==
    /\ sta_started' = TRUE
    /\ \/ again /\ link' = "trying" /\ link_net' = n /\ UNCHANGED trouble
       \/ again /\ link' = "off" /\ link_net' = n /\ Disturb
       \/ ~again /\ UNCHANGED <<link, link_net, trouble>>

(* iot_connect_wifi, after aiio_wifi_disconnect if `off`.                  *)
ConnectWifi(n, off) ==
    /\ wifi_config' = n
    /\ WifiStart(n, off \/ StartsAgain)
    /\ IF off /\ sta_started THEN Disconnected ELSE UNCHANGED <<wifi_queue, wifi_lost>>
    /\ wifi_disconnect_count' = 0
    /\ wifi_start_connected' = TRUE
    /\ UNCHANGED wifi_connect

-----------------------------------------------------------------------------
(* The supervisor, test_sta_wifi_entry.                                    *)

BleKeepsOn == UNCHANGED bleVars         \* mutant: only the flags are cleared

\* aiio_ble_config_stop clears the callback, which the worker may be past already, and
\* waits for the radio; then it clears the data.
BleStop ==
    /\ ble' = "off" /\ start_failed' = FALSE /\ UNCHANGED wifi_config_data
    /\ ble_pc' \in (IF ble = "off" THEN {ble_pc} ELSE {ble_pc, "idle"})

BleStopped == wifi_config_data' = NoNetwork /\ UNCHANGED <<ble, ble_pc, start_failed>>

\* CONFIG_START: the session and the station are stopped first, if the flags say so.
ConfigStart ==
    /\ Takes("CONFIG_START")
    /\ queue' = Tail(queue)
    /\ IF wifi_connect /\ service_init_state
         THEN sup' = "deinit_start" /\ UNCHANGED wifiVars
         ELSE /\ sup' = "ble_start"
              /\ IF wifi_connect \/ wifi_start_connected THEN WifiStop ELSE UNCHANGED wifiVars
    /\ UNCHANGED <<wifi_sta, sta_local, flagVars, linkFlags, wifi_pc, svcVars, cbVars, bleVars, history>>

DeinitKeepsFlag ==          \* mutant
    /\ session' = IF session = "open" THEN "closing" ELSE session
    /\ UNCHANGED <<service_init_state, last>>

\* aiio_user_service_deinit, once the client's task has stopped.
Deinit ==
    /\ service_init_state' = FALSE
    /\ session' = IF session = "open" THEN "closing" ELSE session
    /\ UNCHANGED last

DeinitStart ==
    /\ sup = "deinit_start"
    /\ Deinit /\ WifiStop
    /\ sup' = "ble_start"
    /\ UNCHANGED <<queue, wifi_sta, sta_local, flagVars, linkFlags, wifi_pc, cbVars, bleVars, history>>

\* aiio_ble_config_init gives up for want of memory, of a task or of an advertisement,
\* and takes back what it did; its result is ignored, and the flags are set all the same.
\* Where BLE is on it changes nothing.
BleStart ==
    /\ sup = "ble_start" /\ sup' = "poll"
    /\ \/ ble = "off" /\ ble' = "adv" /\ start_failed' = FALSE /\ UNCHANGED trouble
       \/ ble = "off" /\ start_failed' = TRUE /\ Disturb /\ UNCHANGED ble
       \/ ble # "off" /\ UNCHANGED <<ble, start_failed, trouble>>
    /\ ble_config_start' = TRUE /\ wifi_config_start' = TRUE
    /\ UNCHANGED <<queue, wifi_sta, sta_local, linkFlags, wifiVars, wifi_pc, svcVars, cbVars,
                   ble_pc, wifi_config_data, lost>>

\* The data are copied to a local of the block and saved; the block's address is kept.
ConfigData ==
    /\ Takes("CONFIG_DATA")
    /\ wifi_sta' = wifi_config_data /\ sta_local' = TRUE
    /\ queue' = Rest("WIFI_CONNECTED")
    /\ UNCHANGED <<sup, flagVars, linkFlags, wifiVars, wifi_pc, svcVars, cbVars, bleVars, history>>

WifiConnected ==
    /\ Takes("WIFI_CONNECTED")
    /\ queue' = Tail(queue)
    /\ ConnectWifi(wifi_sta, wifi_connect \/ wifi_start_connected)
    /\ UNCHANGED <<sup, wifi_sta, sta_local, flagVars, wifi_pc, svcVars, cbVars, bleVars, lost>>

\* aiio_user_service_init, whose result is ignored.  The cloud_data of this block may
\* lie where the network's block was.
CloudConnected ==
    /\ Takes("CLOUD_CONNECTED")
    /\ ~service_init_state => session = "none"    \* InitWaits of WanService
    /\ queue' = Tail(queue)
    /\ wifi_sta' \in (IF sta_local THEN {wifi_sta, NoNetwork} ELSE {wifi_sta})
    /\ service_init_state' = TRUE
    /\ IF service_init_state THEN UNCHANGED <<session, last>>
                             ELSE session' \in {"open", "none"} /\ last' = "none"
    /\ UNCHANGED <<sup, sta_local, flagVars, linkFlags, wifiVars, wifi_pc, cbVars, bleVars, history>>

\* The device task is told; saving the network, it leaves wifi_sta with pointers into
\* its own stack (aipi_flash_erase_set).
CloudOnline ==
    /\ Takes("CLOUD_ONLINE")
    /\ queue' = IF wifi_config_start THEN Rest("CONFIG_OK") ELSE Tail(queue)
    /\ wifi_sta' \in {wifi_sta, NoNetwork}
    /\ UNCHANGED <<sup, sta_local, flagVars, linkFlags, wifiVars, wifi_pc, svcVars, cbVars, bleVars, history>>

CloudDisconnected ==
    /\ Takes("CLOUD_DISCONNECTED")
    /\ queue' = Tail(queue)
    /\ sup' = IF service_init_state THEN "deinit" ELSE "poll"
    /\ UNCHANGED <<wifi_sta, sta_local, flagVars, linkFlags, wifiVars, wifi_pc, svcVars, cbVars, bleVars, history>>

DeinitDone ==
    /\ sup = "deinit" /\ sup' = "poll"
    /\ Deinit
    /\ UNCHANGED <<queue, wifi_sta, sta_local, flagVars, linkFlags, wifiVars, wifi_pc, cbVars, bleVars, history>>

\* CONFIG_OK and CONFIG_FAIL tell the phone and wait two seconds before BLE stops.
ConfigEnds(e, wait) ==
    /\ Takes(e)
    /\ queue' = Tail(queue) /\ sup' = wait
    /\ UNCHANGED <<wifi_sta, sta_local, flagVars, linkFlags, wifiVars, wifi_pc, svcVars, cbVars, bleVars, history>>

ConfigOver == ble_config_start' = FALSE /\ wifi_config_start' = FALSE

ConfigStops(wait, stopped) ==
    /\ sup = wait /\ sup' = stopped
    /\ BleStop
    /\ UNCHANGED <<queue, wifi_sta, sta_local, flagVars, linkFlags, wifiVars, wifi_pc, svcVars, cbVars, history>>

ConfigOkDone ==
    /\ sup = "ok_stopped" /\ sup' = "poll"
    /\ BleStopped /\ ConfigOver
    /\ UNCHANGED <<queue, wifi_sta, sta_local, linkFlags, wifiVars, wifi_pc, svcVars, cbVars, history>>

\* A restart that finds the queue full is dropped: nobody else takes from it.
ForgetRepost(e) == UNCHANGED <<queue, lost>>                    \* mutant
Repost(e) == /\ queue' = IF Full THEN queue ELSE Append(queue, e)
             /\ lost' = (lost \/ Full)

ConfigFailDone ==
    /\ sup = "fail_stopped" /\ sup' = "poll"
    /\ BleStopped /\ ConfigOver
    /\ Repost("CONFIG_START")
    /\ UNCHANGED <<wifi_sta, sta_local, linkFlags, wifiVars, wifi_pc, svcVars, cbVars, trouble>>

\* While BLE stops for a phone that left, the others may fill the queue.
BleDisconnected ==
    /\ Takes("BLE_DISCONNECTED")
    /\ queue' = Tail(queue)
    /\ IF ble_config_start THEN BleStop /\ sup' = "left_stopped"
                           ELSE UNCHANGED <<sup, bleVars>>
    /\ UNCHANGED <<wifi_sta, sta_local, flagVars, linkFlags, wifiVars, wifi_pc, svcVars, cbVars, history>>

BleDisconnectedDone ==
    /\ sup = "left_stopped" /\ sup' = "poll"
    /\ BleStopped /\ Repost("CONFIG_START")
    /\ UNCHANGED <<wifi_sta, sta_local, flagVars, linkFlags, wifiVars, wifi_pc, svcVars, cbVars, trouble>>

Supervise ==
    \/ ConfigStart \/ DeinitStart \/ BleStart \/ ConfigData \/ WifiConnected
    \/ CloudConnected \/ CloudOnline \/ CloudDisconnected \/ DeinitDone
    \/ ConfigEnds("CONFIG_OK", "config_ok") \/ ConfigStops("config_ok", "ok_stopped") \/ ConfigOkDone
    \/ ConfigEnds("CONFIG_FAIL", "config_fail") \/ ConfigStops("config_fail", "fail_stopped") \/ ConfigFailDone
    \/ BleDisconnected \/ BleDisconnectedDone

-----------------------------------------------------------------------------
(* The firmware: connects, fails, loses the network; it connects again by  *)
(* itself (autoconnect).                                                   *)

Associate ==
    /\ link = "trying" /\ link_net \in Networks
    /\ link' = "up" /\ Notify("GOT_IP")
    /\ UNCHANGED <<supVars, flagVars, linkFlags, sta_started, wifi_config, link_net, wifi_pc,
                   svcVars, cbVars, bleVars, history>>

LinkFails ==
    /\ link # "off"
    /\ Disturb
    /\ link' = "trying" /\ Notify("DISCONNECTED")
    /\ UNCHANGED <<supVars, flagVars, linkFlags, sta_started, wifi_config, link_net, wifi_pc,
                   svcVars, cbVars, bleVars, lost>>

(* cb_wifi_event, in wifi_config_task.                                     *)
WifiGoto(l) == wifi_pc' = l

CountDisconnect ==
    /\ wifi_pc = "idle" /\ wifi_queue # <<>> /\ Head(wifi_queue) = "DISCONNECTED"
    /\ wifi_queue' = Tail(wifi_queue)
    /\ wifi_disconnect_count' = wifi_disconnect_count + 1
    /\ WifiGoto("down")
    /\ UNCHANGED <<supVars, flagVars, wifi_connect, wifi_start_connected, sta_started, wifi_config,
                   link, link_net, wifi_lost, svcVars, cbVars, bleVars, history>>

TooMany == wifi_disconnect_count > MaxDisconnects

DecideDown ==
    /\ wifi_pc = "down"
    /\ \/ ~TooMany /\ WifiGoto("flags_down") /\ UNCHANGED wifi_disconnect_count
       \/ TooMany /\ wifi_config_start /\ WifiGoto("post_fail") /\ UNCHANGED wifi_disconnect_count
       \/ TooMany /\ ~wifi_config_start /\ WifiGoto("post_retry") /\ wifi_disconnect_count' = 0
    /\ UNCHANGED <<supVars, flagVars, wifi_connect, wifi_start_connected, wifiVars, svcVars, cbVars, bleVars, history>>

PostWifiFail ==
    /\ wifi_pc = "post_fail" /\ Post("CONFIG_FAIL") /\ WifiGoto("flags_down")
    /\ wifi_disconnect_count' = 0
    /\ UNCHANGED <<flagVars, wifi_connect, wifi_start_connected, wifiVars, svcVars, cbVars, bleVars, trouble>>

PostWifiRetry ==
    /\ wifi_pc = "post_retry" /\ Post("WIFI_CONNECTED") /\ WifiGoto("flags_down")
    /\ UNCHANGED <<flagVars, linkFlags, wifiVars, svcVars, cbVars, bleVars, trouble>>

StillBelieve == UNCHANGED wifi_connect              \* mutant
BelieveDown == wifi_connect' = FALSE

\* The two flags are written one after the other.
ConnectDown ==
    /\ wifi_pc = "flags_down" /\ WifiGoto("start_down")
    /\ BelieveDown
    /\ UNCHANGED <<supVars, flagVars, wifi_start_connected, wifi_disconnect_count, wifiVars, svcVars,
                   cbVars, bleVars, history>>

StartDown ==
    /\ wifi_pc = "start_down" /\ WifiGoto("idle")
    /\ wifi_start_connected' = FALSE
    /\ UNCHANGED <<supVars, flagVars, wifi_connect, wifi_disconnect_count, wifiVars, svcVars, cbVars,
                   bleVars, history>>

GotIp ==
    /\ wifi_pc = "idle" /\ wifi_queue # <<>> /\ Head(wifi_queue) = "GOT_IP"
    /\ wifi_queue' = Tail(wifi_queue)
    /\ wifi_connect' = TRUE
    /\ WifiGoto("post_up")
    /\ UNCHANGED <<supVars, flagVars, wifi_start_connected, wifi_disconnect_count, sta_started,
                   wifi_config, link, link_net, wifi_lost, svcVars, cbVars, bleVars, history>>

PostGotIp ==
    /\ wifi_pc = "post_up" /\ Post("CLOUD_CONNECTED") /\ WifiGoto("flags_up")
    /\ UNCHANGED <<flagVars, linkFlags, wifiVars, svcVars, cbVars, bleVars, trouble>>

FlagsUp ==
    /\ wifi_pc = "flags_up" /\ WifiGoto("idle")
    /\ wifi_disconnect_count' = 0 /\ wifi_start_connected' = FALSE
    /\ UNCHANGED <<supVars, flagVars, wifi_connect, wifiVars, svcVars, cbVars, bleVars, history>>

WifiTask == CountDisconnect \/ DecideDown \/ PostWifiFail \/ PostWifiRetry \/ ConnectDown \/ StartDown
            \/ GotIp \/ PostGotIp \/ FlagsUp

-----------------------------------------------------------------------------
(* The session: it reports in the order WanSession promises, and ends      *)
(* after a failure or when it was closed; cloud_rev_cb handles a report.   *)
Reports(e) ==
    /\ session # "none" /\ svc_pc = "idle"
    /\ e \in Session!Follows(last)
    /\ last' = e
    /\ UNCHANGED <<supVars, flagVars, linkFlags, wifiVars, wifi_pc, service_init_state, session,
                   cloud_connect, restore_pc, bleVars, lost>>

\* LANCH_FAIL and SUBSCRIBE_TIMEOUT matter to provisioning only.
ReportFailure ==
    /\ \E e \in {"LANCH_FAIL", "SUBSCRIBE_TIMEOUT"} : Reports(e)
    /\ Disturb
    /\ svc_pc' = IF wifi_config_start THEN "post_fail" ELSE "idle"

ReportDisconnect ==
    /\ Reports("MQTT_DISCONNECT")
    /\ Disturb
    /\ svc_pc' = IF wifi_config_start /\ ~cloud_connect THEN "post_fail_down" ELSE "post_down"

ReportProgress ==
    /\ \E e \in {"MQTT_CONNECTED", "ACTIVITY"} : Reports(e)
    /\ UNCHANGED <<svc_pc, trouble>>

ReportOnline ==
    /\ Reports("ONLINE")
    /\ svc_pc' = "post_online"
    /\ UNCHANGED trouble

SvcGoto(l) == svc_pc' = l
CallbackUnchanged == UNCHANGED <<flagVars, linkFlags, wifiVars, wifi_pc, svcVars, cloud_connect, bleVars, trouble>>

PostReport ==
    /\ \/ svc_pc = "post_fail" /\ Post("CONFIG_FAIL") /\ SvcGoto("idle")
       \/ svc_pc = "post_fail_down" /\ Post("CONFIG_FAIL") /\ SvcGoto("down")
       \/ svc_pc = "post_down" /\ Post("CLOUD_DISCONNECTED") /\ SvcGoto("down")
       \/ svc_pc = "post_online" /\ Post("CLOUD_ONLINE") /\ SvcGoto("online")
    /\ UNCHANGED restore_pc /\ CallbackUnchanged

AfterReport ==
    /\ svc_pc \in {"down", "online"}
    /\ cloud_connect' = (svc_pc = "online")
    /\ SvcGoto("idle")
    /\ UNCHANGED <<supVars, flagVars, linkFlags, wifiVars, wifi_pc, svcVars, restore_pc, bleVars, history>>

SessionEnds ==
    /\ session # "none" /\ svc_pc = "idle"
    /\ session = "closing" \/ last \in Session!Failures
    /\ session' = "none"
    /\ UNCHANGED <<supVars, flagVars, linkFlags, wifiVars, wifi_pc, service_init_state, last,
                   cbVars, bleVars, history>>

\* The cloud restores the device: the settings are erased, provisioning is asked for.
Restore ==
    /\ restore_pc = "idle" /\ session = "open"
    /\ last \in {"MQTT_CONNECTED", "ACTIVITY", "ONLINE"}
    /\ Disturb
    /\ restore_pc' = "post"
    /\ UNCHANGED <<supVars, flagVars, linkFlags, wifiVars, wifi_pc, svcVars, cloud_connect, svc_pc,
                   bleVars, lost>>

PostRestore ==
    /\ restore_pc = "post" /\ Post("CONFIG_START") /\ restore_pc' = "clear"
    /\ UNCHANGED svc_pc /\ CallbackUnchanged

AfterRestore ==
    /\ restore_pc = "clear" /\ restore_pc' = "idle"
    /\ cloud_connect' = FALSE
    /\ UNCHANGED <<supVars, flagVars, linkFlags, wifiVars, wifi_pc, svcVars, svc_pc, bleVars, history>>

SessionStep == ReportFailure \/ ReportDisconnect \/ ReportProgress \/ ReportOnline
               \/ PostReport \/ AfterReport \/ SessionEnds
               \/ Restore \/ PostRestore \/ AfterRestore

-----------------------------------------------------------------------------
(* The phone and the BLE worker, whose own queue (module BleConfig) delays *)
(* what the phone does or drops it.  A phone that left finds no            *)
(* advertisement until BLE is restarted.                                   *)
PhoneLinks ==
    /\ ble = "adv" /\ ble' = "linked"
    /\ UNCHANGED <<supVars, flagVars, linkFlags, wifiVars, wifi_pc, svcVars, cbVars,
                   ble_pc, wifi_config_data, start_failed, history>>

PhoneSends(n) ==
    /\ ble = "linked" /\ ble_pc = "idle"
    /\ wifi_config_data' = n /\ ble_pc' = "CONFIG_DATA"
    /\ Disturb
    /\ UNCHANGED <<supVars, flagVars, linkFlags, wifiVars, wifi_pc, svcVars, cbVars, ble,
                   start_failed, lost>>

\* What the phone sent cannot be parsed.
PhoneFails ==
    /\ ble = "linked" /\ ble_pc = "idle"
    /\ ble_pc' = "CONFIG_FAIL"
    /\ Disturb
    /\ UNCHANGED <<supVars, flagVars, linkFlags, wifiVars, wifi_pc, svcVars, cbVars, ble,
                   wifi_config_data, start_failed, lost>>

PhoneLeaves ==
\* The worker's own queue may be full, and then nobody is told.
    /\ ble = "linked" /\ ble_pc = "idle"
    /\ ble' = "silent"
    /\ \/ ble_pc' = "BLE_DISCONNECTED" /\ UNCHANGED lost
       \/ lost' = TRUE /\ UNCHANGED ble_pc
    /\ Disturb
    /\ UNCHANGED <<supVars, flagVars, linkFlags, wifiVars, wifi_pc, svcVars, cbVars,
                   wifi_config_data, start_failed>>

PostBle ==
    /\ ble_pc # "idle" /\ Post(ble_pc) /\ ble_pc' = "idle"
    /\ UNCHANGED <<flagVars, linkFlags, wifiVars, wifi_pc, svcVars, cbVars, ble, wifi_config_data,
                   start_failed, trouble>>

BleStep == PhoneLinks \/ PhoneFails \/ PhoneLeaves \/ PostBle \/ \E n \in Networks : PhoneSends(n)

-----------------------------------------------------------------------------
Next == Supervise \/ Associate \/ LinkFails \/ WifiTask \/ SessionStep \/ BleStep

Spec == Init /\ [][Next]_vars

(* Every task runs and finishes what it has begun; a session that was      *)
(* closed or has failed ends.  The network, the phone and the cloud do as  *)
(* they please.                                                            *)
Fairness ==
    /\ WF_vars(Supervise) /\ WF_vars(WifiTask) /\ WF_vars(SessionEnds)
    /\ WF_vars(PostReport \/ AfterReport) /\ WF_vars(PostRestore \/ AfterRestore)
    /\ WF_vars(PostBle)

FairSpec == Spec /\ Fairness

-----------------------------------------------------------------------------
Waits == {"poll", "deinit", "deinit_start", "ble_start", "config_ok", "config_fail",
          "ok_stopped", "fail_stopped", "left_stopped"}
Names == Networks \cup {NoNetwork}

TypeSupervisor ==
    /\ queue \in Seq(Events) /\ Len(queue) <= QueueMax
    /\ sup \in Waits
    /\ ble_config_start \in BOOLEAN /\ wifi_config_start \in BOOLEAN
    /\ wifi_connect \in BOOLEAN /\ wifi_start_connected \in BOOLEAN
    /\ wifi_sta \in Names /\ sta_local \in BOOLEAN
TypeCount == wifi_disconnect_count \in 0 .. MaxDisconnects + 1
TypeWifi ==
    /\ sta_started \in BOOLEAN /\ wifi_config \in Names
    /\ link \in {"off", "trying", "up"} /\ link_net \in Names
    /\ wifi_queue \in Seq({"DISCONNECTED", "GOT_IP"}) /\ Len(wifi_queue) <= WifiQueueMax
    /\ wifi_pc \in {"idle", "down", "post_fail", "post_retry", "flags_down", "start_down", "post_up", "flags_up"}
    /\ wifi_lost \in BOOLEAN
TypeSession ==
    /\ service_init_state \in BOOLEAN /\ cloud_connect \in BOOLEAN
    /\ session \in {"none", "open", "closing"}
    /\ last \in {"none", "MQTT_CONNECTED", "ACTIVITY", "ONLINE"} \cup Session!Failures
    /\ svc_pc \in {"idle", "post_fail", "post_fail_down", "post_down", "post_online", "down", "online"}
    /\ restore_pc \in {"idle", "post", "clear"}
TypeBle ==
    /\ ble \in {"off", "adv", "linked", "silent"}
    /\ ble_pc \in {"idle", "CONFIG_DATA", "CONFIG_FAIL", "BLE_DISCONNECTED"}
    /\ wifi_config_data \in Names /\ start_failed \in BOOLEAN
TypeHistory == lost \in BOOLEAN /\ trouble \in 0 .. MaxTrouble

\* Every variable stays in its domain: neither queue grows past its length, and the
\* count of disconnections stops one past its limit, although two tasks reset it.
TypeOK == TypeSupervisor /\ TypeCount /\ TypeWifi /\ TypeSession /\ TypeBle /\ TypeHistory

\* wifi_connect follows the firmware: once wifi_config_task has handled every event and
\* none was dropped, it is set exactly when the link is up, although the supervisor
\* disconnects and connects again without waiting for the events of either.
LinkBelief ==
    ~wifi_lost /\ wifi_queue = <<>> /\ wifi_pc = "idle" => (wifi_connect <=> link = "up")

\* While provisioning is on, a phone can reach the device, or something that restarts
\* BLE is on its way, or an event was dropped, or BLE is off because its start failed: a
\* phone that leaves, a failure and a success that cross each other never leave it
\* provisioning in silence, and a start that failed earlier excuses nothing.
ProvisioningAlive ==
    ble_config_start /\ ble \in {"off", "silent"} =>
        \/ lost \/ sup \in Waits \ {"poll", "deinit"}
        \/ ble_pc = "BLE_DISCONNECTED" \/ InQueue("BLE_DISCONNECTED")
        \/ InQueue("CONFIG_START")
        \/ ble = "off" /\ start_failed

\* BLE is on only while provisioning is: no path that ends provisioning leaves the
\* radio and its worker behind.
QuietOutside == ble # "off" => ble_config_start /\ wifi_config_start

\* "Start WiFi according to current configuration" (aiio_wifi.h): the firmware tries,
\* or has, the network that was configured last.
StartUsesConfig == sta_started => link_net = wifi_config

\* Where BLE was stopped because provisioning failed or the phone left, it is started
\* again, unless an event was dropped or that start fails.
FailureRestarts == sup \in {"fail_stopped", "left_stopped"} ~> (ble = "adv" \/ lost \/ start_failed)

\* A disconnection of the session outside provisioning clears the session's flag, so
\* that a later connection may open one: it never keeps the device off the cloud.
DisconnectReleases == svc_pc = "post_down" ~> (~service_init_state \/ lost)
=============================================================================
