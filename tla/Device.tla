-------------------------------- MODULE Device --------------------------------
(***************************************************************************)
(* The settings of the device (src/src/device/aipi_device.c), and how the  *)
(* supervisor (src/src/cloud/aipi_cloud.c) fills and uses them.            *)
(*                                                                         *)
(* The network and the cloud's address are five variables of the flash     *)
(* (EasyFlash), written one after the other by the sys_state task when the *)
(* device has come online, and read by it after a reset.  In memory they   *)
(* are the structure device.wifi_sta points at, which the supervisor fills *)
(* from the phone's message and reads when the network is up.  The message *)
(* comes from the worker of BLE in an event that only points at it.  Tasks *)
(* tell sys_state what to do through one notification slot that is never   *)
(* overwritten.  The cloud's restore command clears the flash in the       *)
(* thread of its callback.                                                 *)
(***************************************************************************)
EXTENDS Naturals

CONSTANTS
    Networks,       \* what a phone may configure
    Empty,          \* an empty string, and zeros
    Gone,           \* a string that is not to be relied on: in the stack of a function
                    \* that returned, or an old value cut to the length of a new one
    MaxEvents,      \* bound: how often a phone configures, the driver is configured again
                    \* or a write of the flash fails
    MaxCuts         \* bound: how often the device is reset

ASSUME NetworkAssumption == Empty \notin Networks /\ Gone \notin Networks \cup {Empty}
ASSUME BoundAssumption == MaxEvents \in Nat /\ MaxCuts \in Nat

Keys == {"ssid", "pass", "mqip", "token", "port"}

VARIABLES
    env,            \* the flash
    wifi_sta,       \* the structure in memory, by key
    conf,           \* the driver's configuration: the network it joins
    sys_state,      \* the notification slot
    task, key,      \* where the sys_state task is, and the variable it writes
    net,            \* how far the supervisor is with the network
    ble,            \* provisioning
    posted,         \* a REV_CONFIG_DATA_EVENT is in the queue ...
    data,           \* ... and what wifi_config_data, which it points at, holds
    asked,          \* the REV_WIFI_CONNECTED_EVENT after it is in the queue
    session,        \* what the session was started with
    restore,        \* where flash_del is in the callback's thread
    events, cuts,   \* counted up to their bounds
    last,           \* history: the network of the last whole save
    disturbed,      \* history: the flash changed in part, or between two networks
    missed          \* history: the notification of this session was lost

memory == <<wifi_sta, conf>>
phone == <<data, posted, asked>>
counters == <<events, cuts>>
history == <<last, disturbed, missed>>
vars == <<env, memory, sys_state, task, key, net, ble, phone, session, restore, counters, history>>

All(n) == [k \in Keys |-> n]

Init ==
    /\ env = All(Empty) /\ wifi_sta = All(Empty) /\ conf = Empty
    /\ sys_state = "SYS_START" /\ task = "wait" /\ key = "ssid"
    /\ data = Empty /\ posted = FALSE /\ asked = FALSE
    /\ net = "down" /\ ble = FALSE /\ session = Empty /\ restore = "none" /\ events = 0 /\ cuts = 0
    /\ last = Empty /\ disturbed = FALSE /\ missed = FALSE

-----------------------------------------------------------------------------
(* aipi_dev_state_update: eSetValueWithoutOverwrite                        *)
Overwrites(s) == sys_state' = s                 \* mutant
Notify(s) == sys_state' = IF sys_state = "none" THEN s ELSE sys_state

(* The sys_state task.                                                     *)
Saving == task \in {"write", "read"}

SavesOtherConfig == [wifi_sta EXCEPT !["pass"] = conf]         \* mutant
TakesConf == [wifi_sta EXCEPT !["ssid"] = conf, !["pass"] = conf]

Agree == \E n \in Networks : conf = n /\ \A k \in {"mqip", "token", "port"} : wifi_sta[k] = n

\* iot_connect_wifi: what the driver is configured with.  A stack that is gone may still
\* hold the copy of the configuration that was saved from it.
JoinsAny == {wifi_sta["ssid"]}                  \* mutant
Joins == IF Gone \in {wifi_sta["ssid"], wifi_sta["pass"]} THEN {conf, Empty}
         ELSE {IF wifi_sta["ssid"] = wifi_sta["pass"] THEN wifi_sta["ssid"] ELSE Empty}

\* xTaskNotifyWait, and the start of what was asked for.
TakeStart ==
    /\ task = "wait" /\ sys_state = "SYS_START" /\ sys_state' = "none"
    /\ wifi_sta' = env /\ task' = "boot"
    /\ UNCHANGED <<env, conf, net, ble, phone, session, key, restore, counters, history>>

TakeWifiOk ==
    /\ task = "wait" /\ sys_state = "WIFI_CONNECT_OK" /\ sys_state' = "none"
    /\ UNCHANGED <<env, memory, task, net, ble, phone, session, key, restore, counters, history>>

TakeServerOk ==
    /\ task = "wait" /\ sys_state = "SERVER_CONNECT_OK" /\ sys_state' = "none"
    /\ wifi_sta' = TakesConf
    /\ task' = "write" /\ key' = "ssid"
    /\ disturbed' = (~Agree \/ restore # "none")
    /\ UNCHANGED <<env, conf, net, ble, phone, session, restore, counters, last, missed>>

\* AIPI_STATE_SYS_START, half a second later.
BootWithout ==
    /\ task = "boot" /\ wifi_sta["ssid"] = Empty
    /\ task' = "wait" /\ ble' = TRUE
    /\ wifi_sta' = All(Empty)
    /\ UNCHANGED <<env, conf, sys_state, net, phone, session, key, restore, counters, history>>

BootWith ==
    /\ task = "boot" /\ wifi_sta["ssid"] # Empty
    /\ task' = "wait" /\ net' = "joining"
    /\ conf' \in Joins
    /\ UNCHANGED <<env, wifi_sta, sys_state, ble, phone, session, key, restore, counters, history>>

\* The caller's string; the port is written from a string of its own.
InMemory(v) == IF key = "port" THEN wifi_sta ELSE [wifi_sta EXCEPT ![key] = v]

\* flash_erase_set: the variable is written, the caller's string cleared ...
Write ==
    /\ task = "write" /\ task' = "read"
    /\ env' = [env EXCEPT ![key] = wifi_sta[key]]
    /\ wifi_sta' = InMemory(Empty)
    /\ UNCHANGED <<conf, sys_state, key, net, ble, phone, session, restore, counters, history>>

\* ... whether ef_set_and_save_env succeeded or not: then the old value is there to read,
\* up to the length of the new one.
WriteFails ==
    /\ task = "write" /\ task' = "read"
    /\ events < MaxEvents /\ events' = events + 1
    /\ wifi_sta' = InMemory(Gone) /\ disturbed' = TRUE
    /\ UNCHANGED <<env, conf, sys_state, key, net, ble, phone, session, restore, cuts, last, missed>>

SkipsToken == [ssid |-> "pass", pass |-> "mqip", mqip |-> "port", port |-> "end"]   \* mutant
AfterKey == [ssid |-> "pass", pass |-> "mqip", mqip |-> "token", token |-> "port", port |-> "end"]

\* ... and read again.  In the end ssid and passworld point into a stack that is gone.
ReadBack ==
    /\ task = "read"
    /\ IF AfterKey[key] = "end"
         THEN /\ wifi_sta' = [wifi_sta EXCEPT !["ssid"] = Gone, !["pass"] = Gone]
              /\ task' = "wait" /\ UNCHANGED key
              /\ last' = IF disturbed THEN last ELSE conf
         ELSE /\ \E v \in {env[key]} \cup ({wifi_sta[key]} \cap {Gone}) : wifi_sta' = InMemory(v)
              /\ task' = "write" /\ key' = AfterKey[key]
              /\ UNCHANGED last
    /\ UNCHANGED <<env, conf, sys_state, net, ble, phone, session, restore, counters, disturbed, missed>>

SysState == TakeStart \/ TakeWifiOk \/ TakeServerOk \/ BootWithout \/ BootWith
            \/ Write \/ WriteFails \/ ReadBack

-----------------------------------------------------------------------------
(* AIIO_BLE_CONFIG_OK, in the worker of BLE.  A bound: there is one such   *)
(* event in the queue at a time.                                           *)
PhoneSends(n) ==
    /\ ble /\ ~posted /\ events < MaxEvents /\ events' = events + 1
    /\ data' = n /\ posted' = TRUE
    /\ UNCHANGED <<env, memory, sys_state, task, key, net, ble, asked, session, restore, cuts, history>>

-----------------------------------------------------------------------------
(* The supervisor, with what it does to the settings.                      *)

\* aiio_ble_config_stop clears what an event may still point at.
ClearData == data' = Empty

\* REV_CONFIG_DATA_EVENT, in provisioning or not (a bound: when the one before it was
\* joined).  The structure and its strings are variables of a block that
\* ends; they keep their values as long as the build gives their place to no other.
TakeConfig ==
    /\ posted /\ posted' = FALSE /\ ~asked /\ asked' = TRUE
    /\ wifi_sta' = All(data) /\ data' = Empty
    /\ disturbed' = (disturbed \/ Saving)
    /\ UNCHANGED <<env, conf, sys_state, task, net, ble, session, key, restore, counters, last, missed>>

\* REV_WIFI_CONNECTED_EVENT: what is connected is disconnected; a name and a password
\* that are not of one network join none.
Join ==
    /\ asked /\ asked' = FALSE
    /\ net' = "joining" /\ session' = Empty
    /\ conf' \in Joins
    /\ disturbed' = (disturbed \/ Saving)
    /\ UNCHANGED <<env, wifi_sta, sys_state, task, ble, data, posted, key, restore, counters, last, missed>>

\* REV_CLOUD_CONNECTED_EVENT
StartSession ==
    /\ net = "joining" /\ conf # Empty /\ net' = "session"
    /\ Notify("WIFI_CONNECT_OK")
    /\ session' = IF \A k \in {"mqip", "token", "port"} : wifi_sta[k] = wifi_sta["port"]
                  THEN wifi_sta["port"] ELSE Empty
    /\ missed' = FALSE
    /\ UNCHANGED <<env, memory, task, ble, phone, key, restore, counters, last, disturbed>>

\* REV_CLOUD_ONLINE_EVENT, and the success that ends provisioning
Online ==
    /\ net = "session" /\ session # Empty /\ net' = "online"
    /\ ble' = FALSE /\ IF ble THEN ClearData ELSE UNCHANGED data
    /\ Notify("SERVER_CONNECT_OK")
    /\ missed' = (sys_state # "none")
    /\ UNCHANGED <<env, memory, task, posted, asked, session, key, restore, counters, last, disturbed>>

\* The link is lost, or the session; the driver joins again by itself ...
LinkLost ==
    /\ net \in {"session", "online"} /\ net' = "joining" /\ session' = Empty
    /\ UNCHANGED <<env, memory, sys_state, task, ble, phone, key, restore, counters, history>>

\* ... and after too many disconnections it is configured anew, outside provisioning, or
\* provisioning begins anew.  (What comes between the event and its handling could come
\* before the link is lost.)
JoinAgain ==
    /\ net = "joining" /\ ~ble /\ events < MaxEvents /\ events' = events + 1
    /\ conf' \in Joins
    /\ disturbed' = (disturbed \/ Saving)
    /\ UNCHANGED <<env, wifi_sta, sys_state, task, key, net, ble, phone, session, restore, cuts, last, missed>>

ConfigFails ==
    /\ ble /\ ClearData
    /\ net' = "down" /\ session' = Empty
    /\ UNCHANGED <<env, memory, sys_state, task, key, ble, posted, asked, restore, counters, history>>

Supervisor == TakeConfig \/ Join \/ StartSession \/ Online \/ LinkLost \/ JoinAgain \/ ConfigFails

-----------------------------------------------------------------------------
(* AIIO_SERVICE_RESTORE_EVENT: flash_del, then provisioning.               *)
Restore ==
    /\ net = "online" /\ restore = "none" /\ restore' = "ssid"
    /\ disturbed' = (disturbed \/ Saving)
    /\ UNCHANGED <<env, memory, sys_state, task, key, net, ble, phone, session, counters, last, missed>>

Erased == IF restore = "default" THEN All(Empty) ELSE [env EXCEPT ![restore] = Empty]
AfterErase == [ssid |-> "pass", pass |-> "default", default |-> "asked"]

\* Each of the three writes may fail.
Erase ==
    /\ restore \in {"ssid", "pass", "default"} /\ restore' = AfterErase[restore]
    /\ \/ /\ env' = Erased /\ UNCHANGED <<disturbed, events>>
          /\ last' = IF restore = "default" /\ ~disturbed THEN Empty ELSE last
       \/ /\ events < MaxEvents /\ events' = events + 1
          /\ disturbed' = TRUE /\ UNCHANGED <<env, last>>
    /\ UNCHANGED <<memory, sys_state, task, key, net, ble, phone, session, cuts, missed>>

\* REV_CONFIG_START_EVENT: the session and the network are left, provisioning starts.
StartConfig ==
    /\ restore = "asked" /\ restore' = "none"
    /\ net' = "down" /\ session' = Empty /\ ble' = TRUE
    /\ UNCHANGED <<env, memory, sys_state, task, key, phone, counters, history>>

\* A reset: by power, or by the cloud's command.  main notifies SYS_START.
PowerCut ==
    /\ cuts < MaxCuts /\ cuts' = cuts + 1
    /\ wifi_sta' = All(Empty) /\ conf' = Empty
    /\ posted' = FALSE /\ data' = Empty /\ asked' = FALSE
    /\ sys_state' = "SYS_START" /\ task' = "wait"
    /\ net' = "down" /\ ble' = FALSE /\ session' = Empty /\ restore' = "none" /\ key' = "ssid"
    /\ disturbed' = (disturbed \/ Saving \/ restore # "none") /\ missed' = FALSE
    /\ UNCHANGED <<env, events, last>>

Next == SysState \/ (\E n \in Networks : PhoneSends(n)) \/ Supervisor
        \/ Restore \/ Erase \/ StartConfig \/ PowerCut

Spec == Init /\ [][Next]_vars

\* The sys_state task runs; nothing makes the supervisor, the cloud or a reset act.
LiveSpec == Spec /\ WF_vars(SysState)
-----------------------------------------------------------------------------
Values == Networks \cup {Empty, Gone}

\* Every variable holds a value of its kind.
TypeOK ==
    /\ env \in [Keys -> Values] /\ wifi_sta \in [Keys -> Values]
    /\ conf \in Networks \cup {Empty} /\ session \in Values /\ last \in Networks \cup {Empty}
    /\ sys_state \in {"none", "SYS_START", "WIFI_CONNECT_OK", "SERVER_CONNECT_OK"}
    /\ task \in {"wait", "boot", "write", "read"} /\ key \in Keys
    /\ net \in {"down", "joining", "session", "online"}
    /\ restore \in {"none", "ssid", "pass", "default", "asked"}
    /\ data \in Networks \cup {Empty}
    /\ posted \in BOOLEAN /\ asked \in BOOLEAN
    /\ ble \in BOOLEAN /\ disturbed \in BOOLEAN /\ missed \in BOOLEAN
    /\ events \in 0..MaxEvents /\ cuts \in 0..MaxCuts

\* Unless a save was cut short, or met a new configuration, a restore or a write that
\* failed, the five variables of the flash are all those of the network saved last,
\* whatever was configured since (flash_erase_set writes from memory it clears and reads
\* again).
SettingsAgree ==
    ~Saving /\ restore \in {"none", "asked"} /\ ~disturbed => env = All(last)

\* A device that is online, with no notification or configuration outstanding and none
\* lost, would come back to this session after a reset: the session's network is what
\* the flash holds.
OnlineIsSaved ==
    /\ net = "online" /\ task = "wait" /\ sys_state = "none" /\ restore = "none" /\ ~asked
    /\ ~disturbed /\ ~missed
    => env = All(session)

\* A reset finds its way: what the boot decides from the flash is to join the network
\* of the last save, with its server, or to wait for a phone when there was none.
ReturnsToLastNetwork ==
    [][BootWith \/ BootWithout =>
         disturbed \/ Saving' \/ restore # "none"
         \/ IF last = Empty THEN ble' ELSE conf' = last /\ wifi_sta' = All(last)]_vars

\* A notification that the cloud is there is never displaced by a later one: the save it
\* asks for begins, unless the device is reset before.
SaveBegins ==
    sys_state = "SERVER_CONNECT_OK" ~> (task = "write" \/ sys_state = "SYS_START")
=============================================================================
