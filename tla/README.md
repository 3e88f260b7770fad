# aiTinkerCloud: a verification project

TLA+ models of the control logic of the aiTinkerCloud firmware (`src/`), with
TLC configurations that check them on small instances and TLAPS proofs of what
holds for every instance. Paths below are relative to `src/`; `SDK/` stands for
`aiTinkerCloud_SDK/`.

## 1. The system

A device without a network is provisioned by a phone over BLE, joins the Wi-Fi it
was told, opens an MQTT session with the cloud, subscribes to six topics, asks for
the time, announces itself, and then obeys control messages. Everything runs in
FreeRTOS tasks on one core, over globals, with very few locks.

| Component | Source | State | Operations | Talks to |
|---|---|---|---|---|
| Cloud supervisor | `src/cloud/aipi_cloud.c` | event queue (5), `wifi_connect`, `wifi_start_connected`, `wifi_disconnect_count`, `ble_config_start`, `wifi_config_start`, `cloud_connect` | `test_sta_wifi_entry` (the queue's only consumer), `cb_wifi_event`, `cloud_rev_cb` | queue; calls into Wi-Fi, BLE, user service |
| User service wrapper | `SDK/application/aiio_cloud_receive.c` | `service_init_state` | `aiio_user_service_init/deinit` | WAN service |
| WAN service | `SDK/protocol/aiio_wan_service.c` | the global `service` (`handle`, `service_init`, `activity`), the handle's `task_run`, `service_state`, `cur_sub_event`, `last_sub_event`, `cur_sub_msg_id`, `status_bits`; statics `utc_is_req`, `utc_repeat_count` | `aiio_service_init/deinit`, `aiio_service_task`, `aiio_mqtt_service_event` | MQTT service, callback `rev_cb` |
| MQTT service | `SDK/protocol/aiio_mqtt_service.c` | `mqtt_client` | `aiio_mqtt_service_init/deinit`, `mqtt_event_cb` | MQTT client |
| MQTT client | `SDK/3rdparty/aiio/mqtt` | connection state, outbox, `run`, api lock | `aiio_mqtt_task`, `start/stop/destroy/subscribe/publish` | broker |
| BLE provisioning app | `SDK/application/aiio_ble_config_wifi.c` | the configuration last received | `aiio_ble_config_start/stop`, its callback | queue |
| BLE provisioning task | `SDK/protocol/aiio_ble_config.c` | `ble_config_init`, `ble_config_task_run`, a queue, `ble_conn` | init/deinit, the worker, the BLE callback | reassembly, BLE driver |
| BLE reassembly | `SDK/protocol/aiio_ble_protocol.c` | collected shards, lengths, last frame, key of the phone | `aiio_ParseBleProtocolData`, packing of acks and status | callback |
| Device state | `src/device/aipi_device.c` | one notification slot, five variables in flash, their copies in memory | `aipi_devstate_start`, `aipi_dev_state_update`, `flash_erase_set`, `flash_del` | queue, Wi-Fi, flash |
| Wi-Fi driver | `SDK/driver/aiio_wifi.c` | mode and start flags, `wifi_config`, a queue (5), `currentState` | init, mode, config, start/stop/connect/disconnect, AP, scan, `aiio_wifi_config_task` | vendor firmware, `cb_wifi_event` |
| Packets and parsing | `SDK/protocol/aiio_protocol_*.c`, `aiio_uuid4.c` | the global `IsQuery` | packing and parsing of messages | heap, MQTT service |
| Commands | `aiio_protocol_payload` of the WAN service, callbacks in `src/cloud` | `disenable_auto_ack` | restore, reboot, control, query, config, upgrade, info, utc | application, relays, clock |
| Relays | `src/relays/relays_dev.c` | one lamp, three PWM channels | `set_RGB_pwm`, the lamp's pin | control callback |
| Clock | `SDK/utils/aiio_rtc_timer.c`, `aiio_ctime.c` | a broken-down local time, the zone | the 100 ms loop, set and read field by field, zone, stamp, day of the week | mqtt task, supervisor |
| BLE driver | `SDK/driver/aiio_ble.c` | the radio, advertising, the link | advertise, connect, write, disconnect, deinit | BLE host's callback |
| Other drivers, OS port, vendored code | | | I/O | |

Tasks and priorities: supervisor 15; the Wi-Fi firmware 16; `wifi_config_task`,
`service_task`, the mqtt task and the BLE worker 5; the device state task 2.
The supervisor is therefore interrupted by nobody it shares state with, except where
it blocks; everything below it may be interrupted by it at any point.

What is hard in it:

* **Who owns a session.** `service.handle` and `mqtt_client` are globals that three
  threads use (application, service task, mqtt task); a session can be ended by the
  application, by one of its own timers or by a disconnection, and nothing locks these
  against one another.
* **What was subscribed.** The id and the topic of a subscription are stored by the
  service task after the call that sends it has returned, while the mqtt task
  compares them with the SUBACK.
* **What survives a session.** `utc_is_req` and `utc_repeat_count` are statics.
* **Stale flags.** The supervisor decides by flags that other tasks change before,
  after or without the event that announces the change.
* **Full queues.** Events are dropped after a timeout, the supervisor's own included.
* **A reset between two writes.** The settings are five variables of the flash.
* **Globals without a lock.** What the next report answers, and the six fields of the clock,
  are written by one task and read by another in the middle.
* **What an earlier message left.** The BLE parser keeps its collection in statics.

What makes each component correct, in a sentence:

* WAN service: a session goes online only with every topic acknowledged and the time
  received; its reports come in the documented order; it always ends or comes online;
  ending it never touches what another thread still uses.
* Supervisor: every failure leads back to a session or to provisioning; provisioning
  ends successfully only when the device is online.
* BLE provisioning: at most one worker; a restart never loses or deletes the new queue.
* Reassembly: what is delivered is a message that was sent, or an error.
* Device state: saved settings are those of one network, the one the device is online
  with, and a reset returns to it.
* Wi-Fi driver: its flags say what the firmware runs; its state follows the link.
* Commands: each is acknowledged once, by its name; no report passes for an answer nobody
  asked for; the outputs are what was told last; memory comes back.
* Clock: a stamp is the cloud's time and the seconds since; a set is never left behind its answer.

## 2. Modules

| Module | What it is |
|---|---|
| `WanSession` | abstract specification: the order of the reports a session gives its application |
| `WanService` | user service wrapper, WAN service, MQTT service and the client task they rely on |
| `MCWanService` | `WanService` on small instances |
| `CloudSupervisor` | the supervisor, the wifi event task, the session's callbacks, the BLE worker and the phone; the session is `WanSession` |
| `MCCloudSupervisor` | `CloudSupervisor` on small instances |
| `BleConfig` | start and stop of BLE provisioning, its worker and queue, and the callback of the BLE host |
| `MCBleConfig` | `BleConfig` on small instances |
| `BleMessage` | the parser of the phone's messages, and the packing of the answers |
| `Device` | the settings: flash, memory, the `sys_state` task, restore and reset |
| `CloudCommand` | commands of the cloud: parsing, acknowledgement, callback, outputs; reports of other tasks; allocations that fail |
| `WifiDriver` | the Wi-Fi driver, its queue and task, over the vendor's manager |
| `Clock` | the calendar; its set, its reading for a stamp and the change of the zone, each in steps |
| `MC…` | each of these on a small instance |
| `WanServiceProofs` | proofs: `TypeOK`, `FlagsAgree`, `SubscribedBeforeUtc`, `AnsweredBeforeOnline`, `SafeAlone`, and `ReportOrder`, the refinement of `WanSession` |
| `CloudSupervisorProofs` | proofs: its four invariants |
| `BleConfigProofs` | proofs: `TypeOK`, `QueueInUseExists`, `ServedWhileOn`, `LeftIsLast` |
| `DeviceProofs` | proofs: `TypeOK`, `SettingsAgree`, `ReturnsToLastNetwork`, `OnlineIsSaved` |
| `WifiDriverProofs` | proofs: `TypeOK`, `FlagsAgree`, `StateIsLink` |
| `BleMessageProofs` | proofs: `DeliversWhatWasSent`, `WholeIsParsed`, `AnswersReadBack` |
| `CloudCommandProofs` | proofs: `MemoryReturned`, `NoForgedAnswer`, `AckNamesItsCommand`, `AnsweredOnce`, `OutputsAreLastTold` |
| `ClockProofs` | proofs: the sums of a stamp against the calendar, `StampIsTime`, `WeekIsDay`, `SetNeverBehind` |

How they fit: `CloudSupervisor` is the composition. It takes its session from
`WanSession`, which `WanService` is checked to implement, its wifi events from a driver whose
details are in `WifiDriver`, its BLE worker from `BleConfig`, and its settings
from `Device`. `BleMessage` is what the worker of `BleConfig` does with data, and
`CloudCommand` what the mqtt task of `WanService` does with a data event; `Clock` is
what a UTC event of either sets.

### WanService

**Threads.** `App` is the task that calls `aiio_user_service_init/deinit` (the
supervisor); each element of `Sessions` is a service task, which `UserInit` starts
when it is not running; the mqtt task is a thread of its own (`mqtt_task`, `mqtt_event`).
`pc[t]` is the point in the code where a thread can be interrupted while it shares
state; a step goes from one such point to the next.

**State.** `service_init_state`, `service_init`, `handle`, `activity`, `task_run`,
`service_state`, `cur_sub_event`, `last_sub_event`, `cur_sub_msg_id`, `utc_req`,
`status_bits`, `utc_is_req`, `utc_repeat_count` and `mqtt_client` are the variables of
the source. `client_run` is the client's `run`; `inflight` is the SUBACK the broker
owes; `mqtt_event` is the event the mqtt task is delivering, under the api lock.
`last_service_state`, `elapsed` (has the current timer run out?), `sub` (the
subscription whose results are still in registers) and `why` (the failure to report)
are locals of the service task. `acked`, `utc_reply`, `reports` and `disturbed` are
history: what the broker acknowledged, whether the time was asked for and answered in
this session, the reports, and whether the application interfered. `fault` records
that a NULL handle or a freed client was used; the model stops there.

**Actions.** `UserInit`, `UserInitFails`, `InitMqtt`, `InitMqttFails`: the stages of
`aiio_service_init` (allocation may fail; the task exists before mqtt is configured);
`MqttInit` is the client's own init and start, whose task may or may not come up.
`UserDeinit*`: `aiio_service_deinit`. `Teardown(t)` = `MqttStop`, `MqttWait`,
`MqttDestroy`, `MqttClear`: `aiio_mqtt_service_deinit`, run by the application or by
a service task. `Svc*`: the states of `aiio_service_task`; a subscription is
`SvcSubscribe` (choose the topic), `SvcSubCall` (`SubscribeSent` or `SubscribeFails`), `SvcSubId`, `SvcSubEvent` (the call
and the two stores after it) and `SvcSubTimer`. `Mqtt*`: the mqtt task connects,
disconnects, dispatches a SUBACK or the time, loses a SUBACK, ends. `Tick(s)`: the
session's timer runs out. `NullHandle`, `FreedClient`: undefined behaviour happens.

**Abstractions.** Topics are numbered in the order of the chain, 1 .. `LastTopic`
(6 in the code), time is reduced to "the timer of this state has run out", and
`MaxUtcRepeat` is 10 in the code. `aiio_service_destroy` is one step. Data events
(control, OTA, configuration, restore: they are in `CloudCommand`) and `MQTT_CONNECTING` change no state of the
session and are left out. The broker sends the time only when asked.
`Tick` waits while the application is inside `aiio_service_init` and until the
mqtt task has started: the timers are tens of seconds long.

**`InitWaits`.** With `TRUE` the application starts a session only after the task of
the one before has ended. The code does not enforce it; it is what the supervisor's
delays (a Wi-Fi reconnection lies between) make likely. `FALSE` leaves it out.

**Fairness** (`FairSpec`). Every task runs: strong fairness for the steps that wait
for the api lock (the service task, a teardown), because the mqtt task releases it
between events and sleeps outside of it; weak fairness for the mqtt task's
finishing what it has begun and for the application's finishing an init or deinit it
is in; time passes (`SF Tick`). Nothing is assumed of the broker, nor of the
application's starting anything.

### CloudSupervisor

**Tasks.** The supervisor (`sup`: where it waits; `Supervise`: one action per case of
`test_sta_wifi_entry`, split where the case blocks: the join of the client's task in a
deinit, the 50 ms before BLE starts, the two seconds before it stops, and the stop,
which waits for the radio), the wifi event
task (`wifi_pc`, `WifiTask`; the two flags that a failure or a disconnection clears are written in
two steps), `cloud_rev_cb` in the service task (`svc_pc`) and in the
mqtt task (`restore_pc`), and the BLE worker (`ble_pc`). A callback is cut at every
access to the flags it shares with the supervisor and at its post; a post that finds
the queue full for 100 ticks drops its event (`lost`). The firmware connects, fails and
reconnects as it likes (`Associate`, `LinkFails`) and posts without waiting
(`Notify`, `wifi_lost`).

**State.** The flags keep their names. `sta_started` is `g_wifi_sta_interface` and
`g_wifi_sta_init_flag`, which the program always changes together; `link`, `link_net`
are what the firmware does; `wifi_sta` is the network the pointer `aipi_device->wifi_sta`
names, `sta_local` whether it points into a block of the supervisor that has ended;
from then on what it names is the network or anything else (`NoNetwork`), and so it is
after the device task has saved the network, which leaves pointers into that
task's stack. `ble` is the radio (off, advertising, linked, silent: a phone that left
finds no advertisement, because the restart of it is commented out). Starting BLE may fail
(`BleStart`: the queue, the worker or the advertisement, `aiio_ble_config.c:606`-`702`); the
result is ignored, so the supervisor sets its flags all the same, and only the history
`start_failed` knows, until BLE is started again or stopped.
`lost`, `wifi_lost` and `trouble` are history and bounds.

**Composition.** A session is `none`, `open` or `closing`; its reports follow
`WanSession!Follows(last)`, which `wan_service` shows `WanService` to refine
(`ReportOrder`). As there with `InitWaits = TRUE`, an init that is not refused finds
no task of an earlier session. An init may fail and sets its flag nevertheless.

**Left out.** `REV_CONFIG_STOP_EVENT`, the OTA events and `AIPI_STATE_CONFIG_START` are
posted nowhere; a restart of the device and what is saved in flash are in `Device`. The BLE worker's own
queue delays what the phone does, or drops that it left (`PhoneLeaves`, `lost`); how is
in `BleConfig`. Calls into the Wi-Fi driver are taken to post
requests to the firmware and return; the locks of the log and of the flash, which are
held for a moment, are not counted as points where the supervisor blocks.

**Fairness** (`FairSpec`). Weak fairness of the supervisor, the wifi event task, the
callbacks' finishing what they began, the BLE worker's posts and the end of a session
that was closed or has failed (which `wan_service_live` shows as `TornDown` and
`LaunchResolves`). Nothing of the network, the phone and the cloud.

### BleConfig

**Threads.** The supervisor (`app`), which starts and stops BLE; the workers; the
BLE host's thread (`host`), which runs `aiio_ble_cb`. A *run* is what one start made, a
worker and a queue. The two handles are globals: a start overwrites them, and a worker
deletes the queue and the thread that they name when it ends, whoever's they are. The
name of a run that has gone is used again.

**Cuts.** `Start` makes the queue and the worker; `Advertise` is the rest of the start,
after the wait for the radio, in which the worker may have its first turn or not: a stop that
comes before that turn is undone by it, for the worker sets the flag that the stop cleared. `Stop` is
`aiio_ble_iot_destroy`, `Stopped` what follows the wait for the radio: its guard
`host = "idle"` is the host's thread ending before `aiio_ble_deinit` returns. The worker
tests the flag, waits on the queue that the handle named then (`recv_from`),
handles what it took, and at the end deletes, clears and ends in three steps. In
`Handle` the callback is tested and in `Report` called. A report of data stands for what is complete
or cannot be parsed; other data is acknowledged only. `fault` is a worker that deleted a
queue that was gone, or returned from its function.

**The radio.** `AdvStart`, `Connected`, `Written`, `Disconnected` and `RadioOff` are what the
peripheral of `aiio_ble.c` does: it advertises until a phone connects and not again
until it is told to; writes and the end of a link come from the host's thread.

**`StartWaits`.** With `TRUE` a start finds no worker left. The code does not see to
that: the worker needs up to 150 ms to look at the flag, the supervisor restarts BLE
70 ms after a failure (`aipi_cloud.c:631`, `414`). `FALSE` leaves it to chance. The
properties hold under `TRUE`; what `FALSE` costs is under "Known divergences".

**Fairness** (`FairSpec`). Every thread finishes what it has begun. `Stopped` is strongly
fair: the radio is disabled between two calls of `aiio_ble_cb`, however many the
phone provokes. Nothing is assumed of the phone, nor that the supervisor starts or stops.

**Left out.** What a message says, its reassembly and the acknowledgements (they are in
`BleMessage`), the buffers that a stop frees, the copies of data that are lost with a deleted queue, `ble_conn`.

### BleMessage

**Threads.** One: the BLE worker, which calls `aiio_ParseBleProtocolData` for every packet.
The phone is the environment: it begins a message (perhaps in the middle of another),
goes on with it, repeats the packet before, leaves and comes back; a packet may be damaged
(`ArriveDamaged`) or lost (`Lose`: the worker's queue of five was full).

**State.** `last_frame`, `data_info`, `data_info_len`, `protocol_entrypt_type` and
`event_key` are the parser's statics; `entrypt_type` and `entrypt_key` those of
`aiio_ble_config.c` that answers are coded with. A shard fills one place of the buffer;
a place nobody wrote is a `Hole`, which in clear text is the end of the string.
`gap`, `open` and `rough` are history: whether this message met a loss, a message under way, an error.
`fault` is a shard written past the buffer, or the structure that
`aiio_JsonProcotolDataParse` frees and its caller frees again; the model stops there.

**Actions.** `Parse` = the frame test, then `Single`, `First` or `Later`, which end in
`Refuse` (destroy, and tell an error) or `Finish` (parse the text, tell the result,
destroy). `Tell*` are the answers, `BleStops` frees the key. `Packs` cuts an answer into
packets, `Packed` is the memory it takes (without it the phone is told nothing); `Pack`,
`PackAck`, `Took` compute the lengths of an answer and what the parser would take from it.

**Abstractions.** The JSON text is one of three outcomes (`Contents`). The CRC is right or the packet is
damaged. `TypeErrLen` is 1 in place of 255: any value puts shards of a message with an
unknown coding where they do not belong. `MaxLen` bounds how often a message is given up.

### Device

**Threads.** The `sys_state` task (`task`, `key`), the supervisor as far as it touches the
settings (`net`, `ble`, `session`), the BLE worker that posts what a phone sent (`PhoneSends`), the mqtt
task in the restore callback (`restore`), and
a reset (`PowerCut`) that may come between any two steps. The notification slot is
never overwritten (`Notify`), so a request may be lost (`missed`).

**State.** `env` is the flash, by key; `wifi_sta` the structure in memory; `conf` what the
driver was configured with. `Write` stores a key and clears the string in memory,
`ReadBack` reads it again; after the last, name and password point into a stack that is
gone (`Gone`). `WriteFails` leaves the old value in the flash, and what is read back is that, cut to
the length of the new. `posted` and `asked` are the two events of the supervisor's queue that carry a
configuration, `data` what the first of them points at, which a stop of BLE clears.
`disturbed` says that the flash was changed by a save that a configuration, a
join, a restore, a failed write or a reset came into; `last` is the network of the last save that
was not.

**Actions of the supervisor.** `TakeConfig` is `REV_CONFIG_DATA_EVENT`, in provisioning or not; `Join`
`REV_WIFI_CONNECTED_EVENT`; `JoinAgain` the configuration of the driver after too many
disconnections, from whatever memory then says (`Joins`); `ConfigFails` a provisioning that begins anew.

**Abstractions.** A field of a network is the network's name. Of the supervisor's queue only these two
events are modelled; the others are what it handles, in any order it can. One event with data is in
the queue at a time, and the worker has reported before BLE stops.

**Fairness** (`LiveSpec`). `WF_vars(SysState)`: the task runs. Nothing else.

### CloudCommand

**Threads.** The mqtt task (`Receive`: parse, mark, acknowledge; `Callback`: the application,
with the payload printed and parsed again), and one task that reports (`ReportBegin` reads
the mark, `ReportEnd` clears it and publishes). `Start` and `Stop` are the session, `Reboot`
loses all of the RAM.

**State.** `IsQuery` is the global of `aiio_protocol_packet.c`; `auto_ack_off` the copy of
`disenable_auto_ack` in the service; `light` and `duty` the outputs; `clock` the answer the
time was set from (`SetTime`: the block is freed before the callback that reads it). `sent`
and `cmds` are logs; `want` is what each pid was told last.

**Memory.** `Uses` and `Order` list what a publication allocates; any of these blocks, or the
client, may fail (`MaxFailures`), and so may any `cJSON_AddItemToObject` (`loose`), whose result nobody
looks at: the object is then in nothing. `Held` is what there is at the failure, `Deletes` the objects the
code names when it returns, and what ends is what they hold (`Holders`): an object whose holder is never
deleted, or that is in none, is lost (`Lost`, counted in `leaked`), and one that two of them hold is freed twice
(`FreesTwice`: the text of a message that cannot be printed; the model stops there). `MemoryReturned` is then a fact about
the way out that each message takes: a failure loses one object at most.

**Abstractions.** Numbers in a control are tenths. A message id is the number of its
command. Payloads other than a control's are one value each.

### WifiDriver

**Threads.** The caller of the driver (`api`), the vendor's manager (`Manager`, external; its
codes go through `wifi_event_handler` into the queue, without waiting), and
`aiio_wifi_config_task` (`Work`).

**State.** Four flags, `wifi_config`, `queue`, `currentState` as in the source. `mgr` is what
the manager does: whether it seeks a station (`auto`), its link and network, whether an
access point runs, whether a scan is under way. `told` is history.

**Cuts.** `aiio_wifi_ap_stop` waits half a second between stopping the access point and
clearing its flags; `ApStopped` is the rest of it, and of `aiio_wifi_stop`, which calls it. The
other operations do not block, and their flags are used by their caller only.

**Failures.** The manager may refuse to start the access point or to connect (`Start`, `Connect`); the
flags are set whatever it answers, and only the history `failed` knows. The configuration may change at
any time, under a link as well (`SetConfig`): the worker asks `use_dhcp` when it takes a code, and once
more after the callback, so it may take a link with an address for one without or the other way round
(`misread`). A code the driver has no case for makes the state `UNKNOWN` until the next (`stray`). A code that finds the
queue full is dropped; `missed` says that it was the last one about the link.

**Bounds that mean something.** `Modes` has no `NULL` in the run: `set_mode(NULL)` clears all
flags without stopping anything, and returns an error.

**Fairness** (`LiveSpec`). `WF_vars(Work \/ WorkConnected)`: the task waits for its queue without limit.

### Clock

**Threads.** The clock's task (`Tick`, every `LoopPeriod` milliseconds, 100 in the code), which has the
highest priority and may run between any two steps of the others; the mqtt task (`OnlineUpdate`, then `FindWay` and
`MoveByZone`, which read direction and hours of the zone one after the other, then
`SetRtcTime` one field at a time); the supervisor (`ZoneHours`, `UpdateZone`: the zone is two writes, and the clock
is set to what it says, of which only the day of the week remains); and a task
that stamps a message (`ReadField`: six reads without a lock, the hour last).

**State.** `local_time`, `week`, `milliscond`, `rtc_time` and `timeData` are the source's; `tz` is `timeZone` and
`zoneDirection`, `coming` the zone of which only the hours are written; `shift`, `at` and `read` say how far the
threads are. `due` is what
a stamp should be, counted independently: `Utc` of the answer in closed form (`Days`), moved
by the zone (`Shift`), plus the seconds since; `from` is what was due when the reading began. A stamp lies between the
two. `crossed`, `torn`, `mixed` and `odd` say when that comparison does not apply: a minute was carried or a set was written
between the reads; a second passed within the set; the zone changed while the time was moved by it (`due` is then
not known); or a carry changed the month, which the code does a day
early, or took an hour past 24 down. What a stamp is then is under "Known divergences".

**Left out.** `aiio_update_rtc_time_with_zone` sets every field to the value it has: a tick between its
load and its store would be lost.

**Reference definitions.** `Days` is not how the code counts: `lTimeToStamp` adds years and
months up (`YearsTo`, `MonthsTo`), `cTimeToWeek` is Zeller's congruence. `StampIsTime` and
`WeekIsDay` compare them. That the sums agree with `Days` is a theorem (`StampOfDate`) for the
years before 3200, a year the code takes for a common one. A stamp has 32 bits, which hold it until
February of 2106: the theorem on stamps is about answers before that year.

## 3. Runs

| Run | Bounds | Shows |
|---|---|---|
| `wan_service` | one task at a time (reused), 3 topics, 1 UTC repeat, both values of `activity` | `TypeOK`, `SubscribedBeforeUtc`, `AnsweredBeforeOnline`, `FlagsAgree`, `SafeAlone`, and `ReportOrder` (the refinement of `WanSession`); 1.56 million states |
| `wan_service_live` | 1 topic, 1 repeat, `FairSpec` | `LaunchResolves`, `TornDown`; 234 thousand states |
| `wan_service_teardown` | as `wan_service` | violates `NoRepeatedTeardown` |
| `supervisor` | one network, both queues 2 long, the limit of disconnections 1, two disturbances, `FairSpec` | `TypeOK`, `LinkBelief`, `ProvisioningAlive`, `QuietOutside`, `FailureRestarts`, `DisconnectReleases`; 66 thousand states |
| `supervisor_start` | two networks, three disturbances | violates `StartUsesConfig` |
| `ble_config` | two runs, queue of 5 as in the code, failing allocations, `StartWaits = TRUE`, `FairSpec` | `TypeOK`, `QueueInUseExists`, `ServedWhileOn`, `LeftIsLast`, `StopEndsWorker`, `LeftIsReported`; 26 thousand states |
| `ble_message` | six messages of 1 to 3 packets, clear, coded and unknown, good and bad; two frame numbers; status texts of 1 to 224 bytes | `DeliversWhatWasSent`, `WholeIsParsed`, `AnswersReadBack`; 54 thousand states |
| `device` | two networks, two events (a configuration, another join, a failed write), one reset, `LiveSpec` | `TypeOK`, `SettingsAgree`, `OnlineIsSaved`, `ReturnsToLastNetwork`, `SaveBegins`; 1.57 million states |
| `command` | all known commands but `queryAll` (which is handled as `query`) and an unknown one, three control payloads, two commands, two reports, one failure | `AckNamesItsCommand`, `AnsweredOnce`, `NoForgedAnswer`, `OutputsAreLastTold`, `MemoryReturned`; 480 thousand states |
| `command_ack` | one command, `DisenableAutoAck = TRUE` | violates `AnsweredOnce` |
| `wifi_driver` | one network, three modes, queue of 3 (5 in the code), five calls, seven codes, `LiveSpec` | `TypeOK`, `FlagsAgree`, `StateIsLink`, `AddressIsTold`; 1.26 million states |
| `clock` | six answers, two zones, one set, one stamp, five ticks of half a second | `StampIsTime`, `WeekIsDay`, `SetNeverBehind`; 2.32 million states |

Why the bounds are enough: `WanService`. A session's identity matters only while two overlap, so one
name reused covers any number of consecutive sessions, with whatever the statics
carried over. Three topics give a first, a middle and a last link of the chain, and a
retry of each; two message ids cover an id that matches and one that does not, because
at most one SUBACK is outstanding. One UTC repeat reaches the limit, and the statics
carry it into the next session. The proofs remove these bounds for every
property but liveness. `SafeAlone` says that the service's own teardown is safe *as long as the
application does not interfere*; `wan_service_teardown` shows what happens when it does.

`CloudSupervisor`. Two places make a queue that is empty,
partly filled, full and overfull; the supervisor's own post can meet each. The limit
of 1 makes the counter pass it with two disconnections. A disturbance (`Disturb`) is a
link failure, a failure or disconnection of the session, a restore command, a start
of BLE that fails, or something the phone does: two of them are any two failures that cross, and
the proofs of the four invariants take any number. When
they are used up every task may wait for ever, so this run does not check deadlock.

`BleConfig`. The queue has its real length, and a departure may
meet it empty, partly filled or full. One name would do when a start waits for the last
worker; a second lets a queue that a failed start left behind still be named.
Nothing is counted, so the state space is the whole one for these names.

`BleMessage`. Three packets give a first, a middle and a last one; two frame numbers, one
of them the initial value of `last_frame`, give one that differs and one that repeats. The
status lengths lie around one block of the cipher and around what one length byte
holds. A fault stops the model, hence no check of deadlock; the proofs take messages of any length.

`Device`. The second event may be a configuration or a join that comes into the save of the first, or
one of its writes that fails, a reset
may come into either; the second network is what tells a mixture from agreement. The proofs take any number.

`CloudCommand`. Two commands against two reports are the least in which a report
begun for one command ends after the next; one failure falls on each block in turn.
The proofs take any number of each.

`WifiDriver`. Five calls are initialisation, mode, a configuration, a start and one more; seven codes are the two of the start-up, a whole
association, its loss and one more, into a queue that overflows at the fourth. The proofs take any number.

`Clock`. Five ticks of 500 ms pass two full seconds, which may fall between any steps of one set, one stamp and a
change of the zone, over each of the edges the six answers are chosen
for: an hour, a midnight, the end of a leap February and of a January, a day before in the west, an hour past 24 in the
east, a date that is none. The proofs take any answers, zones and ticks.

What the runs that fail show:

* `wan_service_teardown`: `aiio_wan_service.c:1329` clears `service_init` so that it
  "will prevent repeated call aiio_service_deinit()". The application tests it once;
  the disconnection arrives after the test; both threads are then in
  `aiio_mqtt_service_deinit`, which takes no lock.
* `supervisor_start`: the phone sends a network, an attempt fails and clears
  `wifi_connect` and `wifi_start_connected`; the phone sends another; the supervisor
  skips `aiio_wifi_disconnect`, and `aiio_wifi_start` does nothing because the station
  was started. The firmware keeps trying the first.
* `command_ack`: `aiio_wan_service.h:110` lets the application ask for acknowledging
  itself; `aiio_service_init` never copies that setting, so a command is acknowledged twice.

### Known divergences without a run

They are behaviours of the modules above (or of their other settings), met while modelling:

* `aiio_wan_service.h:138` promises that `aiio_service_deinit` releases the memory. It
  clears `task_run` and returns; the task frees the handle later, and an init in between
  replaces the global handle under the old task (`WanService` with `InitWaits = FALSE`).
* `aiio_ble_config.h:79` promises the same of BLE: a start may find the worker of the run
  before, and shares handles with it (`BleConfig` with `StartWaits = FALSE`).
* A session reports that it is online; before `cloud_rev_cb` posts the event a restore
  command posts `CONFIG_START`; the online event then ends the new provisioning as a success.
* `LANCH_FAIL` outside provisioning is ignored: the header asks for a deinit, and
  `service_init_state` stays set. After `MQTT_DISCONNECT` the supervisor deinitialises, but a
  new session needs a new IP address.
* The data of the time event point at a block freed before the callback
  (`aiio_wan_service.c:1265-1268`; `SetTime`).
* When BLE stops, the key is freed but what the parser has collected is not; a failure of
  an answer is not told to the phone.
* The attributes of a report leak when there is no memory for the object they go into, and so does any object that
  cannot be put in another, since nobody looks at the result (`aiio_protocol_packet.c:48`-`54`, `101`, `105`): one for each failure
  (`MemoryReturned`). The message is published without it. One whose text cannot be printed is freed twice.
* The clock goes to the next month a day early, from December to month 0, and past 24 hours
  east of Greenwich; a new zone does not move it; a stamp is always taken as UTC+8.
* Name and password of a network point into a stack that is gone after a save
  (`Gone`); a second provisioning fills them again. A join after too many disconnections reads them
  (`JoinAgain`) and may join nothing until the next reset.
* A start of BLE that fails is not noticed (`aiio_ble_config_wifi.c:40`, `aipi_cloud.c:415`-`419`): the device is in
  provisioning with the radio off, and nothing starts it again (`start_failed`). So it is when an event
  of the full queue was dropped (`lost`).
* A stop of BLE that comes before the worker's first turn is undone by it (`aiio_ble_config.c:146`).
* When mqtt cannot be configured, `aiio_service_init` frees the handle under the task it has started.
* A Wi-Fi start that fails leaves its flags set (`aiio_wifi.c:808`-`813`): another start does nothing.
  A code the driver does not know makes its state `UNKNOWN` while the link is up; a configuration under a link
  makes the next code be read by the new `use_dhcp`.
* A reset in the middle of a save leaves the flash with a mixture of two networks (`disturbed`); a write that fails is not noticed,
  and the old value is read back.
* A stamp is an hour ahead when an hour is carried before the last of its six reads (`aiio_rtc_timer.c:270`-`275`), 23 hours
  behind when that is midnight, up to a minute behind when a minute is carried (`crossed`); a zone changed in
  the middle of a set mixes the direction of one with the hours of the other (`mixed`).

## 4. Proofs

`WanServiceProofs`: `TypeCorrect` (`Spec => []TypeOK`) and `FlagsAgreeCorrect`
(`Spec => []FlagsAgree`), each by one lemma per action; `FlagsAgree` is inductive
together with `TypeOK` and needs no assumption about the application.

The rest of the module is about a session whose application waits for the one before to end.
`SubscribedBeforeUtcCorrect` (`InitWaits => (Spec => []SubscribedBeforeUtc)`). The property is not inductive: a
SUBACK may come before the id is stored, between id and topic, or after a retry.
`SubscriptionInv` adds what the code relies on without saying: the topics below the
stored ones are acknowledged; the stored topic runs at most one ahead of the last
confirmed; a SUBACK whose id equals the stored id acknowledges the stored topic or one
that was acknowledged before; between the stores, what is about to be stored continues
the chain; and only one session runs.
`AnsweredCorrect` rests on it and `UtcInv`: once the service task has
had a turn in REQ_UTC, `utc_req` says that this session still has to be answered, or it was;
and a new session starts with no last state, so that its first turn there is one in which it asks. `ReportOrderCorrect` is the refinement:
`ReportInv` relates the last report of the history to `service_state` (`Told`) and to what the
service task has decided in this turn but not reported (`TurnReports`); with it every step of every thread
is shown to launch, report what `WanSession` allows next, or stutter. `SafeAloneCorrect` needs to know
who holds the client: `ClientUse` (an event is delivered only by a running
mqtt task with its client; a freed client is about to be cleared) holds with any
application, `Alone` in a session that is left alone (the client lives as long as its mqtt task; only a session that
waits for that task has told it to stop; the handle goes after the client), and
`Waiting` says that before the mqtt task has started the session cannot get to its teardown.

`CloudSupervisorProofs`: the four invariants of the run `supervisor`, for any
networks, lengths of the queues and limits. `TypeOK` needs `CountBound`: the counter is
within its limit except while `cb_wifi_event` decides. `QuietOutside` is
inductive together with `StoppedIsOff`: the radio is off while the supervisor is between
stopping it and clearing the flags.
`ProvisioningAlive` follows from two stronger invariants, one for each way of being
unreachable: a phone that left is announced by an event that only `BleDisconnected`
takes (`SilentPosted`), and where BLE is off a `CONFIG_START` is in the queue or
being handled, or the supervisor is between stopping BLE and posting one, or the last start failed (`OffRestarts`); `EventStays` says that nobody else takes either.
`LinkBelief` follows from `LinkInv`: the last event on its way tells what the link is,
and when none is, the handler that runs is about to believe it.

`BleConfigProofs`: `TypeCorrect` for either value of `StartWaits`; `QueueInUseExistsCorrect`
and `ServedWhileOnCorrect` for `StartWaits = TRUE`, from one inductive invariant,
`OneWorker`: the worker there is belongs to the last start (`Alone`); until it deletes
its queue, the queue exists and is the one that the handle names (`Owns`); while BLE is on
or coming on, the flag is set and the worker serves (`Running`); and the host's
thread is in the callback only while the radio is on (`HostOn`), which is why its test
of the handle is still good when it posts. `LeftIsLastCorrect` adds `LeftInv`: a departure in a queue is its
last entry, and while it waits, is handled or has been reported the link is gone, the host's thread is out of the callback and nothing
can be posted; a start finds nothing left of the last run.

`DeviceProofs`, for any networks, configurations and resets. `SettingsAgree` speaks of the device at rest;
`SaveInv` is what makes it inductive: in the middle of a save the variables up to `key`
are in the flash and the others still in memory, all of the network `conf`, although
each is cleared on the way. `ReturnsToLastNetwork` needs `BootInv` (between a reset and the
boot's decision nothing else runs, and memory is what the flash said) and `Decides`.
`OnlineIsSaved` needs `PortInv`, because the port is the only variable that stays in memory
throughout a save and so tells whose session this is, and `SavedInv`: the save of this session is
done, under way or in the slot.

`WifiDriverProofs`: `FlagsCorrect` assumes that `NULL` is no mode. `FlagsInv` says what holds
while `aiio_wifi_ap_stop` waits (the access point is down before its flag is), whatever the manager refused.
`StateCorrect` says what an idle queue tells; `LinkInv` says it of a queue with codes in it: where the last about the link was not dropped,
the last that waits tells what the link is
(`Underway`), and with none waiting the application and the state know (`Settled`); the two codes of the start-up come first (`ReadyFirst`,
`NoLinkYet`). A code read under another `use_dhcp` than the manager's leaves two links to choose from (`TakenFor`) until the next one.

`BleMessageProofs`, for messages of any number of packets. `ParserInv` has, beside the types,
`Collected` (as long as every packet arrived once the length is at least the number of
packets, so no shard has a place before its own, and where it is equal the shards are in their places)
and `Clean` (after a result nothing is left, so that the next message starts at place one).
A message begun inside another starts further on, leaves a hole in front or overruns,
and is then not parsed as good: that is why `DeliversWhatWasSent` holds without `~rough`.
`AnswersCorrect` is arithmetic, for any lengths from 1 to 224 and packets longer than 255 (`StatusAssumption`;
beyond 224 the one length byte of a coded answer overflows): the padded text and its CRC fit in one packet
(`PaddedBounds`, `PacksWhole`), and the parser takes from it what was packed.

`CloudCommandProofs`, for any commands and bounds. `MemoryCorrect` goes through the ways out of a publication and finds for each
what its deletions do not reach. `NoForgedAnswer` becomes inductive with
`Pending`: the mark, or a report that has read it, stands for one answer still to come.
`AckNamesItsCommand` and `AnsweredOnce` follow from `AnswerInv`: every coded message
names a command in the log, and each command that must be answered has exactly one index
in `sent`. `OnceCorrect` assumes `~DisenableAutoAck`; with it the run `command_ack` fails.

`OutputsAreLastTold` is about a fold: `OutputsCorrect` takes the payloads to be sequences of values and of objects of
values (`ControlAssumption`). `FoldWalks` shows that the community modules' `FoldLeft` is a walk from leaf to leaf, by building
the function its definition chooses for one leaf more at a time; along the walk an output is what the last leaf so far told
it (`Set`), or what it was (`Kept`), and no leaf touches the output of another (`LeafSets`).

`ClockProofs`, for any answers, zones and numbers of ticks. `ClockInv` is inductive. In a
set it says of the fields written so far that they are the answer's if no second came between (`Written`),
and that the clock, down to the field written last, is not behind the answer if seconds did (`AheadInv`, from hours
to minutes to seconds: a carry moves a field that was written up by at least what it takes from the one below).
`ShiftInv` says that the way found for moving the answer is the zone's, unless the zone changed (`mixed`).
`StampInv` says that the time being set, or else the clock, is what is due; a tick adds one to both
(`SecondPasses`: the carries of a second, field by field). `ReadInv` takes this to the fields read one by one: with no carry between
them they are the clock's, but for the seconds since, and no more of these than have become due since the reading began. `WeekInv` says that the day was computed for the date there is: a
date changes only in a second 0, which computes it anew. `WeekIsOfDays` is that Zeller's congruence and the closed form
differ by whole weeks. `StampOfDate` takes the sums of `lTimeToStamp` year by year and month by month to the closed form, for
the years 1970 to 3199, and `StampFits` says that the 32 bits of a stamp hold it from 1971 to 2105; `CalendarLeft` that 3200 is
where code and calendar part. `StampCorrect` has answers before 2106 as its hypothesis (`InCalendar`), and says as well that the
32 bits then are the whole stamp (`StampKept`); the other two need none.

Induction. The library's theorems take an operator as a parameter and cannot be instantiated, but `WFMin` takes a set:
`NatSetInduction` (in `ClockProofs` and `CloudCommandProofs`) has a set in the place of the predicate, and what a
recursive function or a fold of the community modules computes is proved with it.

`TimersNeverEarly` (in `WanServiceProofs`) is about `diffTimeTick`: the model lets a timer run out or not, once it may have; the code's
difference of two readings is never more than the ticks between them, and one less where the counter wrapped.

Assumptions on constants are the named `ASSUME`s of each module: among them that payloads are sequences of items, that `LastTopic` and
`MaxUtcRepeat` are positive, that message ids are at least two and none is a value the code
reserves, and that names of nothing (`NoHandle`, `NoNetwork`, `Empty`, `Gone`, `NoMessage`) name something
else than what they stand beside. `InitWaits`, `StartWaits`, `~DisenableAutoAck`, `InCalendar` and the modes without `NULL` are hypotheses
of the theorems that need them, and stand in their statements.

Only model-checked: liveness (`LaunchResolves`, `TornDown`, `FailureRestarts`,
`DisconnectReleases`, `StopEndsWorker`, `LeftIsReported`, `SaveBegins`, `AddressIsTold`), which is out of the
prover's reach. Every other invariant and action property of the runs that pass is a theorem.

## 5. Plan

1. A `CloudSupervisor` whose session is checked against `WanSession` step by step.
2. The client's queue of unacknowledged messages and its expiry.

## 6. Not modelled

Vendored transports (esp-tls, http client and server, websocket, http-parser),
cJSON, EasyLogger and AES: third-party or pure data. The checksums: only
`crc16_xmodem` is used, as right or wrong in `BleMessage`. The central role of BLE, the UART and GPIO
drivers, the set-up of the board and the OS port: I/O and one-to-one wrappers.
`aiio_cloud_control.c` and the flash functions of `aiio_common.c` are commented out;
`aiio_vStampToTime` and `aiio_rtc_deinit` are called by nobody. The offline message the
broker publishes as a will needs a broker. The download of an upgrade is the application's
and is not there. The MAC, IP, channel and signal getters of the driver, its sniffer and
the list a scan returns are reads and data. A SUBACK that carries
a failure code is taken as a success by the code, so the model does not distinguish
it. A difference of two readings of the tick counter loses one tick when the counter wraps
(`aiio_wan_service.c:1383`): the timers are tens of seconds long, and `WanService` has them
run out or not (`TimersNeverEarly`).
