----------------------------- MODULE WanService -----------------------------
(***************************************************************************)
(* The cloud session of protocol/aiio_wan_service.c: the service task that *)
(* connects, subscribes, asks for the time and goes online; the callbacks  *)
(* the mqtt task runs on the same handle; and the application thread that  *)
(* starts and stops the session through application/aiio_cloud_receive.c.  *)
(*                                                                         *)
(* Everything is reached through two globals, `service.handle` and         *)
(* `mqtt_client`, and no lock is ever taken on them (service_lock is       *)
(* created and never used), so the steps below are cut where a thread      *)
(* reads a global after another thread may have changed it.                *)
(*                                                                         *)
(* A use of a NULL handle or of a freed mqtt client stops the device:      *)
(* `fault` records it and nothing happens afterwards.                      *)
(***************************************************************************)
EXTENDS Integers, Sequences, FiniteSets

CONSTANTS
    Sessions,       \* service tasks that may exist; an ended one is used again
    App,            \* the thread that calls the user service
    NoHandle,       \* the NULL service.handle
    ActivityFlags,  \* what the application passes as `activity` (either, in the code)
    MsgId,          \* message ids the mqtt client hands out
    LastTopic,      \* AIIO_SUBSCRIBE_CONFIG_EVENT, the last topic of the chain (6 in the code)
    MaxUtcRepeat,   \* UTC requests repeated before the session gives up (10 in the code)
    InitWaits       \* TRUE: the application lets an old session end before the next init

ASSUME ThreadAssumption == App \notin Sessions /\ NoHandle \notin Sessions
ASSUME ActivityAssumption == ActivityFlags \subseteq BOOLEAN

NoId     == 0       \* a zeroed cur_sub_msg_id
FailedId == -1      \* what a failed subscribe returns
ASSUME MsgIdAssumption ==
    NoId \notin MsgId /\ FailedId \notin MsgId /\ \E i, j \in MsgId : i # j

ASSUME LastTopicAssumption == LastTopic \in Nat \ {0}
ASSUME MaxUtcRepeatAssumption == MaxUtcRepeat \in Nat \ {0}
ASSUME InitWaitsAssumption == InitWaits \in BOOLEAN

VARIABLES
    service_init_state,     \* aiio_cloud_receive.c: the application believes a session exists
    service_init,           \* service.service_init
    handle,                 \* service.handle
    activity,               \* service.config.activity
    \* the fields of *service.handle
    task_run, service_state, cur_sub_event, last_sub_event, cur_sub_msg_id, utc_req, status_bits,
    \* statics of aiio_wan_service.c that outlive a session
    utc_is_req, utc_repeat_count,
    \* aiio_mqtt_service.c's client, its run flag, its task, the event its task is
    \* handing to the service (under the client's api lock), the unanswered SUBSCRIBE
    mqtt_client, client_run, mqtt_task, mqtt_event, inflight,
    \* threads: program counter, locals of the service task, why a teardown runs
    pc, last_service_state, elapsed, sub, why,
    \* history: topics acknowledged, UTC asked and answered, reports, "the session was not left alone"
    acked, utc_reply, reports, disturbed,
    fault

handleVars  == <<task_run, service_state, cur_sub_event, last_sub_event,
                 cur_sub_msg_id, utc_req, status_bits>>
utcVars     == <<utc_is_req, utc_repeat_count>>
mqttVars    == <<mqtt_client, client_run, mqtt_task, mqtt_event, inflight>>
taskVars    == <<last_service_state, elapsed, sub>>
historyVars == <<acked, utc_reply, reports>>
serviceVars == <<service_init, handle, activity>>
vars == <<service_init_state, serviceVars, handleVars, utcVars, mqttVars,
          pc, taskVars, why, historyVars, disturbed, fault>>

Threads == Sessions \cup {App}

\* aiio_subscribe_event_t, in the order the chain walks it
Topics    == 1 .. LastTopic     \* UTC_ACK, INFO, CONTROL, QUERY, UPGRADE, CONFIG
NoTopic   == 0                  \* AIIO_SUBSCRIBE_INVAILD_EVENT
NextTopicSkips(e) == e + 2      \* mutant: one subscription of the chain forgotten
NextTopic(e) == e + 1

\* utc_repeat_count > 10
PastLimitByOne(n) == n > MaxUtcRepeat + 1       \* mutant
PastLimit(n)      == n > MaxUtcRepeat

States == {"INVAILD", "INIT", "MQTT_CONNECTD", "SUBSCRIBED", "REQ_UTC",
           "REP_ACTIVITY", "REP_ONLINE", "ONLINE_CHECK"}
Bits   == {"CONNECTED", "SUBSCRIBED", "DISCONNECT"}

NoSuback == [id |-> NoId, topic |-> NoTopic]

Goto(t, l) == pc' = [pc EXCEPT ![t] = l]
At(t, l)   == pc[t] = l /\ fault = "none"

\* The mqtt client's api lock: its task holds it while it dispatches an event.
LockFree    == mqtt_event = "none"
CanPublish  == mqtt_client = "null" \/ (mqtt_client = "live" /\ LockFree)

-----------------------------------------------------------------------------
Init ==
    /\ service_init_state = FALSE /\ service_init = FALSE
    /\ handle = NoHandle /\ activity = FALSE
    /\ task_run = FALSE /\ service_state = "INVAILD"
    /\ cur_sub_event = NoTopic /\ last_sub_event = NoTopic /\ cur_sub_msg_id = NoId
    /\ utc_req = FALSE /\ status_bits = {}
    /\ utc_is_req = FALSE /\ utc_repeat_count = 0
    /\ mqtt_client = "null" /\ client_run = FALSE /\ mqtt_task = "none"
    /\ mqtt_event = "none" /\ inflight = NoSuback
    /\ pc = [t \in Threads |-> IF t = App THEN "idle" ELSE "none"]
    /\ last_service_state = [s \in Sessions |-> "INVAILD"]
    /\ elapsed = [s \in Sessions |-> FALSE]
    /\ sub = [s \in Sessions |-> NoSuback]
    /\ why = [s \in Sessions |-> "none"]
    /\ acked = {} /\ utc_reply = "none" /\ reports = <<>>
    /\ disturbed = FALSE /\ fault = "none"

-----------------------------------------------------------------------------
(* A handle's fields are zero when it is allocated; a freed one has none,  *)
(* and the history of its session ends with it.                            *)
NoFields ==
    /\ task_run' = FALSE /\ service_state' = "INVAILD"
    /\ cur_sub_event' = NoTopic /\ last_sub_event' = NoTopic /\ cur_sub_msg_id' = NoId
    /\ utc_req' = FALSE /\ status_bits' = {}
    /\ acked' = {} /\ utc_reply' = "none" /\ reports' = <<>>

DestroyKeepsInit ==     \* mutant: the final memset forgotten
    /\ handle' = NoHandle
    /\ UNCHANGED <<service_init, activity>>
    /\ NoFields

(* aiio_service_destroy: frees the handle whose address is in the global,  *)
(* then clears the whole `service` structure.                              *)
Destroy ==
    /\ handle' = NoHandle
    /\ service_init' = FALSE
    /\ activity' = FALSE
    /\ NoFields

(* The application thread: aiio_user_service_init and aiio_service_init.   *)

\* Refused because service_init is set, or out of memory before the task exists:
\* the result is ignored and the application believes it has a session.
UserInitFails ==
    /\ At(App, "idle") /\ ~service_init_state
    /\ InitWaits => \A s \in Sessions : pc[s] = "none"
    /\ IF service_init THEN UNCHANGED <<serviceVars, handleVars, historyVars>> ELSE Destroy
    /\ service_init_state' = TRUE
    /\ UNCHANGED <<utcVars, mqttVars, pc, taskVars, why, disturbed, fault>>

\* A zeroed handle, the service task, then service_init: the mqtt client follows.
UserInit(s, act) ==
    /\ At(App, "idle") /\ ~service_init_state
    /\ ~service_init
    /\ pc[s] = "none"
    /\ InitWaits => /\ \A r \in Sessions : pc[r] = "none"
                    /\ mqtt_task \in {"none", "stopped"}
    /\ handle' = s /\ service_init' = TRUE /\ activity' = act
    /\ NoFields
    /\ pc' = [pc EXCEPT ![s] = "new", ![App] = "config"]
    /\ disturbed' = FALSE
    /\ UNCHANGED <<service_init_state, utcVars, mqttVars, taskVars, why, fault>>

\* aiio_mqtt_service_init: a client and its task; either may not be made.  The function
\* ends without a return, so that its caller is told anything.
MqttInit ==
    /\ mqtt_client = "null"
    /\ \E client \in {"live", "null"} : \E task \in {"boot", "none"} :
          /\ mqtt_client' = client
          /\ mqtt_task' = IF client = "live" THEN task ELSE mqtt_task
          /\ client_run' = FALSE
    /\ inflight' = NoSuback
    /\ UNCHANGED mqtt_event

\* aiio_mqtt_service_config, told of a success.
InitMqtt ==
    /\ At(App, "config")
    /\ MqttInit
    /\ service_init_state' = TRUE
    /\ Goto(App, "idle")
    /\ UNCHANGED <<serviceVars, handleVars, utcVars, taskVars, why, historyVars, disturbed, fault>>

\* No memory for the last-will buffers, a client is left over, or a failure was told, with
\* or without a client: the handle is freed although the service task already exists.
InitMqttFails ==
    /\ At(App, "config")
    /\ MqttInit \/ UNCHANGED mqttVars
    /\ Destroy
    /\ disturbed' = TRUE
    /\ service_init_state' = TRUE
    /\ Goto(App, "idle")
    /\ UNCHANGED <<utcVars, taskVars, why, fault>>

-----------------------------------------------------------------------------
(* aiio_mqtt_service_deinit, run by the application or by a service task.  *)
(* Every call reads the global mqtt_client again.                          *)

\* The check at its head: nothing to do without a client.
TeardownEntry == IF mqtt_client = "null" THEN "torn" ELSE "stop"

StopNeverWaits == FALSE     \* mutant: stop returns without the STOPPED_BIT
StopWaits      == mqtt_client = "live" /\ client_run

\* aiio_mqtt_client_stop: under the api lock; waits only if it cleared `run`.
MqttStop(t) ==
    /\ At(t, "stop")
    /\ mqtt_client = "null" \/ (mqtt_client = "live" /\ LockFree)
    /\ Goto(t, IF StopWaits THEN "wait" ELSE "destroy")
    /\ client_run' = (client_run /\ mqtt_client = "null")
    /\ UNCHANGED <<service_init_state, serviceVars, handleVars, utcVars, mqtt_client, mqtt_task,
                   mqtt_event, inflight, taskVars, why, historyVars, disturbed, fault>>

\* STOPPED_BIT, or the event group deleted under the waiting thread.
MqttWait(t) ==
    /\ At(t, "wait")
    /\ mqtt_task = "stopped" \/ mqtt_client # "live"
    /\ Goto(t, "destroy")
    /\ UNCHANGED <<service_init_state, serviceVars, handleVars, utcVars, mqttVars,
                   taskVars, why, historyVars, disturbed, fault>>

\* aiio_mqtt_client_destroy: stops once more, then frees.
MqttDestroy(t) ==
    /\ At(t, "destroy")
    /\ \/ /\ mqtt_client = "live" /\ LockFree /\ client_run
          /\ client_run' = FALSE
          /\ Goto(t, "wait")
          /\ UNCHANGED mqtt_client
       \/ /\ mqtt_client = "live" /\ LockFree /\ ~client_run
          /\ mqtt_client' = "freed"
          /\ Goto(t, "clear")
          /\ UNCHANGED client_run
       \/ /\ mqtt_client = "null"
          /\ Goto(t, "clear")
          /\ UNCHANGED <<mqtt_client, client_run>>
    /\ UNCHANGED <<service_init_state, serviceVars, handleVars, utcVars, mqtt_task, mqtt_event,
                   inflight, taskVars, why, historyVars, disturbed, fault>>

MqttClear(t) ==
    /\ At(t, "clear")
    /\ mqtt_client' = "null"
    /\ Goto(t, "torn")
    /\ UNCHANGED <<service_init_state, serviceVars, handleVars, utcVars, client_run, mqtt_task,
                   mqtt_event, inflight, taskVars, why, historyVars, disturbed, fault>>

Teardown(t) == MqttStop(t) \/ MqttWait(t) \/ MqttDestroy(t) \/ MqttClear(t)

\* aiio_user_service_deinit when the session has already cleared service_init.
UserDeinitRefused ==
    /\ At(App, "idle") /\ service_init_state
    /\ ~service_init
    /\ service_init_state' = FALSE
    /\ UNCHANGED <<serviceVars, handleVars, utcVars, mqttVars, pc, taskVars, why,
                   historyVars, disturbed, fault>>

UserDeinit ==
    /\ At(App, "idle") /\ service_init_state
    /\ service_init
    /\ task_run' = (task_run /\ handle = NoHandle)
    /\ Goto(App, TeardownEntry)
    /\ disturbed' = TRUE
    /\ UNCHANGED <<service_init_state, serviceVars, service_state, cur_sub_event, last_sub_event,
                   cur_sub_msg_id, utc_req, status_bits, utcVars, mqttVars, taskVars, why,
                   historyVars, fault>>

UserDeinitDone ==
    /\ At(App, "torn")
    /\ service_init' = FALSE
    /\ service_init_state' = FALSE
    /\ Goto(App, "idle")
    /\ UNCHANGED <<handle, activity, handleVars, utcVars, mqttVars, taskVars, why,
                   historyVars, disturbed, fault>>

-----------------------------------------------------------------------------
(* The mqtt task, and aiio_mqtt_service_event and aiio_protocol_payload    *)
(* which it calls.  An event is first checked against the handle           *)
(* (MqttDispatch) and then applied to it (MqttDeliver).                    *)

MqttUnchanged == UNCHANGED <<service_init_state, utcVars, pc, taskVars, why, reports,
                             disturbed, handle, activity>>

MqttBoot ==
    /\ fault = "none" /\ mqtt_client = "live" /\ mqtt_task = "boot"
    /\ mqtt_task' = "down"
    /\ client_run' = TRUE
    /\ MqttUnchanged
    /\ UNCHANGED <<service_init, handleVars, mqtt_client, mqtt_event, inflight,
                   acked, utc_reply, fault>>

\* Events the connection can produce now, with the state it leaves the client in.
\* After a stop, only the abort of a connection that was still being polled.
MqttEvents ==
    (IF mqtt_task = "down" /\ client_run
       THEN {<<"CONNECTED", "up">>, <<"DISCONNECTED", "down">>} ELSE {})
    \cup (IF mqtt_task = "up" THEN {<<"DISCONNECTED", "down">>} ELSE {})
    \cup (IF mqtt_task = "up" /\ client_run /\ inflight # NoSuback
            THEN {<<"SUBSCRIBED", "up">>} ELSE {})
    \cup (IF mqtt_task = "up" /\ client_run /\ utc_reply # "none"
            THEN {<<"UTC", "up">>} ELSE {})

\* Only the payload path does not look at the handle first.
Accepts(e) == e = "UTC" \/ (handle # NoHandle /\ task_run)

MqttDispatch ==
    /\ fault = "none" /\ mqtt_client = "live" /\ LockFree
    /\ \E e \in MqttEvents :
          /\ mqtt_task' = e[2]
          /\ mqtt_event' = IF Accepts(e[1]) THEN e[1] ELSE "none"
          /\ inflight' = IF e[1] = "SUBSCRIBED" /\ ~Accepts(e[1]) THEN NoSuback ELSE inflight
    /\ MqttUnchanged
    /\ UNCHANGED <<service_init, handleVars, mqtt_client, client_run,
                   acked, utc_reply, fault>>

\* The broker's answer is lost, or its outbox entry has expired.
MqttLoseSuback ==
    /\ fault = "none" /\ inflight # NoSuback /\ mqtt_event # "SUBSCRIBED"
    /\ inflight' = NoSuback
    /\ MqttUnchanged
    /\ UNCHANGED <<service_init, handleVars, mqtt_client, client_run, mqtt_task, mqtt_event,
                   acked, utc_reply, fault>>

DeliverConnected ==
    /\ mqtt_event = "CONNECTED"
    /\ mqtt_event' = "none"
    /\ status_bits' = status_bits \cup {"CONNECTED"}
    /\ UNCHANGED <<last_sub_event, utc_req, inflight, acked, utc_reply>>

DeliverDisconnected ==
    /\ mqtt_event = "DISCONNECTED"
    /\ mqtt_event' = "CLEAR_INIT"
    /\ status_bits' = status_bits \cup {"DISCONNECT"}
    /\ UNCHANGED <<last_sub_event, utc_req, inflight, acked, utc_reply>>

DeliverSubscribed ==
    /\ mqtt_event = "SUBSCRIBED"
    /\ mqtt_event' = "none"
    /\ last_sub_event' = IF inflight.id = cur_sub_msg_id THEN cur_sub_event ELSE NoTopic
    /\ status_bits' = status_bits \cup {"SUBSCRIBED"}
    /\ acked' = acked \cup {inflight.topic}
    /\ inflight' = NoSuback
    /\ UNCHANGED <<utc_req, utc_reply>>

\* aiio_protocol_payload looks at task_run only after it has used the handle.
DeliverUtc ==
    /\ mqtt_event = "UTC"
    /\ mqtt_event' = "none"
    /\ utc_req' = (utc_req /\ ~task_run)
    /\ utc_reply' = IF task_run THEN "answered" ELSE utc_reply
    /\ UNCHANGED <<last_sub_event, status_bits, inflight, acked>>

MqttDeliver ==
    /\ fault = "none" /\ mqtt_client = "live" /\ handle # NoHandle
    /\ DeliverConnected \/ DeliverDisconnected \/ DeliverSubscribed \/ DeliverUtc
    /\ MqttUnchanged
    /\ UNCHANGED <<service_init, task_run, service_state, cur_sub_event, cur_sub_msg_id,
                   mqtt_client, client_run, mqtt_task, fault>>

\* The statement after the DISCONNECT bit: service.service_init = false.
MqttClearInit ==
    /\ fault = "none" /\ mqtt_client = "live" /\ mqtt_event = "CLEAR_INIT"
    /\ service_init' = FALSE
    /\ mqtt_event' = "none"
    /\ MqttUnchanged
    /\ UNCHANGED <<handleVars, mqtt_client, client_run, mqtt_task, inflight,
                   acked, utc_reply, fault>>

\* `run` was cleared: the task sets STOPPED_BIT and ends.
MqttExit ==
    /\ fault = "none" /\ mqtt_client = "live" /\ LockFree
    /\ mqtt_task \in {"down", "up"} /\ ~client_run
    /\ mqtt_task' = "stopped"
    /\ inflight' = NoSuback
    /\ MqttUnchanged
    /\ UNCHANGED <<service_init, handleVars, mqtt_client, client_run, mqtt_event,
                   acked, utc_reply, fault>>

-----------------------------------------------------------------------------
(* aiio_service_task.  One turn of its loop is "loop", "body" (the switch  *)
(* on service_state, with the steps it is cut into), "check" (the          *)
(* disconnect bit); a teardown ends at "torn".                             *)

SvcUnchanged == UNCHANGED <<service_init_state, service_init, handle, client_run, mqtt_client,
                            mqtt_task, mqtt_event, acked, disturbed, fault>>

\* A UTC request reaches the cloud, which may answer it, and more than once.
AskUtc == utc_reply' = IF utc_reply = "none" /\ mqtt_client = "live" /\ mqtt_task = "up"
                         THEN "asked" ELSE utc_reply

\* First turn in a state: the local copy of the state, and the timer restarts.
Enter(s, st) == last_service_state' = [last_service_state EXCEPT ![s] = st]
RestartTimer(s, st) == elapsed' = [elapsed EXCEPT ![s] = FALSE]   \* mutant: on every turn
StartTimer(s, st) ==
    elapsed' = [elapsed EXCEPT ![s] = @ /\ last_service_state[s] = st]
Expired(s, st) == elapsed[s] /\ last_service_state[s] = st

\* What a timer compares: the ticks from one reading of a counter to another; max is the
\* greatest value of the counter, an unsigned 32-bit integer.
diffTimeTick(max, start, end) ==
    IF end >= start THEN end - start ELSE (max - start) + end

InState(s, st) == At(s, "body") /\ handle # NoHandle /\ service_state = st

\* The timer of the current state runs out while the task sleeps or is blocked in a
\* call: seconds at least, so that by then the application has finished its init and
\* a ready mqtt task has run.  A state that is entered later restarts it.
Tick(s) ==
    /\ fault = "none"
    /\ pc[s] \in {"loop", "sub", "utc_publish"} /\ ~elapsed[s]
    /\ last_service_state[s] = service_state
    /\ service_state \in {"INIT", "SUBSCRIBED", "REQ_UTC", "ONLINE_CHECK"}
    /\ pc[App] # "config" /\ mqtt_task # "boot"
    /\ elapsed' = [elapsed EXCEPT ![s] = TRUE]
    /\ UNCHANGED <<service_init_state, serviceVars, handleVars, utcVars, mqttVars, pc,
                   last_service_state, sub, why, historyVars, disturbed, fault>>

SvcStart(s) ==
    /\ At(s, "new") /\ handle # NoHandle
    /\ task_run' = TRUE
    /\ service_state' = "INIT"
    /\ Goto(s, "loop")
    /\ SvcUnchanged
    /\ UNCHANGED <<utc_reply, activity, cur_sub_event, last_sub_event, cur_sub_msg_id, utc_req, status_bits,
                   utcVars, inflight, taskVars, why, reports>>

SvcLoop(s) ==
    /\ At(s, "loop") /\ handle # NoHandle
    /\ Goto(s, IF task_run THEN "body" ELSE "exit")
    /\ SvcUnchanged
    /\ UNCHANGED <<utc_reply, activity, handleVars, utcVars, inflight, taskVars, why, reports>>

\* INIT: wait for the connection, at most mqtt_connect_timeout seconds.
SvcInit(s) ==
    /\ InState(s, "INIT")
    /\ Enter(s, "INIT") /\ StartTimer(s, "INIT")
    /\ \/ /\ "CONNECTED" \in status_bits
          /\ status_bits' = status_bits \ {"CONNECTED"}
          /\ service_state' = "MQTT_CONNECTD"
          /\ Goto(s, "check")
          /\ UNCHANGED why
       \/ /\ "CONNECTED" \notin status_bits /\ Expired(s, "INIT")
          /\ why' = [why EXCEPT ![s] = "LANCH_FAIL"]
          /\ Goto(s, TeardownEntry)
          /\ UNCHANGED <<status_bits, service_state>>
       \/ /\ "CONNECTED" \notin status_bits /\ ~Expired(s, "INIT")
          /\ Goto(s, "check")
          /\ UNCHANGED <<status_bits, service_state, why>>
    /\ SvcUnchanged
    /\ UNCHANGED <<utc_reply, activity, task_run, cur_sub_event, last_sub_event, cur_sub_msg_id, utc_req,
                   utcVars, inflight, sub, reports>>

SvcConnected(s) ==
    /\ InState(s, "MQTT_CONNECTD")
    /\ Enter(s, "MQTT_CONNECTD")
    /\ service_state' = "SUBSCRIBED"
    /\ reports' = Append(reports, "MQTT_CONNECTED")
    /\ Goto(s, "check")
    /\ SvcUnchanged
    /\ UNCHANGED <<utc_reply, activity, task_run, cur_sub_event, last_sub_event, cur_sub_msg_id, utc_req,
                   status_bits, utcVars, inflight, elapsed, sub, why>>

\* SUBSCRIBED: the topic to subscribe now, NoTopic if the answer is awaited
\* or nothing was ever subscribed under an acknowledgement.
TopicToSubscribe ==
    IF "SUBSCRIBED" \in status_bits
      THEN IF last_sub_event # NoTopic THEN NextTopic(last_sub_event) ELSE cur_sub_event
      ELSE IF cur_sub_event = NoTopic THEN 1 ELSE NoTopic

ChainDone == "SUBSCRIBED" \in status_bits /\ last_sub_event = LastTopic

\* The last topic is acknowledged: clear the bookkeeping and go on.
SvcSubscribed(s) ==
    /\ InState(s, "SUBSCRIBED") /\ ChainDone
    /\ Enter(s, "SUBSCRIBED") /\ StartTimer(s, "SUBSCRIBED")
    /\ status_bits' = status_bits \ {"SUBSCRIBED"}
    /\ cur_sub_event' = NoTopic /\ last_sub_event' = NoTopic /\ cur_sub_msg_id' = NoId
    /\ service_state' = "REQ_UTC"
    /\ Goto(s, "sub_timer")
    /\ SvcUnchanged
    /\ UNCHANGED <<utc_reply, activity, task_run, utc_req, utcVars, inflight, sub, why, reports>>

\* Otherwise subscribe the next topic, or the same one again, or wait.
SvcSubscribe(s) ==
    /\ InState(s, "SUBSCRIBED") /\ ~ChainDone
    /\ Enter(s, "SUBSCRIBED") /\ StartTimer(s, "SUBSCRIBED")
    /\ status_bits' = status_bits \ {"SUBSCRIBED"}
    /\ sub' = [sub EXCEPT ![s].topic = TopicToSubscribe]
    /\ Goto(s, IF TopicToSubscribe = NoTopic THEN "sub_timer" ELSE "sub")
    /\ SvcUnchanged
    /\ UNCHANGED <<utc_reply, activity, task_run, service_state, cur_sub_event, last_sub_event,
                   cur_sub_msg_id, utc_req, utcVars, inflight, why, reports>>

\* The client counts its message ids up; the service only compares for equality.
FreshId == CHOOSE id \in MsgId : id # cur_sub_msg_id

\* aiio_mqtt_client_subscribe: the packet is in the outbox, and the write may still fail.
SubscribeSent(s) ==
    /\ mqtt_client = "live" /\ mqtt_task = "up"
    /\ inflight' = [id |-> FreshId, topic |-> sub[s].topic]
    /\ \E ret \in {FreshId, FailedId} : sub' = [sub EXCEPT ![s].id = ret]

\* No memory for the topic, no client, or no connection.
SubscribeFails(s) ==
    /\ sub' = [sub EXCEPT ![s].id = FailedId]
    /\ UNCHANGED inflight

\* aiio_mqtt_service_subscribe, under the client's api lock.
SvcSubCall(s) ==
    /\ At(s, "sub") /\ CanPublish
    /\ SubscribeSent(s) \/ SubscribeFails(s)
    /\ Goto(s, "sub_id")
    /\ SvcUnchanged
    /\ UNCHANGED <<utc_reply, activity, handleVars, utcVars, last_service_state, elapsed, why, reports>>

\* Two stores: the answer can arrive before, between and after them.
SvcSubId(s) ==
    /\ At(s, "sub_id") /\ handle # NoHandle
    /\ cur_sub_msg_id' = sub[s].id
    /\ Goto(s, "sub_event")
    /\ SvcUnchanged
    /\ UNCHANGED <<utc_reply, activity, task_run, service_state, cur_sub_event, last_sub_event, utc_req,
                   status_bits, utcVars, inflight, taskVars, why, reports>>

SvcSubEvent(s) ==
    /\ At(s, "sub_event") /\ handle # NoHandle
    /\ cur_sub_event' = sub[s].topic
    /\ sub' = [sub EXCEPT ![s] = NoSuback]
    /\ Goto(s, "sub_timer")
    /\ SvcUnchanged
    /\ UNCHANGED <<utc_reply, activity, task_run, service_state, last_sub_event, cur_sub_msg_id, utc_req,
                   status_bits, utcVars, inflight, last_service_state, elapsed, why, reports>>

\* keepalive * 2 seconds for the whole chain; looked at even after its last answer.
SvcSubTimer(s) ==
    /\ At(s, "sub_timer")
    /\ Goto(s, IF Expired(s, "SUBSCRIBED") THEN TeardownEntry ELSE "check")
    /\ why' = IF Expired(s, "SUBSCRIBED")
                THEN [why EXCEPT ![s] = "SUBSCRIBE_TIMEOUT"] ELSE why
    /\ SvcUnchanged
    /\ UNCHANGED <<utc_reply, activity, handleVars, utcVars, inflight, taskVars, reports>>

AskIfFlagged(s) == utc_is_req       \* mutant: the flag is not set on entry

\* REQ_UTC: ask on entry, and again whenever the repeat timer asked for it.
AskNow(s) == utc_is_req \/ last_service_state[s] # "REQ_UTC"

SvcReqUtc(s) ==
    /\ InState(s, "REQ_UTC")
    /\ Enter(s, "REQ_UTC") /\ StartTimer(s, "REQ_UTC")
    /\ utc_is_req' = FALSE
    /\ utc_req' = (utc_req \/ AskNow(s))
    /\ Goto(s, IF AskNow(s) THEN "utc_publish" ELSE "utc_test")
    /\ SvcUnchanged
    /\ UNCHANGED <<utc_reply, activity, task_run, service_state, cur_sub_event, last_sub_event,
                   cur_sub_msg_id, status_bits, utc_repeat_count, inflight, sub, why, reports>>

\* The publish takes the api lock; its result is ignored.
SvcUtcPublish(s) ==
    /\ At(s, "utc_publish") /\ CanPublish
    /\ AskUtc
    /\ Goto(s, "utc_test")
    /\ SvcUnchanged
    /\ UNCHANGED <<activity, handleVars, utcVars, inflight, taskVars, why, reports>>

\* The answer cleared utc_req; then the repeat timer, which counts the repeats.
SvcUtcTest(s) ==
    LET late  == Expired(s, "REQ_UTC")
        count == IF utc_req THEN utc_repeat_count ELSE 0
        over  == late /\ PastLimit(count + 1)
    IN
    /\ At(s, "utc_test") /\ handle # NoHandle
    /\ service_state' = IF utc_req THEN service_state ELSE "REP_ACTIVITY"
    /\ utc_repeat_count' = IF over THEN 0 ELSE IF late THEN count + 1 ELSE count
    /\ utc_is_req' = (utc_is_req \/ late)
    /\ elapsed' = [elapsed EXCEPT ![s] = @ /\ ~late]
    /\ Goto(s, IF over THEN TeardownEntry ELSE "check")
    /\ why' = IF over THEN [why EXCEPT ![s] = "SUBSCRIBE_TIMEOUT"] ELSE why
    /\ SvcUnchanged
    /\ UNCHANGED <<utc_reply, activity, task_run, cur_sub_event, last_sub_event, cur_sub_msg_id, utc_req,
                   status_bits, inflight, last_service_state, sub, reports>>

\* REP_ACTIVITY: a device that was just provisioned announces itself, once.
SvcActivity(s) ==
    /\ InState(s, "REP_ACTIVITY")
    /\ activity \/ CanPublish
    /\ Enter(s, "REP_ACTIVITY")
    /\ activity' = TRUE
    /\ reports' = IF activity THEN reports ELSE Append(reports, "ACTIVITY")
    /\ service_state' = "REP_ONLINE"
    /\ Goto(s, "check")
    /\ SvcUnchanged
    /\ UNCHANGED <<utc_reply, task_run, cur_sub_event, last_sub_event, cur_sub_msg_id, utc_req, status_bits,
                   utcVars, inflight, elapsed, sub, why>>

SvcOnline(s) ==
    /\ InState(s, "REP_ONLINE")
    /\ CanPublish
    /\ Enter(s, "REP_ONLINE")
    /\ service_state' = "ONLINE_CHECK"
    /\ reports' = Append(reports, "ONLINE")
    /\ Goto(s, "check")
    /\ SvcUnchanged
    /\ UNCHANGED <<utc_reply, activity, task_run, cur_sub_event, last_sub_event, cur_sub_msg_id, utc_req,
                   status_bits, utcVars, inflight, elapsed, sub, why>>

\* ONLINE_CHECK: the time is asked for again every five hours.
SvcOnlineCheck(s) ==
    /\ InState(s, "ONLINE_CHECK")
    /\ utc_is_req => CanPublish
    /\ Enter(s, "ONLINE_CHECK")
    /\ utc_req' = (utc_req \/ utc_is_req)
    /\ utc_is_req' = Expired(s, "ONLINE_CHECK")
    /\ elapsed' = [elapsed EXCEPT ![s] = FALSE]
    /\ IF utc_is_req THEN AskUtc ELSE UNCHANGED utc_reply
    /\ Goto(s, "check")
    /\ SvcUnchanged
    /\ UNCHANGED <<activity, task_run, service_state, cur_sub_event, last_sub_event,
                   cur_sub_msg_id, status_bits, utc_repeat_count, inflight, sub, why, reports>>

\* The end of the turn: a disconnection starts the teardown.  In the INVAILD
\* state the switch only logs.
SvcCheck(s) ==
    /\ fault = "none" /\ handle # NoHandle
    /\ pc[s] \in (IF service_state = "INVAILD" THEN {"body", "check"} ELSE {"check"})
    /\ status_bits' = status_bits \ {"DISCONNECT"}
    /\ Goto(s, IF "DISCONNECT" \in status_bits THEN TeardownEntry ELSE "loop")
    /\ why' = IF "DISCONNECT" \in status_bits
                THEN [why EXCEPT ![s] = "MQTT_DISCONNECT"] ELSE why
    /\ SvcUnchanged
    /\ UNCHANGED <<utc_reply, activity, task_run, service_state, cur_sub_event, last_sub_event,
                   cur_sub_msg_id, utc_req, utcVars, inflight, taskVars, reports>>

KeepSelf == UNCHANGED <<task_run, service_state>>               \* mutant
RunOn    == UNCHANGED task_run /\ service_state' = "INVAILD"    \* mutant
StopSelf == task_run' = FALSE /\ service_state' = "INVAILD"

\* After a teardown of its own: the task ends itself and reports why.
SvcTorn(s) ==
    /\ At(s, "torn") /\ handle # NoHandle
    /\ StopSelf
    /\ reports' = Append(reports, why[s])
    /\ why' = [why EXCEPT ![s] = "none"]
    /\ Goto(s, IF why[s] = "MQTT_DISCONNECT" THEN "loop" ELSE "check")
    /\ SvcUnchanged
    /\ UNCHANGED <<utc_reply, activity, cur_sub_event, last_sub_event, cur_sub_msg_id, utc_req, status_bits,
                   utcVars, inflight, taskVars>>

SvcExit(s) ==
    /\ At(s, "exit")
    /\ Destroy
    /\ Goto(s, "none")
    /\ last_service_state' = [last_service_state EXCEPT ![s] = "INVAILD"]
    /\ elapsed' = [elapsed EXCEPT ![s] = FALSE]
    /\ sub' = [sub EXCEPT ![s] = NoSuback]
    /\ UNCHANGED <<service_init_state, utcVars, mqttVars, why, disturbed, fault>>

-----------------------------------------------------------------------------
(* Undefined behaviour: service.handle is NULL, or mqtt_client was freed.  *)

UsesHandle == {"new", "loop", "body", "sub_id", "sub_event", "utc_test", "check"}

FaultUnchanged == UNCHANGED <<service_init_state, serviceVars, handleVars, utcVars, mqttVars, pc,
                              taskVars, why, historyVars, disturbed>>

\* "torn" of a service task writes task_run too; the application's does not.
NullHandle ==
    /\ fault = "none" /\ handle = NoHandle
    /\ \/ \E s \in Sessions : pc[s] \in UsesHandle \cup {"torn"}
       \/ mqtt_event \notin {"none", "CLEAR_INIT"}
    /\ fault' = "null_handle"
    /\ FaultUnchanged

CallsClient(t) ==
    \/ pc[t] \in {"stop", "destroy", "sub", "utc_publish"}
    \/ /\ pc[t] = "body"
       /\ \/ service_state = "REP_ACTIVITY" /\ ~activity
          \/ service_state = "REP_ONLINE"
          \/ service_state = "ONLINE_CHECK" /\ utc_is_req

FreedClient ==
    /\ fault = "none"
    /\ \/ mqtt_client = "freed" /\ \E t \in Threads : CallsClient(t)
       \/ mqtt_client # "live" /\ mqtt_task \in {"boot", "down", "up"}
    /\ fault' = "freed_client"
    /\ FaultUnchanged

\* The device has crashed.
Halted == fault # "none" /\ UNCHANGED vars

-----------------------------------------------------------------------------
AppStep == UserInitFails \/ InitMqtt \/ InitMqttFails
           \/ UserDeinitRefused \/ UserDeinit \/ UserDeinitDone \/ Teardown(App)
           \/ \E s \in Sessions, act \in ActivityFlags : UserInit(s, act)

MqttStep == MqttBoot \/ MqttDispatch \/ MqttLoseSuback \/ MqttDeliver
            \/ MqttClearInit \/ MqttExit

SvcStep(s) ==
    \/ SvcStart(s) \/ SvcLoop(s) \/ SvcInit(s) \/ SvcConnected(s)
    \/ SvcSubscribed(s) \/ SvcSubscribe(s) \/ SvcSubCall(s) \/ SvcSubId(s)
    \/ SvcSubEvent(s) \/ SvcSubTimer(s)
    \/ SvcReqUtc(s) \/ SvcUtcPublish(s) \/ SvcUtcTest(s)
    \/ SvcActivity(s) \/ SvcOnline(s) \/ SvcOnlineCheck(s)
    \/ SvcCheck(s) \/ SvcTorn(s) \/ SvcExit(s) \/ Teardown(s)

Next == \/ AppStep
        \/ MqttStep
        \/ \E s \in Sessions : SvcStep(s) \/ Tick(s)
        \/ NullHandle \/ FreedClient \/ Halted

Spec == Init /\ [][Next]_vars

\* Every thread runs; a thread that waits for the api lock gets it, because the
\* mqtt task sleeps outside of it (poll or reconnect wait); time passes; the
\* mqtt task finishes what it dispatches and sees `run`.  Whether the broker
\* answers, and whether the application starts or stops anything, is open.
Fairness ==
    /\ \A s \in Sessions : SF_vars(SvcStep(s)) /\ SF_vars(Tick(s))
    /\ SF_vars(Teardown(App)) /\ WF_vars(UserDeinitDone) /\ WF_vars(InitMqtt)
    /\ WF_vars(NullHandle) /\ WF_vars(FreedClient)
    /\ WF_vars(MqttBoot) /\ WF_vars(MqttDeliver) /\ WF_vars(MqttClearInit) /\ WF_vars(MqttExit)

FairSpec == Spec /\ Fairness

-----------------------------------------------------------------------------
Labels == {"idle", "config", "none", "new", "loop", "body", "sub", "sub_id", "sub_event",
           "sub_timer", "utc_publish", "utc_test", "check", "exit",
           "stop", "wait", "destroy", "clear", "torn"}
InTeardown == {"stop", "wait", "destroy", "clear", "torn"}
Causes == {"none", "LANCH_FAIL", "SUBSCRIBE_TIMEOUT", "MQTT_DISCONNECT"}
Suback == [id : {NoId, FailedId} \cup MsgId, topic : Topics \cup {NoTopic}]

TypeFlags ==
    /\ service_init_state \in BOOLEAN /\ service_init \in BOOLEAN /\ activity \in BOOLEAN
    /\ task_run \in BOOLEAN /\ utc_req \in BOOLEAN /\ utc_is_req \in BOOLEAN
    /\ client_run \in BOOLEAN /\ disturbed \in BOOLEAN
TypeTimers == elapsed \in [Sessions -> BOOLEAN]
TypeHandle ==
    /\ handle \in Sessions \cup {NoHandle} /\ service_state \in States
    /\ cur_sub_event \in Topics \cup {NoTopic} /\ last_sub_event \in Topics \cup {NoTopic}
    /\ cur_sub_msg_id \in {NoId, FailedId} \cup MsgId
    /\ status_bits \subseteq Bits
TypeCount == utc_repeat_count \in 0 .. MaxUtcRepeat
TypeMqtt ==
    /\ mqtt_client \in {"null", "live", "freed"}
    /\ mqtt_task \in {"none", "boot", "down", "up", "stopped"}
    /\ mqtt_event \in {"none", "CONNECTED", "DISCONNECTED", "CLEAR_INIT", "SUBSCRIBED", "UTC"}
    /\ inflight \in Suback
TypePc == pc \in [Threads -> Labels]
TypeLocals ==
    /\ last_service_state \in [Sessions -> States]
    /\ sub \in [Sessions -> Suback]
    /\ why \in [Sessions -> Causes]
TypeHistory ==
    /\ acked \subseteq Topics \cup {NoTopic}
    /\ utc_reply \in {"none", "asked", "answered"}
    /\ fault \in {"none", "null_handle", "freed_client"}

\* Every variable stays in its domain: topics never leave the chain, and the count of
\* UTC repeats never passes its limit although it survives the sessions.
TypeOK == /\ TypeFlags /\ TypeTimers /\ TypeHandle /\ TypeCount
          /\ TypeMqtt /\ TypePc /\ TypeLocals /\ TypeHistory

Subscribed == {"REQ_UTC", "REP_ACTIVITY", "REP_ONLINE", "ONLINE_CHECK"}

\* A session asks for the time, and goes online, only after the broker acknowledged
\* every one of the six topics, however the SUBACKs race with the two stores that
\* record what was subscribed (aiio_service_subscribe_event, MQTT_EVENT_SUBSCRIBED).
SubscribedBeforeUtc ==
    handle # NoHandle /\ service_state \in Subscribed => Topics \subseteq acked

\* A session goes past the UTC request only after the cloud answered one of this
\* session, although utc_is_req is a static that earlier sessions leave set or clear.
AnsweredBeforeOnline ==
    handle # NoHandle /\ service_state \in {"REP_ACTIVITY", "REP_ONLINE", "ONLINE_CHECK"}
        => utc_reply = "answered"

\* The application's flag and the service's agree whenever the application can act:
\* it never has to start while service_init of a session it does not know is set (its
\* init would be refused and the refusal ignored), and service_init is set only with a handle.
FlagsAgree ==
    /\ service_init => handle # NoHandle
    /\ pc[App] = "idle" /\ service_init => service_init_state

\* As long as the application leaves a session alone and its start did not fail, the
\* service task's own teardown (after a timeout or a disconnection) never frees what
\* the mqtt task or the service task still uses.
SafeAlone == ~disturbed => fault = "none"

\* At most one thread at a time is inside aiio_mqtt_service_deinit for a session that
\* was disconnected: "This variable will prevent repeated call aiio_service_deinit()".
NoRepeatedTeardown ==
    \A s \in Sessions :
        pc[s] \in InTeardown \ {"torn"} /\ why[s] = "MQTT_DISCONNECT"
            => pc[App] \notin InTeardown \ {"torn"}

\* The reports follow the order WanSession promises.
Reporting == INSTANCE WanSession
ReportOrder == Reporting!Spec

Resolved(s) == \/ pc[s] = "none" \/ fault # "none"
               \/ "ONLINE" \in {reports[i] : i \in 1 .. Len(reports)}

\* A launch does not hang: a session comes online, or its task ends (the timers of
\* INIT, SUBSCRIBED and REQ_UTC), whatever the broker does.
LaunchResolves == \A s \in Sessions : pc[s] = "new" ~> Resolved(s)

\* A disconnection ends the session's task and frees the client: no thread waits for
\* another one for ever.
TornDown ==
    \A s \in Sessions :
        (handle = s /\ pc[s] # "none" /\ "DISCONNECT" \in status_bits)
            ~> (fault # "none" \/ pc[s] = "none")

-----------------------------------------------------------------------------
(* Why SubscribedBeforeUtc holds, when the application lets a session end  *)
(* before the next one: an invariant that is inductive together with       *)
(* TypeOK.                                                                 *)

Subscribing == {"sub", "sub_id", "sub_event"}
AskingUtc   == {"utc_publish", "utc_test"}

\* What the service task has stored: the topics before the current one are
\* acknowledged, and a SUBACK that matches the stored id can only make the chain
\* believe in a topic that it acknowledges or that was acknowledged before.
ChainStored ==
    /\ 1 .. last_sub_event \subseteq acked
    /\ 1 .. (cur_sub_event - 1) \subseteq acked
    /\ last_sub_event <= cur_sub_event
    /\ last_sub_event # NoTopic => cur_sub_event <= last_sub_event + 1
    /\ cur_sub_msg_id = NoId => cur_sub_event = NoTopic
    /\ inflight.id # FailedId
    /\ inflight.id = cur_sub_msg_id => cur_sub_event \in acked \cup {NoTopic, inflight.topic}

\* What the service task is about to store, while SUBACKs arrive.
ChainPending(s) ==
    /\ sub[s].topic # NoTopic
    /\ 1 .. (sub[s].topic - 1) \subseteq acked
    /\ cur_sub_event <= sub[s].topic
    /\ cur_sub_event # NoTopic => sub[s].topic <= cur_sub_event + 1
    /\ last_sub_event # NoTopic => sub[s].topic <= last_sub_event + 1
    /\ pc[s] \in {"sub_id", "sub_event"} =>
          /\ sub[s].id # NoId
          /\ sub[s].id = inflight.id => sub[s].topic = inflight.topic
    /\ pc[s] = "sub_event" => cur_sub_msg_id = sub[s].id

OneSession == \A s, r \in Sessions : pc[s] # "none" /\ pc[r] # "none" => s = r

\* One session at a time, whose bookkeeping never runs ahead of the broker's answers.
SubscriptionInv ==
    /\ OneSession
    /\ ChainStored
    /\ \A s \in Sessions : handle # NoHandle /\ pc[s] \in Subscribing => ChainPending(s)
    /\ \A s \in Sessions : handle # NoHandle /\ pc[s] \in AskingUtc => service_state = "REQ_UTC"
    /\ SubscribedBeforeUtc
=============================================================================
