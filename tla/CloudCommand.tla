---------------------------- MODULE CloudCommand ----------------------------
(***************************************************************************)
(* What the device does with a message of the cloud: the mqtt task parses  *)
(* it (protocol/aiio_protocol_parse.c), finds the command by its namespace *)
(* and name, marks the next report, acknowledges, and calls the            *)
(* application back (aiio_protocol_payload of protocol/aiio_wan_service.c);*)
(* the application sets the lamp and the three PWM channels (aipi_cloud.c, *)
(* aipi_device.c, relays_dev.c).  What is published is packed by           *)
(* protocol/aiio_protocol_packet.c, any allocation of which may fail.      *)
(*                                                                         *)
(* A report is packed by the task that makes it, and takes its name from   *)
(* the global IsQuery, which the mqtt task sets.                           *)
(*                                                                         *)
(* A message id is the number of the command; NoMid stands for the ids the *)
(* device draws itself.                                                    *)
(***************************************************************************)
EXTENDS Integers, Sequences, FiniteSets, SequencesExt

CONSTANTS
    Kinds,              \* the commands of the cloud, [ns, name]
    Controls,           \* payloads of a control command
    DisenableAutoAck,   \* what the application puts in disenable_auto_ack
    MaxCommands, MaxReports, MaxFailures    \* bounds; a failure is an allocation or the client refusing

\* An item of a control: a value for a pid, or an object of them (what is null in it is left out).
Values == [pid : Int, type : {"string", "false", "true", "number"}, value : Int, inside : {<<>>}]
Items  == Values \cup [pid : Int, type : {"null"}, value : Int, inside : {<<>>}]
                 \cup [pid : Int, type : {"object"}, value : Int, inside : Seq(Values)]

ASSUME ControlAssumption == Controls \subseteq Seq(Items)
ASSUME FlagAssumption == DisenableAutoAck \in BOOLEAN
ASSUME BoundAssumption == MaxCommands \in Nat /\ MaxReports \in Nat /\ MaxFailures \in Nat

NoMid == 0
Ok == 0
NameError == -2         \* AIIO_NAME_ERROR
Garbage == -1           \* read from memory already freed
Pids == {1, 101, 102, 103}

VARIABLES
    task_run,           \* service.handle->task_run
    auto_ack_off,       \* service.config.disenable_auto_ack
    IsQuery,            \* what the next report answers
    pc, cmd,            \* the mqtt task: where, and the command it handles
    rep,                \* the task that reports: [at, name, mid]
    light, duty,        \* GPIO_PIN_10 drives the lamp, PWM_CH0, CH2 and CH3 the colours
    clock,              \* the message the local time was set from
    leaked, fault,      \* how many objects nobody frees any more; a block was freed twice
    cmds, sent, reports,    \* history: commands received; acknowledgements and reports of
                            \* attributes published; how often a task reported
    want, failures      \* history: the last value given to a pid; how much failed

service == <<task_run, auto_ack_off>>
mqtt    == <<pc, cmd>>
outputs == <<light, duty, clock>>
memory  == <<leaked, fault>>
history == <<cmds, sent, reports, want, failures>>
vars == <<service, IsQuery, mqtt, rep, outputs, memory, history>>

NoCmd  == [ns |-> "none", name |-> "none", mid |-> NoMid, payload |-> <<>>]
Resting == [at |-> "idle", name |-> "none", mid |-> NoMid]

Init ==
    /\ task_run = FALSE /\ auto_ack_off = FALSE /\ IsQuery = "DEVICE_REPORT"
    /\ pc = "idle" /\ cmd = NoCmd /\ rep = Resting
    /\ light \in BOOLEAN /\ duty = [p \in Pids \ {1} |-> 0] /\ clock = NoMid
    /\ leaked = 0 /\ fault = FALSE
    /\ cmds = <<>> /\ sent = <<>> /\ reports = 0
    /\ want = <<>> /\ failures = 0

-----------------------------------------------------------------------------
(* protocol/aiio_protocol_packet.c: the messages, a header and a payload.  *)
Pack(ns, name, mid, payload) == [ns |-> ns, name |-> name, mid |-> mid, payload |-> payload]

AckOf(code) == [code |-> code]
PacketConfigAckeData(mid, code)   == Pack("config", "config", mid, AckOf(code))
PacketControlAckeData(mid, code)  == Pack("control", "control", mid, AckOf(code))
PacketRestoreAckeData(mid, code)  == Pack("control", "restore", mid, AckOf(code))
RebootAckNamedRestore(mid, code)  == Pack("control", "restore", mid, AckOf(code))    \* mutant
PacketRebootAckeData(mid, code)   == Pack("control", "reboot", mid, AckOf(code))
PacketOtaAckeData(mid, code)      == Pack("upgrade", "otaInfo", mid, AckOf(code))
PacketAckData(ns, name, mid, code) == Pack(ns, name, mid, AckOf(code))
PacketReportAttrbutesData(name, mid) == Pack("report", name, mid, [device |-> "attributes"])
PacketOnlineData        == Pack("report", "online", NoMid, [online_status |-> "online"])
PacketRequesUTCData     == Pack("utc", "utc", NoMid, [none |-> "none"])
PacketReportOtaRateData == Pack("upgrade", "otaProgress", NoMid, [progress |-> "rate"])
PacketDeviceInfoData(mid) ==
    Pack("info", "info", mid, [device_info |-> "info", ap |-> "ap", netif |-> "netif"])

\* The name of a report, and what is left of the mark.
ReportName == CASE IsQuery = "ALL_QUERY" -> "query"
                [] IsQuery = "CONTROL"   -> "control"
                [] OTHER                 -> "report"
KeepsMark == IsQuery                                                        \* mutant
MarkAfterReport == "DEVICE_REPORT"

\* What a publication allocates, in this order: the buffer, the payload in its parts
\* (attributes are parsed before it), the message and the topic.
Order == [packet |-> 1, device |-> 2, payload |-> 3, ap |-> 4, netif |-> 5, root |-> 6,
          header |-> 7, text |-> 8, topic |-> 9, publish |-> 10, none |-> 11]
Uses(payload) ==
    {"packet", "root", "header", "text", "topic"}
        \cup (IF "none" \in DOMAIN payload THEN {} ELSE {"payload"})
        \cup (IF "device" \in DOMAIN payload THEN {"device"} ELSE {})
        \cup (IF "ap" \in DOMAIN payload THEN {"ap", "netif"} ELSE {})

\* A publication stops at a block for which there is no memory, at the client that refuses
\* ("publish"), or not at all.
Held(payload, stop) == {b \in Uses(payload) : Order[b] < Order[stop]}

\* The objects that are put in another one, and the block after which that is done.
Into       == [device |-> "payload", ap |-> "payload", netif |-> "payload",
               header |-> "root", payload |-> "root"]
AddedAfter == [device |-> "payload", ap |-> "netif", netif |-> "netif",
               header |-> "header", payload |-> "header"]
Added(payload, stop) ==
    {b \in Held(payload, stop) \cap DOMAIN Into : Order[AddedAfter[b]] < Order[stop]}

\* Nobody looks at the result of cJSON_AddItemToObject, which fails where its key cannot be
\* copied: in is what did get in.  The objects whose end is the end of b:
Holders(b, in) ==
    {b} \cup (IF b \in in THEN {Into[b]} ELSE {})
        \cup (IF b \in in /\ Into[b] \in in THEN {Into[Into[b]]} ELSE {})

\* What is freed on each way out.  aiio_PacketReportAttrbutesData without a payload returns
\* at once; aiio_WanPacketData deletes a text's message by its root, and when there is no
\* text by its parts as well.
KeepsThePacket(stop) ==                                                     \* mutant
    IF stop \in {"publish", "none"} THEN {"root", "text", "topic"} ELSE {"packet"}
Deletes(stop) ==
    CASE stop = "packet"                -> {}
      [] stop \in {"device", "payload"} -> {"packet"}
      [] stop \in {"ap", "root"}        -> {"packet", "payload"}
      [] stop = "netif"                 -> {"packet", "payload", "ap"}
      [] stop = "header"                -> {"packet", "payload", "root"}
      [] stop = "text"                  -> {"packet", "payload", "root", "header"}
      [] stop = "topic"                 -> {"packet", "root", "text"}
      [] OTHER                          -> {"packet", "root", "text", "topic"}

Freed(held, in, stop) == {b \in held : Holders(b, in) \cap Deletes(stop) # {}}
FreesTwice(held, in, stop) == \E b \in held : Cardinality(Holders(b, in) \cap Deletes(stop)) > 1
\* Objects that nobody frees any more, with all that is in them.
Lost(held, in, stop) == (held \ Freed(held, in, stop)) \ in

Stops(blocks) == blocks \cup {"publish"} \cup (IF task_run THEN {"none"} ELSE {})

\* The history keeps acknowledgements and the reports of attributes.
Logged(msg) == "code" \in DOMAIN msg.payload \/ "device" \in DOMAIN msg.payload

\* The end of aiio_service_publish_*: loose is what could not be put in, whole whether the
\* message has all of its fields, log what has been published already.
Publish(topic, msg, stop, loose, whole, log) ==
    LET held == Held(msg.payload, stop)
        in   == Added(msg.payload, stop) \ loose
    IN  /\ failures' = failures + (IF stop = "none" \/ (stop = "publish" /\ ~task_run) THEN 0 ELSE 1)
                                + Cardinality(loose) + (IF whole THEN 0 ELSE 1)
        /\ failures' <= MaxFailures
        /\ leaked' = leaked + Cardinality(Lost(held, in, stop))
        /\ fault' = FreesTwice(held, in, stop)
        /\ sent' = IF stop = "none" /\ Logged(msg)
                   THEN Append(log, [topic |-> topic, msg |-> msg, whole |-> whole /\ loose = {}])
                   ELSE log

\* A field that cannot be added (aiio_PacketHeadJson and its like) is left out.
PublishFrom(blocks, topic, msg) ==
    \E stop \in Stops(blocks) : \E loose \in SUBSET Added(msg.payload, stop), whole \in BOOLEAN :
        Publish(topic, msg, stop, loose, whole, sent)
Publishing(topic, msg) == PublishFrom(Uses(msg.payload), topic, msg)

-----------------------------------------------------------------------------
(* aiio_protocol_payload                                                   *)
Known == {
    [ns |-> "control", name |-> "restore",  event |-> "RESTORE"],
    [ns |-> "control", name |-> "reboot",   event |-> "REBOOT"],
    [ns |-> "control", name |-> "control",  event |-> "CONTROL"],
    [ns |-> "query",   name |-> "query",    event |-> "QUERY"],
    [ns |-> "query",   name |-> "queryAll", event |-> "QUERY"],
    [ns |-> "config",  name |-> "config",   event |-> "CONFIG"],
    [ns |-> "upgrade", name |-> "otaInfo",  event |-> "UPGRADE"],
    [ns |-> "info",    name |-> "info",     event |-> "INFO"],
    [ns |-> "utc",     name |-> "utc",      event |-> "UTC"]}

Matches(c) == {k \in Known : k.ns = c.ns /\ k.name = c.name}
EventOf(c) == IF Matches(c) = {} THEN "INVAILD" ELSE (CHOOSE k \in Matches(c) : TRUE).event

\* aiio_SetPacketReportAttributesType
MarkOf(e) == CASE e = "QUERY" -> "ALL_QUERY" [] e = "CONTROL" -> "CONTROL" [] OTHER -> IsQuery

AckTopics == [control |-> "control/ack", query |-> "query/ack", config |-> "config/ack",
              upgrade |-> "upgrade/ack", info |-> "info/report"]
AckTopic(ns) == AckTopics[ns]

\* aiio_service_publish_restore_ack and the rest of them
AckMessage(c) ==
    CASE EventOf(c) = "RESTORE" -> PacketRestoreAckeData(c.mid, Ok)
      [] EventOf(c) = "REBOOT"  -> PacketRebootAckeData(c.mid, Ok)
      [] EventOf(c) = "CONTROL" -> PacketControlAckeData(c.mid, Ok)
      [] EventOf(c) = "CONFIG"  -> PacketConfigAckeData(c.mid, Ok)
      [] EventOf(c) = "UPGRADE" -> PacketOtaAckeData(c.mid, Ok)
      [] OTHER                  -> PacketAckData(c.ns, c.name, c.mid, NameError)

\* Events that are acknowledged, and the namespaces whose unknown names are.
ForgetsReboot(c) ==                                                         \* mutant
    EventOf(c) \in {"RESTORE", "CONTROL", "CONFIG", "UPGRADE"}
Acknowledged(c) ==
    \/ EventOf(c) \in {"RESTORE", "REBOOT", "CONTROL", "CONFIG", "UPGRADE"}
    \/ Matches(c) = {} /\ c.ns \in {"control", "query", "config", "upgrade", "info"}

\* MQTT_EVENT_DATA: parse, mark, acknowledge; then the callback, with the payload printed
\* again (or without one, when that fails).
Receive(k, p) ==
    /\ pc = "idle" /\ task_run /\ ~fault /\ Len(cmds) < MaxCommands
    /\ LET c == [ns |-> k.ns, name |-> k.name, mid |-> Len(cmds) + 1, payload |-> p]
       IN  /\ cmds' = Append(cmds, c) /\ cmd' = c /\ pc' = "callback"
           /\ IsQuery' = MarkOf(EventOf(c))
           /\ IF Acknowledged(c) /\ ~auto_ack_off
              THEN Publishing(AckTopic(c.ns), AckMessage(c))
              ELSE IF EventOf(c) = "INFO"
              THEN Publishing("info/report", PacketDeviceInfoData(c.mid))
              ELSE UNCHANGED <<memory, sent, failures>>
    /\ UNCHANGED <<service, rep, outputs, reports, want>>

-----------------------------------------------------------------------------
(* The application: cloud_rev_cb, aipi_cloud_parse_control_data,           *)
(* analyzeJson and cloud_control_cb.  Values are in tenths.                *)
Leaves(items) == FlattenSeq([i \in DOMAIN items |->
    IF items[i].type = "object" THEN items[i].inside
    ELSE IF items[i].type = "null" THEN <<>> ELSE <<items[i]>>])

ValueOf(leaf) == CASE leaf.type \in {"string", "false"} -> 0
                   [] leaf.type = "true"  -> 10
                   [] leaf.type = "number" -> leaf.value

\* abs() of an int: what is between -1 and 1 turns the lamp off.
Lit(v) == v >= 10 \/ v <= -10

\* The out of a fold: the lamp and the three channels; an unknown pid changes nothing.
set_RGB_pwm(out, pid, v) == [out EXCEPT !.duty[pid] = v]
GreenOnRed(out, leaf) ==                                                    \* mutant
    IF leaf.pid = 1 THEN [out EXCEPT !.light = Lit(ValueOf(leaf))]
    ELSE IF leaf.pid \in DOMAIN out.duty
    THEN set_RGB_pwm(out, IF leaf.pid = 102 THEN 101 ELSE leaf.pid, ValueOf(leaf))
    ELSE out
cloud_control_cb(out, leaf) ==
    IF leaf.pid = 1 THEN [out EXCEPT !.light = Lit(ValueOf(leaf))]
    ELSE IF leaf.pid \in DOMAIN out.duty THEN set_RGB_pwm(out, leaf.pid, ValueOf(leaf))
    ELSE out

\* What a pid was told: the last leaf that names it decides.
Told(leaves) ==
    [p \in DOMAIN want \cup ({leaves[i].pid : i \in DOMAIN leaves} \cap Pids) |->
        LET mine == {i \in DOMAIN leaves : leaves[i].pid = p}
        IN  IF mine = {} THEN want[p]
            ELSE ValueOf(leaves[CHOOSE i \in mine : \A j \in mine : j <= i])]

\* aipi_cloud_parse_control_data
Control(items) ==
    LET out == FoldLeft(cloud_control_cb, [light |-> light, duty |-> duty], Leaves(items))
    IN  light' = out.light /\ duty' = out.duty /\ want' = Told(Leaves(items)) /\ UNCHANGED clock

\* aiio_ParseTimeData writes the time in a block freed before the callback that reads it;
\* with no memory for the block there is no callback.
SetTime == clock' \in {cmd.mid, Garbage, clock} /\ UNCHANGED <<light, duty, want>>

Effect ==
    CASE EventOf(cmd) = "CONTROL" -> Control(cmd.payload)
      [] EventOf(cmd) = "UTC"     -> SetTime
      [] OTHER                    -> UNCHANGED <<outputs, want>>

\* aiio_service_report_*_ack, for an application that acknowledges itself: four of them
\* publish the ack of a control command.
AppAcks(e) == DisenableAutoAck /\ e \in {"RESTORE", "CONTROL", "CONFIG", "UPGRADE", "INFO"}
AppAck(c) ==
    CASE EventOf(c) = "UPGRADE" -> Publishing("upgrade/ack", PacketOtaAckeData(c.mid, Ok))
      [] EventOf(c) = "INFO"    -> Publishing("info/report", PacketDeviceInfoData(c.mid))
      [] OTHER                  -> Publishing("control/ack", PacketControlAckeData(c.mid, Ok))

Callback ==
    /\ pc = "callback" /\ EventOf(cmd) # "REBOOT" /\ ~fault
    /\ pc' = "idle"
    /\ \/ /\ Effect
          /\ IF AppAcks(EventOf(cmd)) THEN AppAck(cmd) ELSE UNCHANGED <<memory, sent, failures>>
       \/ /\ failures < MaxFailures \* the payload could not be printed, or parsed again
          /\ failures' = failures + 1
          /\ UNCHANGED <<outputs, want, memory, sent>>
    /\ UNCHANGED <<service, IsQuery, cmd, rep, cmds, reports>>

\* aiio_restart: all of the RAM is lost.
Reboot ==
    /\ pc = "callback" /\ EventOf(cmd) = "REBOOT" /\ ~fault
    /\ task_run' = FALSE /\ IsQuery' = "DEVICE_REPORT"
    /\ pc' = "idle" /\ rep' = Resting
    /\ light' \in BOOLEAN /\ duty' = [p \in DOMAIN duty |-> 0] /\ clock' = NoMid
    /\ leaked' = 0 /\ want' = <<>>
    /\ UNCHANGED <<auto_ack_off, cmd, fault, cmds, sent, reports, failures>>

-----------------------------------------------------------------------------
(* What a task of the device publishes by itself.                          *)

\* aiio_service_report_attribute, until it has read IsQuery: an allocation that fails
\* before leaves the mark.
ReportBegin(mid) ==
    /\ rep.at = "idle" /\ ~fault /\ reports < MaxReports
    /\ reports' = reports + 1
    /\ \/ /\ rep' = [at |-> "named", name |-> ReportName, mid |-> mid]
          /\ UNCHANGED <<memory, sent, failures>>
       \/ \E stop \in {"packet", "device", "payload"} :
              /\ Publish("report", PacketReportAttrbutesData("report", mid), stop, {}, TRUE, sent)
              /\ UNCHANGED rep
    /\ UNCHANGED <<service, IsQuery, mqtt, outputs, cmds, want>>

\* Then it clears the mark it found, packs and publishes.
ReportEnd ==
    /\ rep.at = "named" /\ ~fault
    /\ IsQuery' = IF rep.name = "report" THEN IsQuery ELSE MarkAfterReport
    /\ PublishFrom({"root", "header", "text", "topic"}, "report",
                   PacketReportAttrbutesData(rep.name, rep.mid))
    /\ rep' = Resting
    /\ UNCHANGED <<service, mqtt, outputs, cmds, reports, want>>

\* aiio_service_publish_online, request_utc and publish_device_info ...
Idle == rep.at = "idle" /\ ~fault /\ reports < MaxReports /\ reports' = reports + 1

ReportOther ==
    /\ Idle
    /\ \/ Publishing("online", PacketOnlineData)
       \/ Publishing("utc", PacketRequesUTCData)
       \/ Publishing("info/report", PacketDeviceInfoData(NoMid))
    /\ UNCHANGED <<service, IsQuery, mqtt, rep, outputs, cmds, want>>

\* ... and aiio_service_report_ota_rate
ReportOtaRate ==
    /\ Idle
    /\ Publishing("upgrade/report", PacketReportOtaRateData)
    /\ UNCHANGED <<service, IsQuery, mqtt, rep, outputs, cmds, want>>

\* A session starts and ends.  aiio_service_init copies the settings of the application,
\* but not disenable_auto_ack.
CopiesConfig == UNCHANGED auto_ack_off
Start ==
    /\ ~task_run /\ ~fault
    /\ task_run' = TRUE /\ CopiesConfig
    /\ UNCHANGED <<IsQuery, mqtt, rep, outputs, memory, history>>

Stop ==
    /\ task_run /\ pc = "idle" /\ ~fault
    /\ task_run' = FALSE
    /\ UNCHANGED <<auto_ack_off, IsQuery, mqtt, rep, outputs, memory, history>>

Next ==
    \/ \E k \in Kinds, p \in Controls : (EventOf(k) # "CONTROL" => p = <<>>) /\ Receive(k, p)
    \/ Callback \/ Reboot
    \/ \E mid \in {NoMid, cmd.mid} : ReportBegin(mid)
    \/ ReportEnd \/ ReportOther \/ ReportOtaRate \/ Start \/ Stop

Spec == Init /\ [][Next]_vars

-----------------------------------------------------------------------------
(* Properties                                                              *)
\* What is acknowledged, in a message that is whole, is a command that was received, under
\* its own name, on the topic of its namespace, with OK exactly when the command is one the device knows - across
\* namespaces, tasks and restarts.  aiio_protocol_payload and the aiio_Packet*AckeData.
AckNamesItsCommand ==
    DisenableAutoAck \/ \A i \in DOMAIN sent :
        LET m == sent[i].msg
        IN  sent[i].whole /\ "code" \in DOMAIN m.payload =>
                \E c \in Range(cmds) :
                    /\ m.ns = c.ns /\ m.name = c.name /\ m.mid = c.mid
                    /\ sent[i].topic = AckTopic(c.ns)
                    /\ (m.payload.code = Ok) <=> (Matches(c) # {})

\* The namespaces with an ack topic: all of their commands, or those that have no other answer.
MustAnswer(c) == c.ns \in {"control", "config", "upgrade"}
                 \/ (c.ns \in {"query", "info"} /\ Matches(c) = {})

\* Once a command is over, whoever acknowledges, it was acknowledged exactly once - but for
\* a failure of memory or of the client.  wan_service.h: the device must acknowledge when
\* disenable_auto_ack is set to true.
AnsweredOnce ==
    pc = "idle" /\ failures = 0 =>
        \A c \in Range(cmds) : MustAnswer(c) =>
            Cardinality({i \in DOMAIN sent :
                sent[i].msg.mid = c.mid /\ "code" \in DOMAIN sent[i].msg.payload}) = 1

\* Reports that answer a query, or a control, are never more than the commands that asked,
\* however the mqtt task and the reporting one interleave.  IsQuery of aiio_protocol_packet.c.
NoForgedAnswer ==
    \A q \in {[name |-> "query", event |-> "QUERY"], [name |-> "control", event |-> "CONTROL"]} :
        Cardinality({i \in DOMAIN sent : sent[i].topic = "report" /\ sent[i].msg.name = q.name})
            <= Cardinality({i \in DOMAIN cmds : EventOf(cmds[i]) = q.event})

\* The lamp and the colours are what the last leaf naming them said, whatever else the
\* commands held and in whatever nesting: analyzeJson, cloud_control_cb, set_RGB_pwm.
OutputsAreLastTold ==
    /\ 1 \in DOMAIN want => light = Lit(want[1])
    /\ \A p \in DOMAIN want \ {1} : duty[p] = want[p]

\* Memory is lost by failures only, and by each at most one object with what is in it,
\* whichever allocation of whichever message fails and whichever cannot be put in another:
\* aiio_WanPacketData, aiio_PacketDeviceInfoData, aiio_PacketReportAttrbutesData and the
\* aiio_service_publish_* that call them.
MemoryReturned == leaked <= failures
=============================================================================
