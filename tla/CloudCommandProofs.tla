-------------------------- MODULE CloudCommandProofs --------------------------
(***************************************************************************)
(* Theorems about CloudCommand, for any commands and any bounds: what is   *)
(* acknowledged, how often, that no report answers a question nobody asked,*)
(* that what failed has been freed, and that the outputs are what they     *)
(* were last told.                                                         *)
(***************************************************************************)
EXTENDS CloudCommand, FiniteSetTheorems, SequenceTheorems, WellFoundedInduction, TLAPS

-----------------------------------------------------------------------------
(* Memory.                                                                 *)
LEMMA AddedFinite ==
    ASSUME NEW payload, NEW stop, NEW loose \in SUBSET Added(payload, stop)
    PROVE  IsFiniteSet(loose) /\ Cardinality(loose) \in Nat /\ (loose # {} => Cardinality(loose) > 0)
<1> DEFINE all == {"device", "ap", "netif", "header", "payload"}
<1>1. IsFiniteSet(all)
  <2>1. all = {"device"} \cup {"ap"} \cup {"netif"} \cup {"header"} \cup {"payload"}
    OBVIOUS
  <2> HIDE DEF all
  <2> QED
    BY <2>1, FS_Singleton, FS_Union
<1>2. loose \subseteq all
  BY DEF Added, Into
<1> HIDE DEF all
<1>3. IsFiniteSet(loose)
  BY <1>1, <1>2, FS_Subset
<1>4. Cardinality(loose) \in Nat
  BY <1>3, FS_CardinalityType
<1> QED
  BY <1>3, <1>4, FS_EmptySet

\* What nobody frees could not be put into its object, or is the attributes that have none.
LEMMA LostAreLoose ==
    ASSUME NEW payload, NEW stop \in DOMAIN Order, NEW loose \in SUBSET Added(payload, stop)
    PROVE  Lost(Held(payload, stop), Added(payload, stop) \ loose, stop)
             \subseteq loose \cup (IF stop = "payload" THEN {"device"} ELSE {})
<1> DEFINE in == Added(payload, stop) \ loose
<1> SUFFICES ASSUME NEW b \in Held(payload, stop), b \notin in,
                    Holders(b, in) \cap Deletes(stop) = {}
             PROVE  b \in loose \cup (IF stop = "payload" THEN {"device"} ELSE {})
  BY DEF Lost, Freed
<1>1. b \notin Deletes(stop)
  BY DEF Holders
<1>2. b \in Added(payload, stop) => b \in loose
  OBVIOUS
<1> HIDE DEF in
<1>3. b \in {"packet", "device", "payload", "ap", "netif", "root", "header", "text", "topic"}
  BY DEF Held, Uses
<1>4. Order[b] < Order[stop]
  BY DEF Held
<1>5. b \in DOMAIN Into /\ Order[AddedAfter[b]] < Order[stop] => b \in Added(payload, stop)
  BY DEF Added
<1>6. CASE stop \in {"packet", "device", "ap"}
  BY <1>1, <1>3, <1>4, <1>5, <1>2, <1>6 DEF Order, Deletes, AddedAfter, Into
<1>7. CASE stop = "payload"
  BY <1>1, <1>3, <1>4, <1>7 DEF Order, Deletes
<1>8. CASE stop \in {"netif", "root"}
  BY <1>1, <1>3, <1>4, <1>5, <1>2, <1>8 DEF Order, Deletes, AddedAfter, Into
<1>9. CASE stop = "header"
  BY <1>1, <1>3, <1>4, <1>5, <1>2, <1>9 DEF Order, Deletes, AddedAfter, Into
<1>10. CASE stop = "text"
  BY <1>1, <1>3, <1>4, <1>5, <1>2, <1>10 DEF Order, Deletes, AddedAfter, Into
<1>11. CASE stop \in {"topic", "publish", "none"}
  BY <1>1, <1>3, <1>4, <1>5, <1>2, <1>11 DEF Order, Deletes, AddedAfter, Into
<1> QED
  BY <1>6, <1>7, <1>8, <1>9, <1>10, <1>11 DEF Order

\* So a publication loses no more objects than it counts failures.
Counted(stop, loose, whole) ==
    (IF stop = "none" \/ (stop = "publish" /\ ~task_run) THEN 0 ELSE 1)
        + Cardinality(loose) + (IF whole THEN 0 ELSE 1)

LEMMA LostAreCounted ==
    ASSUME NEW payload, NEW stop \in DOMAIN Order, NEW loose \in SUBSET Added(payload, stop),
           NEW whole \in BOOLEAN,
           NEW lost, lost = Lost(Held(payload, stop), Added(payload, stop) \ loose, stop)
    PROVE  /\ Cardinality(lost) \in Nat /\ Counted(stop, loose, whole) \in Nat
           /\ Cardinality(lost) <= Counted(stop, loose, whole)
<1>1. lost \subseteq loose \cup (IF stop = "payload" THEN {"device"} ELSE {})
  BY LostAreLoose
<1>2. IsFiniteSet(loose) /\ Cardinality(loose) \in Nat
  BY AddedFinite
<1>3. Counted(stop, loose, whole) \in Nat /\ Counted(stop, loose, whole) >= Cardinality(loose)
  BY <1>2 DEF Counted
<1> DEFINE counted == Counted(stop, loose, whole)
           all == IF stop = "payload" THEN {"device"} ELSE loose
<1>4. Added(payload, "payload") = {}
  BY DEF Added, Order, AddedAfter, Into
<1>5. lost \subseteq all
  BY <1>1, <1>4
<1>6. IsFiniteSet(all) /\ Cardinality(all) \in Nat /\ Cardinality(all) <= counted
  <2>1. IsFiniteSet({"device"}) /\ Cardinality({"device"}) = 1
    BY FS_Singleton
  <2>2. stop = "payload" => counted >= 1
    BY <1>2 DEF Counted
  <2> QED
    BY <1>2, <1>3, <2>1, <2>2
<1> HIDE DEF all
<1>7. IsFiniteSet(lost) /\ Cardinality(lost) <= Cardinality(all)
  BY <1>5, <1>6, FS_Subset
<1>8. Cardinality(lost) \in Nat
  BY <1>7, FS_CardinalityType
<1> QED
  BY <1>3, <1>6, <1>7, <1>8

\* What a step adds to what was sent: nothing, or one message.
Adds(log, x, log2) == log2 = log \/ log2 = Append(log, x)
IsOf(x, topic, msg) == x.topic = topic /\ x.msg = msg

\* A publication sends one message or none; what is logged, in a session, unless it failed.
Sends(topic, msg, log) ==
    \E x : /\ IsOf(x, topic, msg) /\ Adds(log, x, sent')
           /\ task_run /\ Logged(msg) /\ failures' = 0 => sent' = Append(log, x)

LEMMA PublishCounts ==
    ASSUME failures \in Nat, NEW topic, NEW msg, NEW stop,
           NEW loose \in SUBSET Added(msg.payload, stop), NEW whole \in BOOLEAN, NEW log,
           Publish(topic, msg, stop, loose, whole, log)
    PROVE  /\ failures' = failures + Counted(stop, loose, whole) /\ failures' \in Nat
           /\ failures' = 0 => failures = 0
           /\ Sends(topic, msg, log)
<1>1. Cardinality(loose) \in Nat
  BY AddedFinite
<1>2. failures' = failures + Counted(stop, loose, whole)
  BY <1>1 DEF Publish, Counted
<1>3. Counted(stop, loose, whole) \in Nat
      /\ (task_run /\ Counted(stop, loose, whole) = 0 => stop = "none")
  BY <1>1 DEF Counted
<1> DEFINE x == [topic |-> topic, msg |-> msg, whole |-> whole /\ loose = {}]
<1>4. IsOf(x, topic, msg)
  BY DEF IsOf
<1>5. sent' = IF stop = "none" /\ Logged(msg) THEN Append(log, x) ELSE log
  BY DEF Publish
<1> HIDE DEF x
<1>6. failures' \in Nat /\ (failures' = 0 => failures = 0 /\ Counted(stop, loose, whole) = 0)
  BY <1>2, <1>3
<1>7. task_run /\ Logged(msg) /\ failures' = 0 => sent' = Append(log, x)
  BY <1>3, <1>5, <1>6
<1>8. Adds(log, x, sent')
  BY <1>5 DEF Adds
<1>9. Sends(topic, msg, log)
  BY <1>4, <1>7, <1>8 DEF Sends
<1> QED
  BY <1>2, <1>6, <1>9

MemoryInv == leaked \in Nat /\ failures \in Nat /\ MemoryReturned

LEMMA PublishReturns ==
    ASSUME MemoryInv, NEW topic, NEW msg, NEW stop \in DOMAIN Order,
           NEW loose \in SUBSET Added(msg.payload, stop), NEW whole \in BOOLEAN, NEW log,
           Publish(topic, msg, stop, loose, whole, log)
    PROVE  MemoryInv'
<1> DEFINE lost == Lost(Held(msg.payload, stop), Added(msg.payload, stop) \ loose, stop)
<1>1. leaked' = leaked + Cardinality(lost)
  BY DEF Publish
<1>2. failures' = failures + Counted(stop, loose, whole)
  BY PublishCounts DEF MemoryInv
<1>3. /\ Cardinality(lost) \in Nat /\ Counted(stop, loose, whole) \in Nat
      /\ Cardinality(lost) <= Counted(stop, loose, whole)
  BY LostAreCounted
<1> HIDE DEF lost
<1> QED
  BY <1>1, <1>2, <1>3 DEF MemoryInv, MemoryReturned

LEMMA PublishFromReturns ==
    ASSUME MemoryInv, NEW blocks \in SUBSET DOMAIN Order, NEW topic, NEW msg,
           PublishFrom(blocks, topic, msg)
    PROVE  MemoryInv'
<1>1. PICK stop \in Stops(blocks) : \E loose \in SUBSET Added(msg.payload, stop), whole \in BOOLEAN :
         Publish(topic, msg, stop, loose, whole, sent)
  BY DEF PublishFrom
<1>2. stop \in DOMAIN Order
  BY <1>1 DEF Stops, Order
<1> QED
  BY <1>1, <1>2, PublishReturns

LEMMA PublishingReturns ==
    ASSUME MemoryInv, NEW topic, NEW msg, Publishing(topic, msg)
    PROVE  MemoryInv'
<1>1. Uses(msg.payload) \in SUBSET DOMAIN Order
  BY DEF Uses, Order
<1> QED
  BY <1>1, PublishFromReturns DEF Publishing

LEMMA AppAckReturns ==
    ASSUME MemoryInv, NEW c, AppAck(c)
    PROVE  MemoryInv'
<1>1. \/ Publishing("upgrade/ack", PacketOtaAckeData(c.mid, Ok))
      \/ Publishing("info/report", PacketDeviceInfoData(c.mid))
      \/ Publishing("control/ack", PacketControlAckeData(c.mid, Ok))
  BY DEF AppAck
<1> QED
  BY <1>1, PublishingReturns

LEMMA MemoryStep == MemoryInv /\ [Next]_vars => MemoryInv'
<1> SUFFICES ASSUME MemoryInv, [Next]_vars PROVE MemoryInv'
  OBVIOUS
<1>0. ASSUME leaked' = leaked, failures' \in {failures, failures + 1} PROVE MemoryInv'
  BY <1>0 DEF MemoryInv, MemoryReturned
<1>1. ASSUME NEW k \in Kinds, NEW p \in Controls, Receive(k, p) PROVE MemoryInv'
  <2>1. \/ \E topic, msg : Publishing(topic, msg)
        \/ leaked' = leaked /\ failures' = failures
    BY <1>1 DEF Receive, memory
  <2> QED
    BY <1>0, <2>1, PublishingReturns
<1>2. CASE Callback
  <2>1. AppAck(cmd) \/ (leaked' = leaked /\ failures' \in {failures, failures + 1})
    BY <1>2 DEF Callback, memory
  <2> QED
    BY <1>0, <2>1, AppAckReturns
<1>3. CASE Reboot
  BY <1>3 DEF Reboot, MemoryInv, MemoryReturned
<1>4. ASSUME NEW mid, ReportBegin(mid) PROVE MemoryInv'
  <2> DEFINE msg == PacketReportAttrbutesData("report", mid)
  <2>1. \/ \E stop \in {"packet", "device", "payload"} : Publish("report", msg, stop, {}, TRUE, sent)
        \/ leaked' = leaked /\ failures' = failures
    BY <1>4 DEF ReportBegin, memory
  <2>2. {"packet", "device", "payload"} \subseteq DOMAIN Order
    BY DEF Order
  <2> HIDE DEF msg
  <2>3. ASSUME NEW stop \in {"packet", "device", "payload"}, Publish("report", msg, stop, {}, TRUE, sent)
        PROVE  MemoryInv'
    <3>1. {} \in SUBSET Added(msg.payload, stop) /\ stop \in DOMAIN Order
      BY <2>2
    <3> QED
      BY <2>3, <3>1, PublishReturns
  <2> QED
    BY <1>0, <2>1, <2>3
<1>5. CASE ReportEnd
  <2>1. PublishFrom({"root", "header", "text", "topic"}, "report",
                    PacketReportAttrbutesData(rep.name, rep.mid))
    BY <1>5 DEF ReportEnd
  <2>2. {"root", "header", "text", "topic"} \in SUBSET DOMAIN Order
    BY DEF Order
  <2> QED
    BY <2>1, <2>2, PublishFromReturns
<1>6. CASE ReportOther
  BY <1>6, PublishingReturns DEF ReportOther
<1>7. CASE ReportOtaRate
  BY <1>7, PublishingReturns DEF ReportOtaRate
<1>8. CASE Start \/ Stop \/ UNCHANGED vars
  BY <1>0, <1>8 DEF Start, Stop, vars, memory, history
<1> QED
  BY <1>1, <1>2, <1>3, <1>4, <1>5, <1>6, <1>7, <1>8 DEF Next

\* Memory is lost by failures only, and by each at most one object with what is in it,
\* whichever allocation of whichever message fails and whichever object cannot be put in
\* another (aiio_protocol_packet.c, aiio_service_publish_* of aiio_wan_service.c).
THEOREM MemoryCorrect == Spec => []MemoryReturned
<1>1. Init => MemoryInv
  BY DEF Init, MemoryInv, MemoryReturned
<1>2. MemoryInv => MemoryReturned
  BY DEF MemoryInv
<1> QED
  BY <1>1, <1>2, MemoryStep, PTL DEF Spec

-----------------------------------------------------------------------------
(* What is published.  A report is the one kind of message on its topic,   *)
(* and only an acknowledgement carries a code.                             *)
Coded(x) == "code" \in DOMAIN x.msg.payload

LEMMA PublishingSends ==
    ASSUME failures \in Nat, NEW blocks, NEW topic, NEW msg, PublishFrom(blocks, topic, msg)
    PROVE  /\ failures' \in Nat /\ (failures' = 0 => failures = 0)
           /\ Sends(topic, msg, sent)
BY PublishCounts DEF PublishFrom

LEMMA PublishFromAdds ==
    ASSUME failures \in Nat, NEW blocks, NEW topic, NEW msg, PublishFrom(blocks, topic, msg)
    PROVE  /\ failures' \in Nat /\ (failures' = 0 => failures = 0)
           /\ \E x : IsOf(x, topic, msg) /\ Adds(sent, x, sent')
BY PublishingSends DEF Sends

LEMMA PublishingAdds ==
    ASSUME failures \in Nat, NEW topic, NEW msg, Publishing(topic, msg)
    PROVE  /\ failures' \in Nat /\ (failures' = 0 => failures = 0)
           /\ \E x : IsOf(x, topic, msg) /\ Adds(sent, x, sent')
BY PublishFromAdds DEF Publishing

\* Without a failure what is logged is published as long as the session lasts.
LEMMA PublishingSucceeds ==
    ASSUME failures \in Nat, NEW topic, NEW msg, Logged(msg), Publishing(topic, msg), task_run
    PROVE  \E x : /\ IsOf(x, topic, msg) /\ Adds(sent, x, sent')
                  /\ failures' = 0 => failures = 0 /\ sent' = Append(sent, x)
<1>1. (failures' = 0 => failures = 0) /\ Sends(topic, msg, sent)
  BY PublishingSends DEF Publishing
<1> QED
  BY <1>1 DEF Sends

-----------------------------------------------------------------------------
(* Logs.                                                                   *)
IsLog(s) == \E S : s \in Seq(S)

LEMMA LogGrows ==
    ASSUME NEW s, IsLog(s), NEW x
    PROVE  /\ IsLog(Append(s, x)) /\ Len(s) \in Nat
           /\ DOMAIN s = 1 .. Len(s) /\ DOMAIN Append(s, x) = 1 .. Len(s) + 1
           /\ Append(s, x)[Len(s) + 1] = x
           /\ \A i \in 1 .. Len(s) : Append(s, x)[i] = s[i]
<1>1. PICK S : s \in Seq(S)
  BY DEF IsLog
<1>2. s \in Seq(S \cup {x}) /\ x \in S \cup {x}
  BY <1>1
<1>3. Append(s, x) \in Seq(S \cup {x})
  BY <1>2
<1> QED
  BY <1>2, <1>3 DEF IsLog

\* The reports of a name, and the commands of an event.
Said(s, name) == {i \in DOMAIN s : s[i].topic = "report" /\ s[i].msg.name = name}
Asked(s, event) == {i \in DOMAIN s : EventOf(s[i]) = event}

LEMMA SaidCounts ==
    ASSUME NEW s, IsLog(s), NEW x, NEW name
    PROVE  /\ Cardinality(Said(s, name)) \in Nat
           /\ x.topic = "report" /\ x.msg.name = name =>
                  Cardinality(Said(Append(s, x), name)) = Cardinality(Said(s, name)) + 1
           /\ ~(x.topic = "report" /\ x.msg.name = name) =>
                  Said(Append(s, x), name) = Said(s, name)
<1>1. Len(s) \in Nat /\ DOMAIN s = 1 .. Len(s)
  BY LogGrows
<1>2. IsFiniteSet(1 .. Len(s))
  BY <1>1, FS_Interval
<1>3. Said(s, name) \subseteq 1 .. Len(s)
  BY <1>1 DEF Said
<1>4. IsFiniteSet(Said(s, name)) /\ Cardinality(Said(s, name)) \in Nat
  BY <1>2, <1>3, FS_Subset, FS_CardinalityType
<1>5. Said(Append(s, x), name)
        = Said(s, name) \cup (IF x.topic = "report" /\ x.msg.name = name THEN {Len(s) + 1} ELSE {})
  BY <1>1, LogGrows DEF Said
<1>6. Len(s) + 1 \notin Said(s, name)
  BY <1>1, <1>3
<1>7. Cardinality(Said(s, name) \cup {Len(s) + 1}) = Cardinality(Said(s, name)) + 1
  BY <1>4, <1>6, FS_AddElement
<1> QED
  BY <1>4, <1>5, <1>7

LEMMA AskedCounts ==
    ASSUME NEW s, IsLog(s), NEW x, NEW event
    PROVE  /\ Cardinality(Asked(s, event)) \in Nat
           /\ EventOf(x) = event =>
                  Cardinality(Asked(Append(s, x), event)) = Cardinality(Asked(s, event)) + 1
           /\ EventOf(x) # event => Asked(Append(s, x), event) = Asked(s, event)
<1>1. Len(s) \in Nat /\ DOMAIN s = 1 .. Len(s)
  BY LogGrows
<1>2. IsFiniteSet(1 .. Len(s))
  BY <1>1, FS_Interval
<1>3. Asked(s, event) \subseteq 1 .. Len(s)
  BY <1>1 DEF Asked
<1>4. IsFiniteSet(Asked(s, event)) /\ Cardinality(Asked(s, event)) \in Nat
  BY <1>2, <1>3, FS_Subset, FS_CardinalityType
<1>5. Asked(Append(s, x), event)
        = Asked(s, event) \cup (IF EventOf(x) = event THEN {Len(s) + 1} ELSE {})
  BY <1>1, LogGrows DEF Asked
<1>6. Len(s) + 1 \notin Asked(s, event)
  BY <1>1, <1>3
<1>7. Cardinality(Asked(s, event) \cup {Len(s) + 1}) = Cardinality(Asked(s, event)) + 1
  BY <1>4, <1>6, FS_AddElement
<1> QED
  BY <1>4, <1>5, <1>7

-----------------------------------------------------------------------------
(* Commands and their acknowledgements.                                    *)
LEMMA EventOfCommand ==
    ASSUME NEW c
    PROVE  \/ Matches(c) = {} /\ EventOf(c) = "INVAILD"
           \/ \E k \in Known : /\ Matches(c) # {} /\ k.ns = c.ns /\ k.name = c.name
                               /\ EventOf(c) = k.event
<1>1. CASE Matches(c) = {}
  BY <1>1 DEF EventOf
<1>2. CASE Matches(c) # {}
  <2> DEFINE k == CHOOSE k \in Matches(c) : TRUE
  <2>1. k \in Matches(c)
    BY <1>2
  <2>2. k \in Known /\ k.ns = c.ns /\ k.name = c.name
    BY <2>1 DEF Matches
  <2>3. EventOf(c) = k.event
    BY <1>2 DEF EventOf
  <2> QED
    BY <1>2, <2>2, <2>3
<1> QED
  BY <1>1, <1>2

\* An acknowledgement is for the command it names.
LEMMA AckOfCommand ==
    ASSUME NEW c, Acknowledged(c)
    PROVE  /\ AckMessage(c).ns = c.ns /\ AckMessage(c).name = c.name
           /\ AckMessage(c).mid = c.mid
           /\ "code" \in DOMAIN AckMessage(c).payload
           /\ (AckMessage(c).payload.code = Ok) <=> (Matches(c) # {})
           /\ AckTopic(c.ns) # "report"
<1>1. CASE Matches(c) = {} /\ EventOf(c) = "INVAILD"
  <2>1. c.ns \in {"control", "query", "config", "upgrade", "info"}
    BY <1>1 DEF Acknowledged
  <2>2. AckMessage(c) = PacketAckData(c.ns, c.name, c.mid, NameError)
    BY <1>1 DEF AckMessage
  <2> QED
    BY <1>1, <2>1, <2>2 DEF PacketAckData, Pack, AckOf, NameError, Ok, AckTopic, AckTopics
<1>2. ASSUME NEW k \in Known, Matches(c) # {}, k.ns = c.ns, k.name = c.name, EventOf(c) = k.event
      PROVE  /\ AckMessage(c).ns = c.ns /\ AckMessage(c).name = c.name
             /\ AckMessage(c).mid = c.mid
             /\ "code" \in DOMAIN AckMessage(c).payload
             /\ (AckMessage(c).payload.code = Ok) <=> (Matches(c) # {})
             /\ AckTopic(c.ns) # "report"
  <2>1. EventOf(c) \in {"RESTORE", "REBOOT", "CONTROL", "CONFIG", "UPGRADE"}
    BY <1>2 DEF Acknowledged
  <2>2. \/ EventOf(c) = "RESTORE" /\ c.ns = "control" /\ c.name = "restore"
        \/ EventOf(c) = "REBOOT"  /\ c.ns = "control" /\ c.name = "reboot"
        \/ EventOf(c) = "CONTROL" /\ c.ns = "control" /\ c.name = "control"
        \/ EventOf(c) = "CONFIG"  /\ c.ns = "config"  /\ c.name = "config"
        \/ EventOf(c) = "UPGRADE" /\ c.ns = "upgrade" /\ c.name = "otaInfo"
    BY <1>2, <2>1 DEF Known
  <2>3. AckMessage(c) = [ns |-> c.ns, name |-> c.name, mid |-> c.mid, payload |-> [code |-> Ok]]
    BY <2>2 DEF AckMessage, PacketRestoreAckeData, PacketRebootAckeData, PacketControlAckeData,
       PacketConfigAckeData, PacketOtaAckeData, Pack, AckOf
  <2> QED
    BY <1>2, <2>2, <2>3 DEF AckTopic, AckTopics
<1> QED
  BY <1>1, <1>2, EventOfCommand

LEMMA MustAnswerAcknowledged == ASSUME NEW c, MustAnswer(c) PROVE Acknowledged(c)
<1>1. CASE Matches(c) = {}
  BY <1>1 DEF MustAnswer, Acknowledged
<1>2. ASSUME NEW k \in Known, Matches(c) # {}, k.ns = c.ns, EventOf(c) = k.event
      PROVE  Acknowledged(c)
  <2>1. k.ns \in {"control", "config", "upgrade"}
    BY <1>2 DEF MustAnswer
  <2> QED
    BY <1>2, <2>1 DEF Known, Acknowledged
<1> QED
  BY <1>1, <1>2, EventOfCommand

-----------------------------------------------------------------------------
(* What each action adds to the logs.                                      *)
NotReport(x) == x.topic # "report"

LogInv == /\ IsLog(sent) /\ IsLog(cmds) /\ failures \in Nat
          /\ \A i \in DOMAIN cmds : cmds[i].mid = i

\* A message that is no report and carries no code.
Plain(x) == NotReport(x) /\ ~Coded(x)

LEMMA AppAckAdds ==
    ASSUME failures \in Nat, NEW c, AppAck(c)
    PROVE  failures' \in Nat /\ \E x : NotReport(x) /\ Adds(sent, x, sent')
<1>1. \/ Publishing("upgrade/ack", PacketOtaAckeData(c.mid, Ok))
      \/ Publishing("info/report", PacketDeviceInfoData(c.mid))
      \/ Publishing("control/ack", PacketControlAckeData(c.mid, Ok))
  BY DEF AppAck
<1>2. \E topic, msg : topic # "report" /\ Publishing(topic, msg)
  BY <1>1
<1>3. PICK topic, msg : topic # "report" /\ Publishing(topic, msg)
  BY <1>2
<1>4. \A x : IsOf(x, topic, msg) => NotReport(x)
  BY <1>3 DEF NotReport, IsOf
<1> QED
  BY <1>3, <1>4, PublishingAdds

\* What the tasks of the device publish by themselves, reports aside.
LEMMA OtherAdds ==
    ASSUME failures \in Nat, ReportOther \/ ReportOtaRate
    PROVE  /\ failures' \in Nat /\ (failures' = 0 => failures = 0)
           /\ \E x : Plain(x) /\ Adds(sent, x, sent')
<1>1. \/ Publishing("online", PacketOnlineData)
      \/ Publishing("utc", PacketRequesUTCData)
      \/ Publishing("info/report", PacketDeviceInfoData(NoMid))
      \/ Publishing("upgrade/report", PacketReportOtaRateData)
  BY DEF ReportOther, ReportOtaRate
<1>2. \A x : \/ IsOf(x, "online", PacketOnlineData)
             \/ IsOf(x, "utc", PacketRequesUTCData)
             \/ IsOf(x, "info/report", PacketDeviceInfoData(NoMid))
             \/ IsOf(x, "upgrade/report", PacketReportOtaRateData)
             => Plain(x)
  BY DEF IsOf, Plain, NotReport, Coded, PacketOnlineData, PacketRequesUTCData,
     PacketDeviceInfoData, PacketReportOtaRateData, Pack
<1>3. CASE Publishing("online", PacketOnlineData)
  BY <1>2, <1>3, PublishingAdds
<1>4. CASE Publishing("utc", PacketRequesUTCData)
  BY <1>2, <1>4, PublishingAdds
<1>5. CASE Publishing("info/report", PacketDeviceInfoData(NoMid))
  BY <1>2, <1>5, PublishingAdds
<1>6. CASE Publishing("upgrade/report", PacketReportOtaRateData)
  BY <1>2, <1>6, PublishingAdds
<1> QED
  BY <1>1, <1>3, <1>4, <1>5, <1>6

\* A command is received: the log of commands grows, and what is published is its
\* acknowledgement, or its answer.
LEMMA ReceiveAdds ==
    ASSUME LogInv, NEW k \in Kinds, NEW p \in Controls, Receive(k, p)
    PROVE  \E c : /\ c.mid = Len(cmds) + 1 /\ cmds' = Append(cmds, c)
                  /\ IsQuery' = MarkOf(EventOf(c)) /\ rep' = rep
                  /\ UNCHANGED <<auto_ack_off, task_run>>
                  /\ IF Acknowledged(c) /\ ~auto_ack_off
                     THEN Publishing(AckTopic(c.ns), AckMessage(c))
                     ELSE \E x : Plain(x) /\ Adds(sent, x, sent')
                  /\ ~Acknowledged(c) => ~MustAnswer(c)
                  /\ task_run /\ pc' = "callback" /\ failures' \in Nat
                  /\ failures' = 0 => failures = 0
<1> DEFINE c == [ns |-> k.ns, name |-> k.name, mid |-> Len(cmds) + 1, payload |-> p]
<1>1. /\ c.mid = Len(cmds) + 1 /\ cmds' = Append(cmds, c) /\ IsQuery' = MarkOf(EventOf(c))
      /\ rep' = rep /\ UNCHANGED <<auto_ack_off, task_run>>
      /\ task_run /\ pc' = "callback"
  BY DEF Receive, service
<1>2. /\ IF Acknowledged(c) /\ ~auto_ack_off
         THEN Publishing(AckTopic(c.ns), AckMessage(c))
         ELSE IF EventOf(c) = "INFO"
         THEN Publishing("info/report", PacketDeviceInfoData(c.mid))
         ELSE UNCHANGED <<memory, sent, failures>>
  BY DEF Receive
<1>3. ASSUME Publishing("info/report", PacketDeviceInfoData(c.mid))
      PROVE  \E x : Plain(x) /\ Adds(sent, x, sent')
  <2>1. \A x : IsOf(x, "info/report", PacketDeviceInfoData(c.mid)) => Plain(x)
    BY DEF IsOf, Plain, NotReport, Coded, PacketDeviceInfoData, Pack
  <2> QED
    BY <1>3, <2>1, PublishingAdds DEF LogInv
<1>4. ASSUME sent' = sent
      PROVE  \E x : Plain(x) /\ Adds(sent, x, sent')
  <2>1. Plain([topic |-> "none", msg |-> PacketOnlineData])
    BY DEF Plain, NotReport, Coded, PacketOnlineData, Pack
  <2> QED
    BY <1>4, <2>1 DEF Adds
<1>5. failures' \in Nat /\ (failures' = 0 => failures = 0)
  BY <1>2, PublishingAdds DEF LogInv
<1>6. ~Acknowledged(c) => ~MustAnswer(c)
  BY MustAnswerAcknowledged
<1> HIDE DEF c
<1> QED
  BY <1>1, <1>2, <1>3, <1>4, <1>5, <1>6

\* A report is named by the mark, and clears it.
LEMMA ReportBeginAdds ==
    ASSUME NEW mid, ReportBegin(mid), failures \in Nat
    PROVE  /\ sent' = sent /\ failures' \in Nat /\ rep.at = "idle"
           /\ failures' = 0 => failures = 0
           /\ rep' = rep \/ rep' = [at |-> "named", name |-> ReportName, mid |-> mid]
<1>1. CASE UNCHANGED <<memory, sent, failures>>
  BY <1>1 DEF ReportBegin
<1>2. CASE \E stop \in {"packet", "device", "payload"} :
               /\ Publish("report", PacketReportAttrbutesData("report", mid), stop, {}, TRUE, sent)
               /\ UNCHANGED rep
  <2> DEFINE msg == PacketReportAttrbutesData("report", mid)
  <2>1. PICK stop \in {"packet", "device", "payload"} : Publish("report", msg, stop, {}, TRUE, sent)
    BY <1>2
  <2>2. sent' = sent
    BY <2>1 DEF Publish
  <2>3. {} \in SUBSET Added(msg.payload, stop)
    OBVIOUS
  <2> HIDE DEF msg
  <2>4. failures' \in Nat /\ (failures' = 0 => failures = 0)
    BY <2>1, <2>3, PublishCounts
  <2> QED
    BY <1>2, <2>2, <2>4 DEF ReportBegin
<1> QED
  BY <1>1, <1>2 DEF ReportBegin

LEMMA ReportEndAdds ==
    ASSUME ReportEnd, failures \in Nat
    PROVE  /\ \E x : ~Coded(x) /\ x.topic = "report" /\ x.msg.name = rep.name /\ Adds(sent, x, sent')
           /\ failures' \in Nat /\ rep.at = "named" /\ rep' = Resting
           /\ failures' = 0 => failures = 0
           /\ IsQuery' = IF rep.name = "report" THEN IsQuery ELSE MarkAfterReport
<1> DEFINE msg == PacketReportAttrbutesData(rep.name, rep.mid)
<1>1. \A x : IsOf(x, "report", msg) => ~Coded(x) /\ x.topic = "report" /\ x.msg.name = rep.name
  BY DEF IsOf, Coded, PacketReportAttrbutesData, Pack
<1>2. PublishFrom({"root", "header", "text", "topic"}, "report", msg)
  BY DEF ReportEnd
<1> HIDE DEF msg
<1>3. /\ failures' \in Nat /\ (failures' = 0 => failures = 0)
      /\ \E x : IsOf(x, "report", msg) /\ Adds(sent, x, sent')
  BY <1>2, PublishFromAdds
<1> QED
  BY <1>1, <1>3 DEF ReportEnd

LEMMA LogsGrow ==
    ASSUME NEW s, IsLog(s), NEW x, NEW t, Adds(s, x, t)
    PROVE  IsLog(t)
<1>1. IsLog(Append(s, x))
  BY LogGrows
<1> QED
  BY <1>1 DEF Adds

LEMMA LogStep == LogInv /\ [Next]_vars => LogInv'
<1> SUFFICES ASSUME LogInv, [Next]_vars PROVE LogInv'
  OBVIOUS
<1>0. ASSUME UNCHANGED cmds, failures' \in Nat, NEW x, Adds(sent, x, sent') PROVE LogInv'
  BY <1>0, LogsGrow DEF LogInv
<1>1. ASSUME UNCHANGED <<cmds, sent>>, failures' \in Nat PROVE LogInv'
  BY <1>1 DEF LogInv
<1>2. ASSUME NEW k \in Kinds, NEW p \in Controls, Receive(k, p) PROVE LogInv'
  <2>1. PICK c : /\ c.mid = Len(cmds) + 1 /\ cmds' = Append(cmds, c)
                 /\ IF Acknowledged(c) /\ ~auto_ack_off
                    THEN Publishing(AckTopic(c.ns), AckMessage(c))
                    ELSE \E x : Plain(x) /\ Adds(sent, x, sent')
                 /\ failures' \in Nat
    BY <1>2, ReceiveAdds
  <2>2. IsLog(sent')
    BY <2>1, PublishingAdds, LogsGrow DEF LogInv
  <2>3. IsLog(cmds')
    BY <2>1, LogGrows DEF LogInv
  <2>4. \A i \in DOMAIN cmds' : cmds'[i].mid = i
    BY <2>1, LogGrows DEF LogInv
  <2> QED
    BY <2>1, <2>2, <2>3, <2>4 DEF LogInv
<1>3. CASE Callback
  <2>1. cmds' = cmds /\ failures \in Nat
    BY <1>3 DEF Callback, LogInv
  <2>2. AppAck(cmd) \/ (sent' = sent /\ failures' \in {failures, failures + 1})
    BY <1>3 DEF Callback
  <2> QED
    BY <1>0, <1>1, <2>1, <2>2, AppAckAdds
<1>4. CASE Reboot
  BY <1>1, <1>4 DEF Reboot, LogInv
<1>5. ASSUME NEW mid, ReportBegin(mid) PROVE LogInv'
  BY <1>1, <1>5, ReportBeginAdds DEF ReportBegin, LogInv
<1>6. CASE ReportEnd
  BY <1>0, <1>6, ReportEndAdds DEF ReportEnd, LogInv
<1>7. CASE ReportOther \/ ReportOtaRate
  <2>1. cmds' = cmds /\ failures' \in Nat
    BY <1>7, OtherAdds DEF ReportOther, ReportOtaRate, LogInv
  <2> QED
    BY <1>0, <1>7, <2>1, OtherAdds DEF LogInv
<1>8. CASE Start \/ Stop \/ UNCHANGED vars
  BY <1>1, <1>8 DEF Start, Stop, vars, history, LogInv
<1> QED
  BY <1>2, <1>3, <1>4, <1>5, <1>6, <1>7, <1>8 DEF Next

LEMMA LogInit == Init => LogInv
<1>1. <<>> \in Seq({})
  OBVIOUS
<1>2. IsLog(<<>>)
  BY <1>1 DEF IsLog
<1> QED
  BY <1>2 DEF Init, LogInv

-----------------------------------------------------------------------------
(* Reports.  The mark stands for one report that may still carry a name,   *)
(* and so does the report that has read it.                                *)
Questions == {[name |-> "query", event |-> "QUERY", mark |-> "ALL_QUERY"],
              [name |-> "control", event |-> "CONTROL", mark |-> "CONTROL"]}

Pending(q) == IF IsQuery = q.mark \/ (rep.at = "named" /\ rep.name = q.name) THEN 1 ELSE 0

ReportInv == \A q \in Questions :
    Cardinality(Said(sent, q.name)) + Pending(q) <= Cardinality(Asked(cmds, q.event))

LEMMA ReportInit == Init => ReportInv
<1> SUFFICES ASSUME Init, NEW q \in Questions
             PROVE  Cardinality(Said(sent, q.name)) + Pending(q) <= Cardinality(Asked(cmds, q.event))
  BY DEF ReportInv
<1>1. Said(sent, q.name) = {} /\ Asked(cmds, q.event) = {}
  BY DEF Init, Said, Asked
<1>2. Pending(q) = 0
  BY DEF Init, Pending, Resting, Questions
<1> QED
  BY <1>1, <1>2, FS_EmptySet

\* Messages that are no reports leave the count.
LEMMA SaidKept ==
    ASSUME LogInv, NEW x, NotReport(x), Adds(sent, x, sent'), NEW name
    PROVE  Said(sent', name) = Said(sent, name)
<1>1. Said(Append(sent, x), name) = Said(sent, name)
  BY SaidCounts DEF LogInv, NotReport
<1> QED
  BY <1>1 DEF Adds

LEMMA ReportStep == LogInv /\ ReportInv /\ [Next]_vars => ReportInv'
<1> SUFFICES ASSUME LogInv, ReportInv, [Next]_vars, NEW q \in Questions
             PROVE  Cardinality(Said(sent', q.name)) + Pending(q)' <= Cardinality(Asked(cmds', q.event))
  BY DEF ReportInv
<1> DEFINE Goal == Cardinality(Said(sent', q.name)) + Pending(q)' <= Cardinality(Asked(cmds', q.event))
<1>a. /\ Cardinality(Said(sent, q.name)) \in Nat /\ Cardinality(Asked(cmds, q.event)) \in Nat
      /\ Cardinality(Said(sent, q.name)) + Pending(q) <= Cardinality(Asked(cmds, q.event))
  BY SaidCounts, AskedCounts DEF LogInv, ReportInv
<1>b. Pending(q) \in {0, 1} /\ Pending(q)' \in {0, 1}
  BY DEF Pending
<1>0. ASSUME cmds' = cmds, Said(sent', q.name) = Said(sent, q.name), Pending(q)' <= Pending(q)
      PROVE  Goal
  BY <1>0, <1>a, <1>b
<1>1. ASSUME UNCHANGED <<IsQuery, rep>> PROVE Pending(q)' = Pending(q)
  BY <1>1 DEF Pending
<1>2. ASSUME NEW k \in Kinds, NEW p \in Controls, Receive(k, p) PROVE Goal
  <2>1. PICK c : /\ cmds' = Append(cmds, c)
                 /\ IsQuery' = MarkOf(EventOf(c)) /\ rep' = rep
                 /\ IF Acknowledged(c) /\ ~auto_ack_off
                    THEN Publishing(AckTopic(c.ns), AckMessage(c))
                    ELSE \E x : Plain(x) /\ Adds(sent, x, sent')
    BY <1>2, ReceiveAdds
  <2>2. Said(sent', q.name) = Said(sent, q.name)
    <3>1. CASE Acknowledged(c) /\ ~auto_ack_off
      <4>1. \A x : IsOf(x, AckTopic(c.ns), AckMessage(c)) => NotReport(x)
        BY <3>1, AckOfCommand DEF NotReport, IsOf
      <4> QED
        BY <2>1, <3>1, <4>1, PublishingAdds, SaidKept DEF LogInv
    <3>2. CASE ~(Acknowledged(c) /\ ~auto_ack_off)
      BY <2>1, <3>2, SaidKept DEF Plain
    <3> QED
      BY <3>1, <3>2
  <2>3. CASE EventOf(c) = q.event
    <3>1. Cardinality(Asked(cmds', q.event)) = Cardinality(Asked(cmds, q.event)) + 1
      BY <2>1, <2>3, AskedCounts DEF LogInv
    <3> QED
      BY <1>a, <1>b, <2>2, <3>1
  <2>4. CASE EventOf(c) # q.event
    <3>1. Asked(cmds', q.event) = Asked(cmds, q.event)
      BY <2>1, <2>4, AskedCounts DEF LogInv
    <3>2. IsQuery' = q.mark => IsQuery = q.mark
      BY <2>1, <2>4 DEF MarkOf, Questions
    <3>3. Pending(q)' <= Pending(q)
      BY <2>1, <3>2 DEF Pending
    <3> QED
      BY <1>a, <1>b, <2>2, <3>1, <3>3
  <2> QED
    BY <2>3, <2>4
<1>3. CASE Callback
  <2>1. UNCHANGED <<cmds, IsQuery, rep>>
    BY <1>3 DEF Callback
  <2>2. AppAck(cmd) \/ sent' = sent
    BY <1>3 DEF Callback
  <2>3. Said(sent', q.name) = Said(sent, q.name)
    BY <2>2, AppAckAdds, SaidKept DEF LogInv
  <2> QED
    BY <1>0, <1>1, <1>b, <2>1, <2>3
<1>4. CASE Reboot
  <2>1. Pending(q)' = 0
    BY <1>4 DEF Reboot, Pending, Resting, Questions
  <2> QED
    BY <1>0, <1>4, <1>b, <2>1 DEF Reboot
<1>5. ASSUME NEW mid, ReportBegin(mid) PROVE Goal
  <2>1. sent' = sent /\ rep.at = "idle"
        /\ (rep' = rep \/ rep' = [at |-> "named", name |-> ReportName, mid |-> mid])
    BY <1>5, ReportBeginAdds DEF LogInv
  <2>2. cmds' = cmds /\ IsQuery' = IsQuery
    BY <1>5 DEF ReportBegin
  <2>3. Pending(q)' <= Pending(q)
    BY <2>1, <2>2 DEF Pending, ReportName, Questions
  <2> QED
    BY <1>0, <2>1, <2>2, <2>3
<1>6. CASE ReportEnd
  <2>1. PICK x : x.topic = "report" /\ x.msg.name = rep.name /\ Adds(sent, x, sent')
    BY <1>6, ReportEndAdds DEF LogInv
  <2>2. /\ rep.at = "named" /\ rep' = Resting /\ cmds' = cmds
        /\ IsQuery' = IF rep.name = "report" THEN IsQuery ELSE MarkAfterReport
    BY <1>6, ReportEndAdds DEF LogInv, ReportEnd
  <2>3. CASE rep.name = q.name
    <3>1. Pending(q) = 1
      BY <2>2, <2>3 DEF Pending
    <3>2. Pending(q)' = 0
      BY <2>2, <2>3 DEF Pending, Resting, MarkAfterReport, Questions
    <3>0. Cardinality(Said(Append(sent, x), q.name)) = Cardinality(Said(sent, q.name)) + 1
      BY <2>1, <2>3, SaidCounts DEF LogInv
    <3>3. Said(sent', q.name) \in {Said(sent, q.name), Said(Append(sent, x), q.name)}
      BY <2>1 DEF Adds
    <3>4. Cardinality(Said(sent', q.name))
            \in {Cardinality(Said(sent, q.name)), Cardinality(Said(sent, q.name)) + 1}
      BY <3>0, <3>3
    <3> QED
      BY <1>a, <2>2, <3>1, <3>2, <3>4
  <2>4. CASE rep.name # q.name
    <3>0. Said(Append(sent, x), q.name) = Said(sent, q.name)
      BY <2>1, <2>4, SaidCounts DEF LogInv
    <3>1. Said(sent', q.name) = Said(sent, q.name)
      BY <2>1, <3>0 DEF Adds
    <3>2. Pending(q)' <= Pending(q)
      BY <2>2, <2>4 DEF Pending, Resting, MarkAfterReport, Questions
    <3> QED
      BY <1>0, <2>2, <3>1, <3>2
  <2> QED
    BY <2>3, <2>4
<1>7. CASE ReportOther \/ ReportOtaRate
  <2>1. UNCHANGED <<cmds, IsQuery, rep>>
    BY <1>7 DEF ReportOther, ReportOtaRate
  <2>2. Said(sent', q.name) = Said(sent, q.name)
    BY <1>7, OtherAdds, SaidKept DEF Plain, LogInv
  <2> QED
    BY <1>0, <1>1, <1>b, <2>1, <2>2
<1>8. CASE Start \/ Stop \/ UNCHANGED vars
  BY <1>0, <1>1, <1>b, <1>8 DEF Start, Stop, vars, history
<1> QED
  BY <1>2, <1>3, <1>4, <1>5, <1>6, <1>7, <1>8 DEF Next

\* Reports that answer a query or a control are never more than the commands that asked,
\* however the mqtt task and the reporting one interleave (IsQuery, aiio_protocol_packet.c).
THEOREM ReportsCorrect == Spec => []NoForgedAnswer
<1>1. LogInv /\ ReportInv => NoForgedAnswer
  <2> SUFFICES ASSUME LogInv, ReportInv PROVE NoForgedAnswer
    OBVIOUS
  <2>1. ASSUME NEW q \in Questions
        PROVE  Cardinality(Said(sent, q.name)) <= Cardinality(Asked(cmds, q.event))
    <3>1. Cardinality(Said(sent, q.name)) \in Nat /\ Cardinality(Asked(cmds, q.event)) \in Nat
      BY SaidCounts, AskedCounts DEF LogInv
    <3>2. Pending(q) \in {0, 1}
      BY DEF Pending
    <3> QED
      BY <3>1, <3>2 DEF ReportInv
  <2>2. /\ Cardinality(Said(sent, "query")) <= Cardinality(Asked(cmds, "QUERY"))
        /\ Cardinality(Said(sent, "control")) <= Cardinality(Asked(cmds, "CONTROL"))
    BY <2>1 DEF Questions
  <2>3. ASSUME NEW q \in {[name |-> "query", event |-> "QUERY"], [name |-> "control", event |-> "CONTROL"]}
        PROVE  Cardinality(Said(sent, q.name)) <= Cardinality(Asked(cmds, q.event))
    BY <2>2
  <2> QED
    BY <2>3 DEF NoForgedAnswer, Said, Asked
<1> QED
  BY <1>1, LogInit, ReportInit, LogStep, ReportStep, PTL DEF Spec

-----------------------------------------------------------------------------
(* Acknowledgements, for an application that leaves them to the service.   *)
Names(x, c) ==
    /\ x.msg.ns = c.ns /\ x.msg.name = c.name /\ x.msg.mid = c.mid
    /\ x.topic = AckTopic(c.ns)
    /\ (x.msg.payload.code = Ok) <=> (Matches(c) # {})

AckInv == \A i \in DOMAIN sent : Coded(sent[i]) => \E n \in DOMAIN cmds : Names(sent[i], cmds[n])

\* A command that must be answered has its one acknowledgement.
AckOfIs(n, i) == \A j \in DOMAIN sent : (Coded(sent[j]) /\ sent[j].msg.mid = n) <=> j = i

OnceInv ==
    failures = 0 => \A n \in DOMAIN cmds : MustAnswer(cmds[n]) => \E i \in DOMAIN sent : AckOfIs(n, i)

AnswerInv == auto_ack_off = FALSE /\ AckInv /\ OnceInv

LEMMA AnswerInit == Init => AnswerInv
BY DEF Init, AnswerInv, AckInv, OnceInv

\* What was acknowledged stays so when the logs grow.
LEMMA NamesStay ==
    ASSUME LogInv, AckInv, NEW c, cmds' = Append(cmds, c) \/ cmds' = cmds,
           NEW i \in DOMAIN sent, Coded(sent[i])
    PROVE  \E n \in DOMAIN cmds' : Names(sent[i], cmds'[n])
<1>1. PICK n \in DOMAIN cmds : Names(sent[i], cmds[n])
  BY DEF AckInv
<1>2. n \in DOMAIN cmds' /\ cmds'[n] = cmds[n]
  <2>1. DOMAIN cmds = 1 .. Len(cmds) /\ Len(cmds) \in Nat
    BY LogGrows DEF LogInv
  <2>2. n \in DOMAIN Append(cmds, c) /\ Append(cmds, c)[n] = cmds[n]
    BY <2>1, LogGrows DEF LogInv
  <2> QED
    BY <2>2
<1> QED
  BY <1>1, <1>2

\* A message without a code disturbs nothing.
LEMMA UncodedKeeps ==
    ASSUME LogInv, AnswerInv, NEW x, ~Coded(x), Adds(sent, x, sent'),
           NEW c, cmds' = cmds \/ (cmds' = Append(cmds, c) /\ ~MustAnswer(c)),
           auto_ack_off' = auto_ack_off, failures' = 0 => failures = 0
    PROVE  AnswerInv'
<1>1. DOMAIN sent = 1 .. Len(sent) /\ Len(sent) \in Nat /\ DOMAIN cmds = 1 .. Len(cmds) /\ Len(cmds) \in Nat
  BY LogGrows DEF LogInv
<1>2. /\ DOMAIN sent \subseteq DOMAIN sent'
      /\ \A i \in DOMAIN sent : sent'[i] = sent[i]
      /\ \A i \in DOMAIN sent' \ DOMAIN sent : ~Coded(sent'[i])
  <2>1. CASE sent' = sent
    BY <2>1
  <2>2. CASE sent' = Append(sent, x)
    <3>1. /\ DOMAIN Append(sent, x) = 1 .. Len(sent) + 1
          /\ Append(sent, x)[Len(sent) + 1] = x
          /\ \A i \in 1 .. Len(sent) : Append(sent, x)[i] = sent[i]
      BY LogGrows DEF LogInv
    <3>3. \A i \in DOMAIN Append(sent, x) \ DOMAIN sent : i = Len(sent) + 1
      BY <1>1, <3>1
    <3> QED
      BY <1>1, <2>2, <3>1, <3>3
  <2> QED
    BY <2>1, <2>2 DEF Adds
<1>3. AckInv'
  <2> SUFFICES ASSUME NEW i \in DOMAIN sent', Coded(sent'[i])
               PROVE  \E n \in DOMAIN cmds' : Names(sent'[i], cmds'[n])
    BY DEF AckInv, Coded, Names, Matches, AckTopic
  <2>1. i \in DOMAIN sent /\ sent'[i] = sent[i]
    BY <1>2
  <2>2. Coded(sent[i])
    BY <2>1
  <2>3. \E n \in DOMAIN cmds' : Names(sent[i], cmds'[n])
    BY <2>1, <2>2, NamesStay DEF AnswerInv
  <2> QED
    BY <2>1, <2>3
<1>4. OnceInv'
  <2> SUFFICES ASSUME failures = 0, NEW n \in DOMAIN cmds', MustAnswer(cmds'[n])
               PROVE  \E i \in DOMAIN sent' : AckOfIs(n, i)'
    BY DEF OnceInv, MustAnswer
  <2>1. n \in DOMAIN cmds /\ cmds'[n] = cmds[n]
    <3>1. CASE cmds' = cmds
      BY <3>1
    <3>2. CASE cmds' = Append(cmds, c) /\ ~MustAnswer(c)
      <4>1. /\ DOMAIN Append(cmds, c) = 1 .. Len(cmds) + 1
            /\ Append(cmds, c)[Len(cmds) + 1] = c
            /\ \A k \in 1 .. Len(cmds) : Append(cmds, c)[k] = cmds[k]
        BY LogGrows DEF LogInv
      <4>2. n # Len(cmds) + 1
        BY <3>2, <4>1
      <4>3. n \in DOMAIN Append(cmds, c)
        BY <3>2
      <4>4. n \in 1 .. Len(cmds) + 1
        BY <4>1, <4>3
      <4>5. n \in 1 .. Len(cmds)
        BY <1>1, <4>2, <4>4
      <4>6. cmds'[n] = cmds[n]
        BY <3>2, <4>1, <4>5
      <4> QED
        BY <1>1, <4>5, <4>6
    <3> QED
      BY <3>1, <3>2
  <2>2. MustAnswer(cmds[n])
    BY <2>1
  <2>3. PICK i \in DOMAIN sent : AckOfIs(n, i)
    BY <2>1, <2>2 DEF AnswerInv, OnceInv
  <2>4. \A j \in DOMAIN sent' : (Coded(sent'[j]) /\ sent'[j].msg.mid = n) <=> j = i
    <3> SUFFICES ASSUME NEW j \in DOMAIN sent'
                 PROVE  (Coded(sent'[j]) /\ sent'[j].msg.mid = n) <=> j = i
      OBVIOUS
    <3>1. CASE j \in DOMAIN sent
      <4>1. (Coded(sent[j]) /\ sent[j].msg.mid = n) <=> j = i
        BY <2>3, <3>1 DEF AckOfIs
      <4>2. sent'[j] = sent[j]
        BY <1>2, <3>1
      <4> QED
        BY <4>1, <4>2
    <3>2. CASE j \notin DOMAIN sent
      BY <1>2, <3>2
    <3> QED
      BY <3>1, <3>2
  <2> QED
    BY <1>2, <2>3, <2>4 DEF AckOfIs, Coded
<1> QED
  BY <1>3, <1>4 DEF AnswerInv

\* An acknowledgement is published for the command that has just come.
LEMMA AckKeeps ==
    ASSUME LogInv, AnswerInv, NEW c, c.mid = Len(cmds) + 1, cmds' = Append(cmds, c),
           Acknowledged(c), Publishing(AckTopic(c.ns), AckMessage(c)), task_run,
           auto_ack_off' = auto_ack_off
    PROVE  AnswerInv'
<1>0. Logged(AckMessage(c))
  BY AckOfCommand DEF Logged
<1> PICK x : /\ IsOf(x, AckTopic(c.ns), AckMessage(c)) /\ Adds(sent, x, sent')
             /\ failures' = 0 => failures = 0 /\ sent' = Append(sent, x)
  BY <1>0, PublishingSucceeds DEF LogInv
<1>1. DOMAIN sent = 1 .. Len(sent) /\ Len(sent) \in Nat /\ DOMAIN cmds = 1 .. Len(cmds) /\ Len(cmds) \in Nat
  BY LogGrows DEF LogInv
<1>2. x.msg.mid = Len(cmds) + 1 /\ Coded(x) /\ Names(x, c)
  BY AckOfCommand DEF Coded, Names, IsOf
<1>3. Adds(sent, x, sent')
  OBVIOUS
<1>4. failures' = 0 => failures = 0 /\ sent' = Append(sent, x)
  OBVIOUS
<1>5. /\ DOMAIN cmds' = 1 .. Len(cmds) + 1 /\ cmds'[Len(cmds) + 1] = c
      /\ \A k \in 1 .. Len(cmds) : cmds'[k] = cmds[k]
  BY LogGrows DEF LogInv
<1>6. /\ DOMAIN Append(sent, x) = 1 .. Len(sent) + 1
      /\ Append(sent, x)[Len(sent) + 1] = x
      /\ \A i \in 1 .. Len(sent) : Append(sent, x)[i] = sent[i]
  BY LogGrows DEF LogInv
<1>7. AckInv'
  <2> SUFFICES ASSUME NEW i \in DOMAIN sent', Coded(sent'[i])
               PROVE  \E n \in DOMAIN cmds' : Names(sent'[i], cmds'[n])
    BY DEF AckInv, Coded, Names, Matches, AckTopic
  <2>1. CASE i \in DOMAIN sent /\ sent'[i] = sent[i]
    <3>1. Coded(sent[i])
      BY <2>1
    <3>2. \E n \in DOMAIN cmds' : Names(sent[i], cmds'[n])
      BY <2>1, <3>1, NamesStay DEF AnswerInv
    <3> QED
      BY <2>1, <3>2
  <2>2. CASE i = Len(sent) + 1 /\ sent'[i] = x
    BY <1>1, <1>2, <1>5, <2>2
  <2>3. CASE sent' = sent
    BY <2>1, <2>3
  <2>4. CASE sent' = Append(sent, x)
    BY <1>1, <1>6, <2>1, <2>2, <2>4
  <2> QED
    BY <1>3, <2>3, <2>4 DEF Adds
<1>8. OnceInv'
  <2> SUFFICES ASSUME failures = 0, sent' = Append(sent, x), NEW n \in DOMAIN cmds', MustAnswer(cmds'[n])
               PROVE  \E i \in DOMAIN sent' : AckOfIs(n, i)'
    BY <1>4 DEF OnceInv, MustAnswer
  <2>1. \A j \in 1 .. Len(sent) : Coded(sent[j]) => sent[j].msg.mid \in 1 .. Len(cmds)
    <3> SUFFICES ASSUME NEW j \in 1 .. Len(sent), Coded(sent[j])
                 PROVE  sent[j].msg.mid \in 1 .. Len(cmds)
      OBVIOUS
    <3>1. PICK k \in DOMAIN cmds : Names(sent[j], cmds[k])
      BY <1>1 DEF AnswerInv, AckInv
    <3> QED
      BY <1>1, <3>1 DEF Names, LogInv
  <2>2. CASE n \in 1 .. Len(cmds)
    <3>1. MustAnswer(cmds[n])
      BY <1>5, <2>2
    <3>2. PICK i \in DOMAIN sent : AckOfIs(n, i)
      BY <1>1, <2>2, <3>1 DEF AnswerInv, OnceInv
    <3>3. ASSUME NEW j \in DOMAIN sent'
          PROVE  (Coded(sent'[j]) /\ sent'[j].msg.mid = n) <=> j = i
      <4>1. CASE j \in 1 .. Len(sent)
        <5>1. (Coded(sent[j]) /\ sent[j].msg.mid = n) <=> j = i
          BY <1>1, <3>2, <4>1 DEF AckOfIs
        <5>2. sent'[j] = sent[j]
          BY <1>6, <4>1
        <5> QED
          BY <5>1, <5>2
      <4>2. CASE j = Len(sent) + 1
        BY <1>1, <1>2, <1>6, <2>2, <3>2, <4>2
      <4> QED
        BY <1>1, <1>6, <4>1, <4>2
    <3>4. i \in DOMAIN sent'
      BY <1>1, <1>6
    <3> QED
      BY <3>3, <3>4 DEF AckOfIs, Coded
  <2>3. CASE n = Len(cmds) + 1
    <3> DEFINE i == Len(sent) + 1
    <3>1. ASSUME NEW j \in DOMAIN sent'
          PROVE  (Coded(sent'[j]) /\ sent'[j].msg.mid = n) <=> j = i
      <4>1. CASE j \in 1 .. Len(sent)
        <5>1. sent'[j] = sent[j] /\ j # i
          BY <1>1, <1>6, <4>1
        <5>2. ~(Coded(sent[j]) /\ sent[j].msg.mid = n)
          BY <1>1, <2>1, <2>3, <4>1
        <5> QED
          BY <5>1, <5>2
      <4>2. CASE j = Len(sent) + 1
        BY <1>1, <1>2, <1>6, <2>3, <4>2
      <4> QED
        BY <1>1, <1>6, <4>1, <4>2
    <3>2. i \in DOMAIN sent'
      BY <1>1, <1>6
    <3> HIDE DEF i
    <3> QED
      BY <3>1, <3>2 DEF AckOfIs, Coded
  <2> QED
    BY <1>1, <1>5, <2>2, <2>3
<1> QED
  BY <1>7, <1>8 DEF AnswerInv

LEMMA AnswerStep ==
    ASSUME ~DisenableAutoAck
    PROVE  LogInv /\ AnswerInv /\ [Next]_vars => AnswerInv'
<1> SUFFICES ASSUME LogInv, AnswerInv, [Next]_vars PROVE AnswerInv'
  OBVIOUS
<1>0. ASSUME NEW x, ~Coded(x), Adds(sent, x, sent'), UNCHANGED <<cmds, auto_ack_off>>,
             failures' = 0 => failures = 0
      PROVE  AnswerInv'
  BY <1>0, UncodedKeeps
<1>1. ASSUME UNCHANGED <<sent, cmds, auto_ack_off>>, failures' = 0 => failures = 0
      PROVE  AnswerInv'
  BY <1>1 DEF AnswerInv, AckInv, OnceInv, AckOfIs
<1>2. ASSUME NEW k \in Kinds, NEW p \in Controls, Receive(k, p) PROVE AnswerInv'
  <2>1. PICK c : /\ c.mid = Len(cmds) + 1 /\ cmds' = Append(cmds, c)
                 /\ UNCHANGED <<auto_ack_off, task_run>>
                 /\ IF Acknowledged(c) /\ ~auto_ack_off
                    THEN Publishing(AckTopic(c.ns), AckMessage(c))
                    ELSE \E x : Plain(x) /\ Adds(sent, x, sent')
                 /\ ~Acknowledged(c) => ~MustAnswer(c)
                 /\ task_run /\ (failures' = 0 => failures = 0)
    BY <1>2, ReceiveAdds
  <2>2. CASE Acknowledged(c)
    BY <2>1, <2>2, AckKeeps DEF AnswerInv
  <2>3. CASE ~Acknowledged(c)
    <3>1. PICK x : Plain(x) /\ Adds(sent, x, sent')
      BY <2>1, <2>3
    <3>2. failures' = 0 => failures = 0
      BY <2>1
    <3> QED
      BY <2>1, <2>3, <3>1, <3>2, UncodedKeeps DEF Plain
  <2> QED
    BY <2>2, <2>3
<1>3. CASE Callback
  BY <1>1, <1>3 DEF Callback, AppAcks, service, LogInv
<1>4. CASE Reboot
  BY <1>1, <1>4 DEF Reboot
<1>5. ASSUME NEW mid, ReportBegin(mid) PROVE AnswerInv'
  <2>1. sent' = sent
    BY <1>5, ReportBeginAdds DEF LogInv
  <2>2. failures' = 0 => failures = 0
    BY <1>5, ReportBeginAdds DEF LogInv
  <2> QED
    BY <1>1, <1>5, <2>1, <2>2 DEF ReportBegin, service
<1>6. CASE ReportEnd
  <2>1. PICK x : ~Coded(x) /\ x.topic = "report" /\ Adds(sent, x, sent')
    BY <1>6, ReportEndAdds DEF LogInv
  <2>2. failures' = 0 => failures = 0
    BY <1>6, ReportEndAdds DEF LogInv
  <2> QED
    BY <1>0, <1>6, <2>1, <2>2 DEF ReportEnd, service
<1>7. CASE ReportOther \/ ReportOtaRate
  <2>1. failures' = 0 => failures = 0
    BY <1>7, OtherAdds DEF LogInv
  <2>2. UNCHANGED <<cmds, auto_ack_off>>
    BY <1>7 DEF ReportOther, ReportOtaRate, service
  <2> QED
    BY <1>0, <1>7, <2>1, <2>2, OtherAdds DEF Plain, LogInv
<1>8. CASE Start \/ Stop \/ UNCHANGED vars
  BY <1>1, <1>8 DEF Start, CopiesConfig, Stop, vars, service, history
<1> QED
  BY <1>2, <1>3, <1>4, <1>5, <1>6, <1>7, <1>8 DEF Next

LEMMA AnswerCorrect == ASSUME ~DisenableAutoAck PROVE Spec => [](LogInv /\ AnswerInv)
<1>1. LogInv /\ AnswerInv /\ [Next]_vars => (LogInv /\ AnswerInv)'
  BY LogStep, AnswerStep
<1> QED
  BY <1>1, LogInit, AnswerInit, PTL DEF Spec

\* What is acknowledged is a command that was received, under its own name, on the topic of
\* its namespace, and with OK exactly when the device knows it (aiio_protocol_payload).
THEOREM AcksCorrect == Spec => []AckNamesItsCommand
<1>1. CASE DisenableAutoAck
  <2>1. AckNamesItsCommand
    BY <1>1 DEF AckNamesItsCommand
  <2> QED
    BY <2>1, PTL
<1>2. CASE ~DisenableAutoAck
  <2>1. LogInv /\ AnswerInv => AckNamesItsCommand
    <3> SUFFICES ASSUME LogInv, AnswerInv, NEW i \in DOMAIN sent, Coded(sent[i])
                 PROVE  \E c \in Range(cmds) : Names(sent[i], c)
      BY DEF AckNamesItsCommand, Coded, Names
    <3> QED
      BY DEF AnswerInv, AckInv, Range
  <2> QED
    BY <1>2, <2>1, AnswerCorrect, PTL
<1> QED
  BY <1>1, <1>2

\* Where the service acknowledges, every command that needs it is acknowledged once, unless
\* memory or the client failed (aiio_protocol_payload).
THEOREM OnceCorrect == ASSUME ~DisenableAutoAck PROVE Spec => []AnsweredOnce
<1>1. LogInv /\ AnswerInv => AnsweredOnce
  <2> SUFFICES ASSUME LogInv, AnswerInv, failures = 0, NEW n \in DOMAIN cmds, MustAnswer(cmds[n])
               PROVE  Cardinality({i \in DOMAIN sent :
                          sent[i].msg.mid = cmds[n].mid /\ "code" \in DOMAIN sent[i].msg.payload}) = 1
    BY DEF AnsweredOnce, Range
  <2>1. PICK i \in DOMAIN sent : AckOfIs(n, i)
    BY DEF AnswerInv, OnceInv
  <2>2. cmds[n].mid = n
    BY DEF LogInv
  <2>3. {j \in DOMAIN sent : sent[j].msg.mid = cmds[n].mid /\ "code" \in DOMAIN sent[j].msg.payload} = {i}
    BY <2>1, <2>2 DEF AckOfIs, Coded
  <2> QED
    BY <2>3, FS_Singleton
<1> QED
  BY <1>1, AnswerCorrect, PTL

-----------------------------------------------------------------------------
(* The outputs: the fold of a control over its leaves, leaf by leaf.       *)
\* Induction over the naturals, with a set in the place of a predicate.
LEMMA NatSetInduction ==
    ASSUME NEW G, 0 \in G, \A n \in Nat : n \in G => n + 1 \in G
    PROVE  Nat \subseteq G
<1> DEFINE T == Nat \ G
           R == OpToRel(<, Nat)
<1> SUFFICES ASSUME T # {} PROVE FALSE
  OBVIOUS
<1>1. IsWellFoundedOn(R, Nat)
  BY NatLessThanWellFounded
<1>2. T \subseteq Nat
  OBVIOUS
<1> HIDE DEF T, R
<1>3. PICK x \in T : \A y \in T : <<y, x>> \notin R
  BY <1>1, <1>2, WFMin
<1>4. x \in Nat /\ x # 0 /\ x \notin G
  BY <1>2 DEF T
<1>5. x - 1 \in Nat /\ x - 1 < x /\ (x - 1) + 1 = x
  BY <1>4, SMT
<1>6. x - 1 \in T
  BY <1>4, <1>5 DEF T
<1>7. <<x - 1, x>> \in R
  BY <1>4, <1>5 DEF R, OpToRel
<1> QED
  BY <1>3, <1>6, <1>7

\* A set of numbers up to a bound has a greatest one.
LEMMA MaxIs ==
    ASSUME NEW n \in Nat, NEW S \in SUBSET (1..n), S # {}
    PROVE  Max(S) \in S /\ \A i \in S : i <= Max(S)
<1> DEFINE Has(T) == \E x \in T : \A y \in T : x >= y
           G == {k \in Nat : \A T \in SUBSET (1..k) : T # {} => Has(T)}
<1>1. 0 \in G
  <2>1. \A T \in SUBSET (1..0) : T = {}
    OBVIOUS
  <2> QED
    BY <2>1
<1>2. ASSUME NEW k \in Nat, k \in G PROVE k + 1 \in G
  <2> SUFFICES ASSUME NEW T \in SUBSET (1..k + 1), T # {} PROVE Has(T)
    OBVIOUS
  <2>1. CASE k + 1 \in T
    BY <2>1
  <2>2. CASE k + 1 \notin T
    <3>1. T \in SUBSET (1..k)
      BY <2>2
    <3> QED
      BY <1>2, <3>1
  <2> QED
    BY <2>1, <2>2
<1> HIDE DEF G
<1>3. n \in G
  BY <1>1, <1>2, NatSetInduction
<1>4. Has(S)
  BY <1>3 DEF G
<1>5. Max(S) \in S /\ \A y \in S : Max(S) >= y
  <2> DEFINE Top(x) == \A y \in S : x >= y
  <2>1. \E x \in S : Top(x)
    BY <1>4
  <2>2. Max(S) = CHOOSE x \in S : Top(x)
    BY DEF Max
  <2> HIDE DEF Top
  <2>3. Max(S) \in S /\ Top(Max(S))
    BY <2>1, <2>2
  <2> QED
    BY <2>3 DEF Top
<1> QED
  BY <1>5

LEMMA MaxOfLast ==
    ASSUME NEW k \in Nat, NEW S \in SUBSET (1..k + 1), k + 1 \in S
    PROVE  Max(S) = k + 1
<1>1. k + 1 \in Nat
  OBVIOUS
<1>2. Max(S) \in S /\ \A i \in S : i <= Max(S)
  BY <1>1, MaxIs
<1> DEFINE m == Max(S)
<1>3. m \in 1..k + 1 /\ k + 1 <= m
  BY <1>2
<1> HIDE DEF m
<1>4. m = k + 1
  BY <1>3
<1> QED
  BY <1>4 DEF m

LEMMA SameFunction ==
    ASSUME NEW D, NEW f, NEW g, f = [x \in D |-> f[x]], g = [x \in D |-> g[x]],
           \A x \in D : f[x] = g[x]
    PROVE  f = g
OBVIOUS

\* Sequences put one after the other are a sequence.
LEMMA FlattenIsSeq ==
    ASSUME NEW S, NEW seqs \in Seq(Seq(S))
    PROVE  FlattenSeq(seqs) \in Seq(S)
<1> DEFINE n == Len(seqs)
           Next1(f, i) == IF i = 1 THEN seqs[i] ELSE f[i - 1] \o seqs[i]
           Eq(k, f) == f = [i \in 1..k |-> Next1(f, i)]
           flatten == CHOOSE f : Eq(n, f)
<1>1. n \in Nat /\ \A i \in 1..n : seqs[i] \in Seq(S)
  BY ElementOfSeq
<1>2. CASE n = 0
  <2>1. seqs = <<>>
    BY <1>2, EmptySeq
  <2>2. <<>> \in Seq(S)
    BY EmptySeq
  <2>3. FlattenSeq(seqs) = seqs
    <3>1. Len(seqs) = 0
      BY <1>2
    <3> QED
      BY <3>1, Zenon DEF FlattenSeq
  <2> QED
    BY <2>1, <2>2, <2>3
<1>3. CASE n # 0
  <2>1. FlattenSeq(seqs) = flatten[n]
    BY <1>3 DEF FlattenSeq
  <2> DEFINE G == {k \in Nat : \E f : Eq(k, f)}
  <2>2. 0 \in G
    <3>1. Eq(0, <<>>)
      OBVIOUS
    <3> QED
      BY <3>1
  <2>3. ASSUME NEW k \in Nat, k \in G PROVE k + 1 \in G
    <3>1. PICK f : Eq(k, f)
      BY <2>3
    <3> DEFINE h == [i \in 1..k + 1 |-> IF i <= k THEN f[i] ELSE Next1(f, i)]
    <3>2. ASSUME NEW i \in 1..k + 1 PROVE h[i] = Next1(h, i)
      <4>1. CASE i = 1 /\ i <= k
        BY <3>1, <4>1
      <4>2. CASE i = 1 /\ ~(i <= k)
        BY <4>2
      <4>3. CASE i # 1
        <5>1. i - 1 \in 1..k + 1 /\ i - 1 \in 1..k /\ i - 1 <= k
          BY <4>3
        <5>2. h[i - 1] = f[i - 1]
          BY <5>1
        <5>3. CASE i <= k
          <6>1. i \in 1..k
            BY <5>3
          <6>2. f[i] = Next1(f, i)
            BY <3>1, <6>1
          <6> QED
            BY <4>3, <5>2, <5>3, <6>2
        <5>4. CASE ~(i <= k)
          BY <4>3, <5>2, <5>4
        <5> QED
          BY <5>3, <5>4
      <4> QED
        BY <4>1, <4>2, <4>3
    <3>3. Eq(k + 1, h)
      <4> DEFINE r == [i \in 1..k + 1 |-> Next1(h, i)]
      <4> HIDE DEF Next1
      <4>1. h = [i \in 1..k + 1 |-> h[i]]
        OBVIOUS
      <4> HIDE DEF h
      <4>2. r = [i \in 1..k + 1 |-> r[i]] /\ \A i \in 1..k + 1 : h[i] = r[i]
        BY <3>2
      <4> HIDE DEF r
      <4>3. h = r
        BY <4>1, <4>2, SameFunction
      <4> QED
        BY <4>3 DEF r
    <3> HIDE DEF h, Eq
    <3> QED
      BY <3>3
  <2> HIDE DEF G
  <2>4. n \in G
    BY <1>1, <2>2, <2>3, NatSetInduction
  <2>5. Eq(n, flatten)
    <3>1. \E f : Eq(n, f)
      BY <2>4 DEF G
    <3> HIDE DEF Eq
    <3> QED
      BY <3>1
  <2> HIDE DEF flatten
  <2>6. \A i \in 1..n : flatten[i] = Next1(flatten, i)
    BY <2>5
  <2> DEFINE H == {k \in Nat : k + 1 <= n => flatten[k + 1] \in Seq(S)}
  <2> HIDE DEF n
  <2>7. 0 \in H
    <3>1. 0 + 1 \in 1..n /\ 0 + 1 = 1
      BY <1>1, <1>3
    <3> QED
      BY <1>1, <2>6, <3>1
  <2>8. ASSUME NEW k \in Nat, k \in H PROVE k + 1 \in H
    <3> SUFFICES ASSUME k + 1 + 1 <= n PROVE flatten[k + 1 + 1] \in Seq(S)
      OBVIOUS
    <3>1. k + 1 + 1 \in 1..n /\ k + 1 + 1 # 1 /\ (k + 1 + 1) - 1 = k + 1 /\ k + 1 <= n
      BY <1>1
    <3>2. flatten[k + 1] \in Seq(S) /\ seqs[k + 1 + 1] \in Seq(S)
      BY <1>1, <2>8, <3>1
    <3>3. flatten[k + 1 + 1] = flatten[k + 1] \o seqs[k + 1 + 1]
      BY <2>6, <3>1
    <3> QED
      BY <3>2, <3>3, ConcatProperties
  <2> HIDE DEF H
  <2>9. Nat \subseteq H
    BY <2>7, <2>8, NatSetInduction
  <2>10. n - 1 \in H /\ (n - 1) + 1 = n
    BY <1>1, <1>3, <2>9
  <2> QED
    BY <2>1, <2>10 DEF H
<1> QED
  BY <1>2, <1>3

\* The fold goes from leaf to leaf.
Walk(base, leaves, n, out) ==
    /\ out[0] = base
    /\ \A k \in 1..n : out[k] = cloud_control_cb(out[k - 1], leaves[k])

LEMMA FoldWalks ==
    ASSUME NEW base, NEW leaves, NEW n \in Nat, DOMAIN leaves = 1..n
    PROVE  \E out : Walk(base, leaves, n, out) /\ FoldLeft(cloud_control_cb, base, leaves) = out[n]
<1> DEFINE Over(f, s) ==
               IF s = {} THEN base ELSE cloud_control_cb(f[s \ {Max(s)}], leaves[Max(s)])
           Eq(k, f) == f = [s \in SUBSET (1..k) |-> Over(f, s)]
           iter == CHOOSE f : Eq(n, f)
           G == {k \in Nat : \E f : Eq(k, f)}
<1>1. FoldLeft(cloud_control_cb, base, leaves) = iter[1..n]
  BY DEF FoldLeft, MapThenFoldSet
<1>2. 0 \in G
  <2> DEFINE f == [s \in SUBSET (1..0) |-> base]
  <2>1. \A s \in SUBSET (1..0) : s = {}
    OBVIOUS
  <2>2. Eq(0, f)
    BY <2>1
  <2> HIDE DEF f, Eq
  <2> QED
    BY <2>2
<1>3. ASSUME NEW k \in Nat, k \in G PROVE k + 1 \in G
  <2>1. PICK f : Eq(k, f)
    BY <1>3
  <2> DEFINE h == [s \in SUBSET (1..k + 1) |->
                     IF k + 1 \in s THEN cloud_control_cb(f[s \ {k + 1}], leaves[k + 1]) ELSE f[s]]
  <2>2. ASSUME NEW s \in SUBSET (1..k + 1) PROVE h[s] = Over(h, s)
    <3>1. CASE s = {}
      <4>1. s \in SUBSET (1..k) /\ k + 1 \notin s
        BY <3>1
      <4> QED
        BY <2>1, <3>1, <4>1
    <3>2. CASE k + 1 \in s
      <4>1. Max(s) = k + 1 /\ s # {}
        BY <3>2, MaxOfLast
      <4>2. /\ s \ {k + 1} \in SUBSET (1..k + 1) /\ s \ {k + 1} \in SUBSET (1..k)
            /\ k + 1 \notin s \ {k + 1}
        OBVIOUS
      <4>3. h[s \ {k + 1}] = f[s \ {k + 1}]
        BY <4>2
      <4>4. h[s] = cloud_control_cb(f[s \ {k + 1}], leaves[k + 1])
        BY <3>2
      <4> HIDE DEF h
      <4> QED
        BY <4>1, <4>3, <4>4
    <3>3. CASE k + 1 \notin s /\ s # {}
      <4>1. s \in SUBSET (1..k)
        BY <3>3
      <4>2. s \ {Max(s)} \in SUBSET (1..k) /\ s \ {Max(s)} \in SUBSET (1..k + 1)
            /\ k + 1 \notin s \ {Max(s)}
        BY <3>3, <4>1
      <4>3. h[s] = f[s] /\ h[s \ {Max(s)}] = f[s \ {Max(s)}]
        BY <3>3, <4>2
      <4> HIDE DEF h
      <4>4. f[s] = Over(f, s)
        BY <2>1, <4>1
      <4> QED
        BY <3>3, <4>3, <4>4
    <3> QED
      BY <3>1, <3>2, <3>3
  <2>3. Eq(k + 1, h)
    <3> DEFINE r == [s \in SUBSET (1..k + 1) |-> Over(h, s)]
    <3> HIDE DEF Over
    <3>1. h = [s \in SUBSET (1..k + 1) |-> h[s]]
      OBVIOUS
    <3> HIDE DEF h
    <3>2. r = [s \in SUBSET (1..k + 1) |-> r[s]] /\ \A s \in SUBSET (1..k + 1) : h[s] = r[s]
      BY <2>2
    <3> HIDE DEF r
    <3>3. h = r
      BY <3>1, <3>2, SameFunction
    <3> QED
      BY <3>3 DEF r
  <2> HIDE DEF h, Eq
  <2> QED
    BY <2>3
<1> HIDE DEF G
<1>4. n \in G
  BY <1>2, <1>3, NatSetInduction
<1>5. Eq(n, iter)
  <2>1. \E f : Eq(n, f)
    BY <1>4 DEF G
  <2> HIDE DEF Eq
  <2> QED
    BY <2>1
<1> HIDE DEF iter
<1> DEFINE out == [k \in 0..n |-> iter[1..k]]
<1>6. \A s \in SUBSET (1..n) : iter[s] = Over(iter, s)
  <2> HIDE DEF Over
  <2> QED
    BY <1>5
<1>7. out[0] = base
  <2>1. out[0] = iter[{}] /\ {} \in SUBSET (1..n)
    OBVIOUS
  <2> QED
    BY <1>6, <2>1
<1>8. ASSUME NEW k \in 1..n PROVE out[k] = cloud_control_cb(out[k - 1], leaves[k])
  <2>1. out[k] = iter[1..k] /\ out[k - 1] = iter[1..k - 1]
    OBVIOUS
  <2> DEFINE s == 1..k
  <2>2. s \in SUBSET (1..n) /\ s # {} /\ s \ {k} = 1..k - 1
    OBVIOUS
  <2>3. Max(s) = k
    <3>1. k - 1 \in Nat /\ (k - 1) + 1 = k /\ k \in s
      OBVIOUS
    <3> QED
      BY <3>1, MaxOfLast
  <2> HIDE DEF s, out
  <2>4. iter[s] = Over(iter, s)
    BY <1>6, <2>2
  <2>5. iter[s] = cloud_control_cb(iter[1..k - 1], leaves[k])
    BY <2>2, <2>3, <2>4
  <2> QED
    BY <2>1, <2>5 DEF s
<1>9. FoldLeft(cloud_control_cb, base, leaves) = out[n]
  BY <1>1
<1> HIDE DEF out
<1> QED
  BY <1>7, <1>8, <1>9 DEF Walk

Channels == Pids \ {1}

LEMMA LeavesAreSeq ==
    ASSUME NEW items \in Seq(Items)
    PROVE  Leaves(items) \in Seq(Items)
<1> DEFINE Part(i) == IF items[i].type = "object" THEN items[i].inside
                      ELSE IF items[i].type = "null" THEN <<>> ELSE <<items[i]>>
           seqs == [i \in DOMAIN items |-> Part(i)]
<1>1. Leaves(items) = FlattenSeq(seqs)
  BY DEF Leaves
<1>2. Len(items) \in Nat /\ DOMAIN items = 1..Len(items) /\ \A i \in 1..Len(items) : items[i] \in Items
  BY LenProperties, ElementOfSeq
<1>3. \A i \in 1..Len(items) : Part(i) \in Seq(Items)
  <2> SUFFICES ASSUME NEW i \in 1..Len(items) PROVE Part(i) \in Seq(Items)
    OBVIOUS
  <2>0. items[i] \in Items
    BY <1>2
  <2> DEFINE x == items[i]
  <2> HIDE DEF x
  <2>1. CASE x.type = "object"
    <3>1. x.inside \in Seq(Values)
      BY <2>0, <2>1 DEF Items, Values, x
    <3>2. Values \subseteq Items
      BY DEF Items
    <3>3. x.inside \in Seq(Items)
      BY <3>1, <3>2, SeqMonotonic
    <3> QED
      BY <2>1, <3>3 DEF x
  <2>2. CASE x.type # "object"
    BY <2>0, <2>2 DEF x
  <2> QED
    BY <2>1, <2>2
<1> HIDE DEF Part
<1>4. seqs \in Seq(Seq(Items))
  BY <1>2, <1>3
<1> QED
  BY <1>1, <1>4, FlattenIsSeq

\* A leaf sets the output it names and no other.
Outputs(out) == DOMAIN out = {"light", "duty"} /\ DOMAIN out.duty = Channels

LEMMA LeafSets ==
    ASSUME NEW out, Outputs(out), NEW leaf
    PROVE  LET next == cloud_control_cb(out, leaf)
           IN  /\ Outputs(next)
               /\ next.light = IF leaf.pid = 1 THEN Lit(ValueOf(leaf)) ELSE out.light
               /\ \A p \in Channels :
                    next.duty[p] = IF leaf.pid = p THEN ValueOf(leaf) ELSE out.duty[p]
<1> DEFINE next == cloud_control_cb(out, leaf)
           v == ValueOf(leaf)
<1> HIDE DEF v
<1>1. 1 \notin Channels
  BY DEF Channels
<1>2. CASE leaf.pid = 1
  <2>1. next = [out EXCEPT !.light = Lit(v)]
    BY <1>2 DEF cloud_control_cb, v
  <2> QED
    BY <1>1, <1>2, <2>1 DEF Outputs, v
<1>3. CASE leaf.pid \in Channels
  <2> DEFINE d == [out.duty EXCEPT ![leaf.pid] = v]
  <2>1. next = [out EXCEPT !.duty = d]
    BY <1>1, <1>3 DEF cloud_control_cb, set_RGB_pwm, Outputs, v
  <2>2. DOMAIN d = Channels /\ \A p \in Channels : d[p] = IF leaf.pid = p THEN v ELSE out.duty[p]
    BY <1>3 DEF Outputs
  <2> HIDE DEF d
  <2>3. DOMAIN next = {"light", "duty"} /\ next.duty = d /\ next.light = out.light
    BY <2>1 DEF Outputs
  <2> QED
    BY <1>1, <1>3, <2>2, <2>3 DEF Outputs, v
<1>4. CASE leaf.pid # 1 /\ leaf.pid \notin Channels
  BY <1>4 DEF cloud_control_cb, Outputs
<1> QED
  BY <1>2, <1>3, <1>4

\* Along the walk an output is what the last leaf so far told it, or what it was.
Kept(base, leaves, k, out) ==
    /\ (\A j \in 1..k : leaves[j].pid # 1) => out.light = base.light
    /\ \A p \in Channels : (\A j \in 1..k : leaves[j].pid # p) => out.duty[p] = base.duty[p]
LastOf(leaves, k, i) == \A j \in 1..k : j > i => leaves[j].pid # leaves[i].pid
Set(leaves, k, out) ==
    \A i \in 1..k : LastOf(leaves, k, i) =>
        /\ leaves[i].pid = 1 => out.light = Lit(ValueOf(leaves[i]))
        /\ leaves[i].pid \in Channels => out.duty[leaves[i].pid] = ValueOf(leaves[i])

LEMMA WalkSets ==
    ASSUME NEW base, Outputs(base), NEW leaves, NEW n \in Nat, NEW out, Walk(base, leaves, n, out)
    PROVE  Outputs(out[n]) /\ Kept(base, leaves, n, out[n]) /\ Set(leaves, n, out[n])
<1> DEFINE Told1(k) == Outputs(out[k]) /\ Kept(base, leaves, k, out[k]) /\ Set(leaves, k, out[k])
           G == {k \in Nat : k <= n => Told1(k)}
<1>1. 0 \in G
  <2>1. out[0] = base
    BY DEF Walk
  <2> QED
    BY <2>1 DEF Kept, Set
<1>2. ASSUME NEW k \in Nat, k \in G PROVE k + 1 \in G
  <2> SUFFICES ASSUME k + 1 <= n PROVE Told1(k + 1)
    OBVIOUS
  <2>1. k + 1 \in 1..n /\ (k + 1) - 1 = k /\ k <= n
    OBVIOUS
  <2>2. Told1(k)
    BY <1>2, <2>1
  <2>3. out[k + 1] = cloud_control_cb(out[k], leaves[k + 1])
    BY <2>1 DEF Walk
  <2> DEFINE now == out[k]   then == out[k + 1]   leaf == leaves[k + 1]
  <2>4. /\ Outputs(then)
        /\ then.light = IF leaf.pid = 1 THEN Lit(ValueOf(leaf)) ELSE now.light
        /\ \A p \in Channels : then.duty[p] = IF leaf.pid = p THEN ValueOf(leaf) ELSE now.duty[p]
    <3>1. Outputs(now)
      BY <2>2
    <3>2. then = cloud_control_cb(now, leaf)
      BY <2>3
    <3> HIDE DEF now, then, leaf, Told1, G
    <3> QED
      BY <3>1, <3>2, LeafSets
  <2> HIDE DEF now, then, leaf
  <2>5. \A j \in 1..k : j \in 1..k + 1
    OBVIOUS
  <2>6. k + 1 \in 1..k + 1 /\ leaves[k + 1] = leaf
    BY DEF leaf
  <2>7. Kept(base, leaves, k + 1, then)
    <3>1. Kept(base, leaves, k, now)
      BY <2>2 DEF now
    <3> HIDE DEF Told1, G
    <3>2. ASSUME \A j \in 1..k + 1 : leaves[j].pid # 1
          PROVE  then.light = base.light
      <4>1. leaf.pid # 1 /\ \A j \in 1..k : leaves[j].pid # 1
        BY <2>5, <2>6, <3>2
      <4>2. now.light = base.light
        BY <3>1, <4>1 DEF Kept
      <4> QED
        BY <2>4, <4>1, <4>2
    <3>3. ASSUME NEW p \in Channels, \A j \in 1..k + 1 : leaves[j].pid # p
          PROVE  then.duty[p] = base.duty[p]
      <4>1. leaf.pid # p /\ \A j \in 1..k : leaves[j].pid # p
        BY <2>5, <2>6, <3>3
      <4>2. now.duty[p] = base.duty[p]
        BY <3>1, <4>1 DEF Kept
      <4> QED
        BY <2>4, <4>1, <4>2
    <3> QED
      BY <3>2, <3>3 DEF Kept
  <2>8. Set(leaves, k + 1, then)
    <3> SUFFICES ASSUME NEW i \in 1..k + 1, LastOf(leaves, k + 1, i)
                 PROVE  /\ leaves[i].pid = 1 => then.light = Lit(ValueOf(leaves[i]))
                        /\ leaves[i].pid \in Channels => then.duty[leaves[i].pid] = ValueOf(leaves[i])
      BY DEF Set
    <3>1. CASE i = k + 1
      BY <2>4, <2>6, <3>1
    <3>2. CASE i \in 1..k
      <4>1. LastOf(leaves, k, i) /\ leaf.pid # leaves[i].pid
        BY <2>5, <2>6, <3>2 DEF LastOf
      <4>2. /\ leaves[i].pid = 1 => now.light = Lit(ValueOf(leaves[i]))
            /\ leaves[i].pid \in Channels => now.duty[leaves[i].pid] = ValueOf(leaves[i])
        BY <2>2, <3>2, <4>1 DEF Set, now
      <4> QED
        BY <2>4, <4>1, <4>2
    <3> QED
      BY <3>1, <3>2
  <2> QED
    BY <2>4, <2>7, <2>8 DEF then
<1> HIDE DEF G
<1>3. n \in G
  BY <1>1, <1>2, NatSetInduction
<1> QED
  BY <1>3 DEF G

\* What a control leaves: every output of a pid that was ever told is what it was told last.
LEMMA ControlTells ==
    ASSUME DOMAIN duty = Channels, DOMAIN want \subseteq Pids, OutputsAreLastTold,
           NEW items \in Seq(Items), Control(items)
    PROVE  DOMAIN duty' = Channels /\ DOMAIN want' \subseteq Pids /\ OutputsAreLastTold'
<1> DEFINE leaves == Leaves(items)
           base == [light |-> light, duty |-> duty]
           n == Len(leaves)
           at(p) == {i \in DOMAIN leaves : leaves[i].pid = p}
<1>1. leaves \in Seq(Items) /\ n \in Nat /\ DOMAIN leaves = 1..n
  BY LeavesAreSeq, LenProperties
<1> HIDE DEF leaves, n
<1>2. Outputs(base) /\ base.light = light /\ base.duty = duty
  BY DEF Outputs
<1>3. /\ light' = FoldLeft(cloud_control_cb, base, leaves).light
      /\ duty' = FoldLeft(cloud_control_cb, base, leaves).duty
      /\ want' = Told(leaves)
  BY DEF Control, leaves
<1> HIDE DEF base
<1>4. PICK out : Walk(base, leaves, n, out) /\ FoldLeft(cloud_control_cb, base, leaves) = out[n]
  BY <1>1, FoldWalks
<1>5. Outputs(out[n]) /\ Kept(base, leaves, n, out[n]) /\ Set(leaves, n, out[n])
  BY <1>1, <1>2, <1>4, WalkSets
<1>6. light' = out[n].light /\ duty' = out[n].duty
  BY <1>3, <1>4
<1>7. /\ DOMAIN want' = DOMAIN want \cup ({leaves[i].pid : i \in DOMAIN leaves} \cap Pids)
      /\ \A p \in DOMAIN want' :
            want'[p] = IF at(p) = {} THEN want[p]
                       ELSE ValueOf(leaves[CHOOSE i \in at(p) : \A j \in at(p) : j <= i])
  BY <1>3 DEF Told
<1>8. ASSUME NEW p, at(p) # {}
      PROVE  \E i \in 1..n : /\ leaves[i].pid = p /\ LastOf(leaves, n, i)
                             /\ (CHOOSE j \in at(p) : \A m \in at(p) : m <= j) = i
  <2> DEFINE mine == at(p)
             i == CHOOSE j \in mine : \A m \in mine : m <= j
  <2>1. mine \in SUBSET (1..n) /\ mine # {}
    BY <1>1, <1>8
  <2>2. \A j \in 1..n : leaves[j].pid = p => j \in mine
    BY <1>1
  <2>3. \A j \in mine : leaves[j].pid = p
    OBVIOUS
  <2>4. i = (CHOOSE j \in at(p) : \A m \in at(p) : m <= j)
    OBVIOUS
  <2> HIDE DEF mine
  <2>5. i \in mine /\ \A m \in mine : m <= i
    <3>1. \E j \in mine : \A m \in mine : m <= j
      BY <1>1, <2>1, MaxIs
    <3> QED
      BY <3>1
  <2> HIDE DEF i
  <2>6. i \in 1..n /\ leaves[i].pid = p
    BY <2>1, <2>3, <2>5
  <2>7. \A j \in 1..n : j > i => leaves[j].pid # p
    <3> SUFFICES ASSUME NEW j \in 1..n, j > i, leaves[j].pid = p PROVE FALSE
      OBVIOUS
    <3>1. j <= i
      BY <2>2, <2>5
    <3> QED
      BY <1>1, <2>6, <3>1
  <2> QED
    BY <2>4, <2>6, <2>7 DEF LastOf
<1>9. ASSUME NEW p, at(p) = {} PROVE \A j \in 1..n : leaves[j].pid # p
  BY <1>1, <1>9
<1>10. ASSUME NEW p \in DOMAIN want', at(p) = {} PROVE p \in DOMAIN want /\ want'[p] = want[p]
  <2>1. p \notin {leaves[i].pid : i \in DOMAIN leaves}
    BY <1>10
  <2> QED
    BY <1>7, <1>10, <2>1
<1>11. ASSUME NEW p \in DOMAIN want', at(p) # {}
       PROVE  \E i \in 1..n : /\ leaves[i].pid = p /\ LastOf(leaves, n, i)
                              /\ want'[p] = ValueOf(leaves[i])
  <2> DEFINE v(i) == ValueOf(leaves[i])
  <2>1. want'[p] = v(CHOOSE i \in at(p) : \A j \in at(p) : j <= i)
    BY <1>7, <1>11
  <2> HIDE DEF v
  <2>2. PICK i \in 1..n : /\ leaves[i].pid = p /\ LastOf(leaves, n, i)
                          /\ (CHOOSE j \in at(p) : \A m \in at(p) : m <= j) = i
    BY <1>8, <1>11
  <2>3. want'[p] = v(i)
    BY <2>1, <2>2
  <2> QED
    BY <2>2, <2>3 DEF v
<1> HIDE DEF at
<1>12. ASSUME 1 \in DOMAIN want' PROVE light' = Lit(want'[1])
  <2>1. CASE at(1) = {}
    <3>1. light' = base.light
      BY <1>5, <1>6, <1>9, <2>1 DEF Kept
    <3>2. light = Lit(want[1]) /\ want'[1] = want[1]
      BY <1>10, <1>12, <2>1 DEF OutputsAreLastTold
    <3> QED
      BY <1>2, <3>1, <3>2
  <2>2. CASE at(1) # {}
    <3>1. PICK i \in 1..n : /\ leaves[i].pid = 1 /\ LastOf(leaves, n, i)
                            /\ want'[1] = ValueOf(leaves[i])
      BY <1>11, <1>12, <2>2
    <3>2. out[n].light = Lit(ValueOf(leaves[i]))
      BY <1>5, <3>1 DEF Set
    <3> QED
      BY <1>6, <3>1, <3>2
  <2> QED
    BY <2>1, <2>2
<1>13. ASSUME NEW p \in DOMAIN want' \ {1}, p \in Pids PROVE duty'[p] = want'[p]
  <2>0. p \in Channels
    BY <1>13 DEF Channels
  <2>1. CASE at(p) = {}
    <3>1. duty'[p] = base.duty[p]
      BY <1>5, <1>6, <1>9, <2>0, <2>1 DEF Kept
    <3>2. p \in DOMAIN want /\ want'[p] = want[p]
      BY <1>10, <2>1
    <3>3. duty[p] = want[p]
      BY <3>2 DEF OutputsAreLastTold
    <3> QED
      BY <1>2, <3>1, <3>2, <3>3
  <2>2. CASE at(p) # {}
    <3>1. PICK i \in 1..n : /\ leaves[i].pid = p /\ LastOf(leaves, n, i)
                            /\ want'[p] = ValueOf(leaves[i])
      BY <1>11, <2>2
    <3>2. out[n].duty[p] = ValueOf(leaves[i])
      BY <1>5, <2>0, <3>1 DEF Set
    <3> QED
      BY <1>6, <3>1, <3>2
  <2> QED
    BY <2>1, <2>2
<1>14. DOMAIN duty' = Channels /\ DOMAIN want' \subseteq Pids
  BY <1>5, <1>6, <1>7 DEF Outputs
<1>15. OutputsAreLastTold'
  BY <1>12, <1>13, <1>14 DEF OutputsAreLastTold
<1> QED
  BY <1>14, <1>15

OutInv == /\ DOMAIN duty = Channels /\ DOMAIN want \subseteq Pids
          /\ cmd.payload \in Seq(Items)
          /\ OutputsAreLastTold

LEMMA OutputsInit == Init => OutInv
<1> SUFFICES ASSUME Init PROVE OutInv
  OBVIOUS
<1>1. duty = [p \in Pids \ {1} |-> 0] /\ want = <<>> /\ cmd = NoCmd
  BY DEF Init
<1>2. DOMAIN want = {}
  BY <1>1
<1>3. cmd.payload = <<>> /\ <<>> \in Seq(Items)
  BY <1>1, EmptySeq DEF NoCmd
<1>4. DOMAIN duty = Channels
  BY <1>1 DEF Channels
<1> QED
  BY <1>2, <1>3, <1>4 DEF OutInv, OutputsAreLastTold

LEMMA OutputsStep == OutInv /\ [Next]_vars => OutInv'
<1> SUFFICES ASSUME OutInv, [Next]_vars PROVE OutInv'
  OBVIOUS
<1>0. ASSUME UNCHANGED <<light, duty, want, cmd>> PROVE OutInv'
  BY <1>0 DEF OutInv, OutputsAreLastTold
<1>1. ASSUME NEW k \in Kinds, NEW p \in Controls, Receive(k, p) PROVE OutInv'
  <2>1. cmd'.payload = p /\ p \in Seq(Items)
    BY <1>1, ControlAssumption DEF Receive
  <2>2. UNCHANGED <<light, duty, want>>
    BY <1>1 DEF Receive, outputs
  <2> QED
    BY <2>1, <2>2 DEF OutInv, OutputsAreLastTold
<1>2. CASE Callback
  <2>1. UNCHANGED cmd
    BY <1>2 DEF Callback
  <2>2. Effect \/ UNCHANGED <<light, duty, want>>
    BY <1>2 DEF Callback, outputs
  <2>3. Control(cmd.payload) \/ UNCHANGED <<light, duty, want>>
    BY <2>2 DEF Effect, SetTime, outputs
  <2>4. CASE Control(cmd.payload)
    <3>1. DOMAIN duty' = Channels /\ DOMAIN want' \subseteq Pids /\ OutputsAreLastTold'
      BY <2>4, ControlTells DEF OutInv
    <3> QED
      BY <2>1, <3>1 DEF OutInv
  <2> QED
    BY <1>0, <2>1, <2>3, <2>4
<1>3. CASE Reboot
  <2>1. want' = <<>> /\ DOMAIN duty' = DOMAIN duty /\ cmd' = cmd
    BY <1>3 DEF Reboot
  <2>2. DOMAIN want' = {}
    BY <2>1
  <2> QED
    BY <2>1, <2>2 DEF OutInv, OutputsAreLastTold
<1>4. ASSUME NEW mid, ReportBegin(mid) PROVE OutInv'
  BY <1>0, <1>4 DEF ReportBegin, mqtt, outputs
<1>5. CASE ReportEnd
  BY <1>0, <1>5 DEF ReportEnd, mqtt, outputs
<1>6. CASE ReportOther
  BY <1>0, <1>6 DEF ReportOther, mqtt, outputs
<1>7. CASE ReportOtaRate
  BY <1>0, <1>7 DEF ReportOtaRate, mqtt, outputs
<1>8. CASE Start
  BY <1>0, <1>8 DEF Start, mqtt, outputs, history
<1>9. CASE Stop
  BY <1>0, <1>9 DEF Stop, mqtt, outputs, history
<1>10. CASE UNCHANGED vars
  BY <1>0, <1>10 DEF vars, mqtt, outputs, history
<1> QED
  BY <1>1, <1>2, <1>3, <1>4, <1>5, <1>6, <1>7, <1>8, <1>9, <1>10 DEF Next

\* The lamp and the colours are what the last leaf naming them said, for controls of any
\* length, however their values are spread over objects, and whatever fails between them:
\* analyzeJson, cloud_control_cb, set_RGB_pwm.
THEOREM OutputsCorrect == Spec => []OutputsAreLastTold
<1>1. OutInv => OutputsAreLastTold
  BY DEF OutInv
<1> QED
  BY <1>1, OutputsInit, OutputsStep, PTL DEF Spec
===============================================================================
