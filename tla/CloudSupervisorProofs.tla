----------------------- MODULE CloudSupervisorProofs -----------------------
(***************************************************************************)
(* Theorems about CloudSupervisor, for any networks, lengths of the queues *)
(* and limits of disconnections.                                           *)
(***************************************************************************)
EXTENDS CloudSupervisor, SequenceTheorems, TLAPS

-----------------------------------------------------------------------------
(* What an action leaves alone, task by task.                              *)

\* The wifi event task changes its own flags, takes from its queue and posts.
LEMMA WifiTaskFrame ==
    WifiTask => UNCHANGED <<sup, wifi_sta, sta_local, flagVars, sta_started, wifi_config, link, link_net,
                            wifi_lost, svcVars, cbVars, bleVars, trouble>>
BY DEF WifiTask, CountDisconnect, DecideDown, PostWifiFail, PostWifiRetry, ConnectDown, StartDown, GotIp,
   PostGotIp, FlagsUp, Post, supVars, wifiVars, history

\* The session's callbacks change cloud_connect and post.
LEMMA SessionFrame ==
    SessionStep => UNCHANGED <<sup, wifi_sta, sta_local, flagVars, linkFlags, wifiVars, wifi_pc,
                               service_init_state, bleVars>>
BY DEF SessionStep, ReportFailure, ReportDisconnect, ReportProgress, ReportOnline, Reports,
   PostReport, CallbackUnchanged, AfterReport, SessionEnds, Restore, PostRestore, AfterRestore,
   Post, supVars, svcVars, history

\* The phone and the BLE worker change the provisioning state and post.
LEMMA BleFrame ==
    BleStep => UNCHANGED <<sup, wifi_sta, sta_local, flagVars, linkFlags, wifiVars, wifi_pc, svcVars,
                           cbVars>>
BY DEF BleStep, PhoneLinks, PhoneFails, PhoneLeaves, PostBle, PhoneSends, Post, supVars, history

\* The firmware changes the link and posts to the wifi event task.
LEMMA FirmwareFrame ==
    Associate \/ LinkFails =>
        UNCHANGED <<supVars, flagVars, linkFlags, sta_started, wifi_config, link_net, wifi_pc, svcVars,
                    cbVars, bleVars, lost>>
BY DEF Associate, LinkFails, history

-----------------------------------------------------------------------------
(* The queue of the supervisor.                                            *)

\* Taking from a sequence shortens it; appending to it keeps it a sequence of the same set.
LEMMA TailType ==
    ASSUME NEW S, NEW q \in Seq(S), q # <<>>
    PROVE  Tail(q) \in Seq(S) /\ Len(Tail(q)) = Len(q) - 1 /\ Len(q) \in Nat /\ Len(Tail(q)) \in Nat
BY HeadTailProperties, LenProperties

LEMMA AppendType ==
    ASSUME NEW S, NEW q \in Seq(S), NEW e \in S
    PROVE  Append(q, e) \in Seq(S) /\ Len(Append(q, e)) = Len(q) + 1 /\ Len(q) \in Nat
BY AppendProperties, LenProperties

Posts(q, e) == e \in Events /\ Len(q) < QueueMax /\ queue' = Append(q, e)

\* A step posts one event, if there is room, or takes the first, and may then post one.
LEMMA QueueStep ==
    ASSUME [Next]_vars, TypeOK
    PROVE  \/ queue' = queue
           \/ \E e \in Events : Posts(queue, e)
           \/ queue # <<>> /\ queue' = Tail(queue)
           \/ queue # <<>> /\ \E e \in Events : Posts(Tail(queue), e)
<1> USE DEF TypeOK, TypeSupervisor
<1>1. CASE Supervise
  BY <1>1, BoundAssumption DEF Supervise, ConfigStart, DeinitStart, BleStart, ConfigData, WifiConnected, CloudConnected,
   CloudOnline, CloudDisconnected, DeinitDone, ConfigEnds, ConfigStops, BleStopped, ConfigOkDone, ConfigFailDone,
   BleDisconnected, BleDisconnectedDone, Takes, Rest, Repost, Full, Posts, Events
<1>2. CASE WifiTask
  BY <1>2, BoundAssumption DEF WifiTask, CountDisconnect, DecideDown, PostWifiFail, PostWifiRetry, ConnectDown, StartDown, GotIp,
   PostGotIp, FlagsUp, Post, Full, supVars, Posts, Events
<1>3. CASE SessionStep
  BY <1>3, BoundAssumption DEF SessionStep, ReportFailure, ReportDisconnect, ReportProgress, ReportOnline, Reports,
   PostReport, AfterReport, SessionEnds, Restore, PostRestore, AfterRestore,
   Post, Full, supVars, Posts, Events
<1>4. CASE BleStep
  BY <1>4, BoundAssumption DEF BleStep, PhoneLinks, PhoneFails, PhoneLeaves, PostBle, PhoneSends, Post, Full, supVars,
   Posts, Events, TypeBle
<1>5. CASE Associate \/ LinkFails \/ UNCHANGED vars
  BY <1>5, FirmwareFrame DEF supVars, vars
<1> QED
  BY <1>1, <1>2, <1>3, <1>4, <1>5 DEF Next

-----------------------------------------------------------------------------
(* The type invariant, group by group.                                     *)

LEMMA TypeSupervisorStep == TypeOK /\ [Next]_vars => TypeSupervisor'
<1> SUFFICES ASSUME TypeOK, [Next]_vars PROVE TypeSupervisor'
  OBVIOUS
<1>1. queue' \in Seq(Events) /\ Len(queue') <= QueueMax
  <2> USE BoundAssumption DEF TypeOK, TypeSupervisor
  <2>1. CASE queue' = queue
    BY <2>1
  <2>2. CASE \E e \in Events : Posts(queue, e)
    BY <2>2, AppendType DEF Posts
  <2>3. CASE queue # <<>> /\ queue' = Tail(queue)
    BY <2>3, TailType
  <2>4. CASE queue # <<>> /\ \E e \in Events : Posts(Tail(queue), e)
    BY <2>4, TailType, AppendType DEF Posts
  <2> QED
    BY <2>1, <2>2, <2>3, <2>4, QueueStep
<1>2. sup' \in Waits /\ ble_config_start' \in BOOLEAN /\ wifi_config_start' \in BOOLEAN
      /\ wifi_sta' \in Names /\ sta_local' \in BOOLEAN
  <2> USE DEF TypeOK, TypeSupervisor
  <2>1. CASE Supervise
    BY <2>1 DEF Supervise, ConfigStart, DeinitStart, BleStart, ConfigData, WifiConnected,
       CloudConnected, CloudOnline, CloudDisconnected, DeinitDone, ConfigEnds, ConfigStops, BleStopped,
       ConfigOkDone, ConfigFailDone, BleDisconnected, BleDisconnectedDone, ConfigOver, flagVars, TypeBle, Waits, Names
  <2>2. CASE WifiTask \/ SessionStep \/ BleStep \/ Associate \/ LinkFails \/ UNCHANGED vars
    BY <2>2, WifiTaskFrame, SessionFrame, BleFrame, FirmwareFrame DEF flagVars, supVars, vars
  <2> QED
    BY <2>1, <2>2 DEF Next
<1>3. wifi_connect' \in BOOLEAN /\ wifi_start_connected' \in BOOLEAN
  <2> USE DEF TypeOK, TypeSupervisor
  <2>1. CASE Supervise
    BY <2>1 DEF Supervise, ConfigStart, DeinitStart, BleStart, ConfigData, WifiConnected,
       ConnectWifi, CloudConnected, CloudOnline, CloudDisconnected, DeinitDone, ConfigEnds,
       ConfigStops, BleStopped, ConfigOkDone, ConfigFailDone, BleDisconnected, BleDisconnectedDone, linkFlags
  <2>2. CASE WifiTask
    BY <2>2 DEF WifiTask, CountDisconnect, DecideDown, PostWifiFail, PostWifiRetry, ConnectDown, StartDown,
       BelieveDown, GotIp, PostGotIp, FlagsUp, linkFlags
  <2>3. CASE SessionStep \/ BleStep \/ Associate \/ LinkFails \/ UNCHANGED vars
    BY <2>3, SessionFrame, BleFrame, FirmwareFrame DEF linkFlags, vars
  <2> QED
    BY <2>1, <2>2, <2>3 DEF Next
<1> QED
  BY <1>1, <1>2, <1>3 DEF TypeSupervisor

\* The counter passes its limit by one at most, and only while wifi_config_task decides.
CountBound == wifi_pc \notin {"down", "post_fail"} => wifi_disconnect_count <= MaxDisconnects

LEMMA TypeCountStep == TypeOK /\ CountBound /\ [Next]_vars => TypeCount' /\ CountBound'
<1> SUFFICES ASSUME TypeOK, CountBound, [Next]_vars PROVE TypeCount' /\ CountBound'
  OBVIOUS
<1> USE BoundAssumption DEF TypeOK, TypeCount, CountBound
<1>1. CASE Supervise
  BY <1>1 DEF Supervise, ConfigStart, DeinitStart, BleStart, ConfigData, WifiConnected,
     ConnectWifi, CloudConnected, CloudOnline, CloudDisconnected, DeinitDone, ConfigEnds,
     ConfigStops, BleStopped, ConfigOkDone, ConfigFailDone, BleDisconnected, BleDisconnectedDone, linkFlags
<1>2. CASE WifiTask
  BY <1>2 DEF WifiTask, CountDisconnect, DecideDown, TooMany, PostWifiFail, PostWifiRetry,
     ConnectDown, StartDown, GotIp, PostGotIp, FlagsUp, WifiGoto, linkFlags
<1>3. CASE SessionStep \/ BleStep \/ Associate \/ LinkFails \/ UNCHANGED vars
  BY <1>3, SessionFrame, BleFrame, FirmwareFrame DEF linkFlags, vars
<1> QED
  BY <1>1, <1>2, <1>3 DEF Next

LEMMA NotifyType ==
    ASSUME TypeWifi, NEW e \in {"DISCONNECTED", "GOT_IP"}, Notify(e)
    PROVE  /\ wifi_queue' \in Seq({"DISCONNECTED", "GOT_IP"}) /\ Len(wifi_queue') <= WifiQueueMax
           /\ wifi_lost' \in BOOLEAN
BY BoundAssumption DEF TypeWifi, Notify

LEMMA TypeWifiStep == TypeOK /\ [Next]_vars => TypeWifi'
<1> SUFFICES ASSUME TypeOK, [Next]_vars PROVE TypeWifi'
  OBVIOUS
<1>1. ASSUME WifiStop PROVE (wifi_queue' \in Seq({"DISCONNECTED", "GOT_IP"}) /\ Len(wifi_queue') <= WifiQueueMax
        /\ wifi_lost' \in BOOLEAN /\ sta_started' \in BOOLEAN /\ wifi_config' \in Names
        /\ link' \in {"off", "trying", "up"} /\ link_net' \in Names)
  BY <1>1, NotifyType DEF WifiStop, Disconnected, TypeOK, TypeWifi, wifiVars, Names
<1> USE DEF TypeOK, TypeWifi
<1>2. CASE ConfigStart \/ DeinitStart
  BY <1>1, <1>2 DEF ConfigStart, DeinitStart, wifiVars
<1>3. CASE WifiConnected
  <2>1. CASE UNCHANGED <<wifi_queue, wifi_lost>>
    BY <1>3, <2>1 DEF WifiConnected, ConnectWifi, WifiStart, TypeSupervisor
  <2>2. CASE Disconnected
    BY <1>3, <2>2, NotifyType DEF WifiConnected, ConnectWifi, WifiStart, Disconnected, TypeSupervisor
  <2> QED
    BY <1>3, <2>1, <2>2 DEF WifiConnected, ConnectWifi
<1>4. CASE BleStart \/ ConfigData \/ CloudConnected \/ CloudOnline \/ CloudDisconnected \/ DeinitDone
           \/ ConfigEnds("CONFIG_OK", "config_ok") \/ ConfigStops("config_ok", "ok_stopped") \/ ConfigOkDone
           \/ ConfigEnds("CONFIG_FAIL", "config_fail")
           \/ ConfigStops("config_fail", "fail_stopped") \/ ConfigFailDone
           \/ BleDisconnected \/ BleDisconnectedDone
  BY <1>4 DEF BleStart, ConfigData, CloudConnected, CloudOnline, CloudDisconnected, DeinitDone,
     ConfigEnds, ConfigStops, BleStopped, ConfigOkDone, ConfigFailDone, BleDisconnected, BleDisconnectedDone, wifiVars
<1>5. CASE WifiTask
  <2>1. wifi_pc' \in {"idle", "down", "post_fail", "post_retry", "flags_down", "start_down", "post_up", "flags_up"}
    BY <1>5 DEF WifiTask, CountDisconnect, DecideDown, PostWifiFail, PostWifiRetry, ConnectDown, StartDown,
       GotIp, PostGotIp, FlagsUp, WifiGoto
  <2>2. CASE wifi_queue' = wifi_queue
    BY <1>5, <2>1, <2>2, WifiTaskFrame
  <2>3. CASE wifi_queue # <<>> /\ wifi_queue' = Tail(wifi_queue)
    <3>1. wifi_queue' \in Seq({"DISCONNECTED", "GOT_IP"}) /\ Len(wifi_queue') <= WifiQueueMax
      BY <2>3, TailType, BoundAssumption
    <3> QED
      BY <1>5, <2>1, <3>1, WifiTaskFrame
  <2>4. CASE CountDisconnect \/ GotIp
    BY <2>3, <2>4 DEF CountDisconnect, GotIp
  <2> QED
    BY <1>5, <2>2, <2>4 DEF WifiTask, DecideDown, PostWifiFail, PostWifiRetry, ConnectDown, StartDown,
       PostGotIp, FlagsUp, wifiVars
<1>6. CASE Associate \/ LinkFails
  BY <1>6, NotifyType, FirmwareFrame DEF Associate, LinkFails
<1>7. CASE SessionStep \/ BleStep \/ UNCHANGED vars
  BY <1>7, SessionFrame, BleFrame DEF wifiVars, vars
<1> QED
  BY <1>2, <1>3, <1>4, <1>5, <1>6, <1>7 DEF Next, Supervise

LEMMA TypeSessionStep == TypeOK /\ [Next]_vars => TypeSession'
<1> SUFFICES ASSUME TypeOK, [Next]_vars PROVE TypeSession'
  OBVIOUS
<1> USE DEF TypeOK, TypeSession
<1>1. CASE Supervise
  BY <1>1 DEF Supervise, ConfigStart, DeinitStart, BleStart, ConfigData, WifiConnected,
     CloudConnected, CloudOnline, CloudDisconnected, DeinitDone, ConfigEnds, ConfigStops, BleStopped,
     ConfigOkDone, ConfigFailDone, BleDisconnected, BleDisconnectedDone, Deinit, svcVars, cbVars
<1>2. CASE SessionStep
  <2>1. CASE ReportFailure \/ ReportDisconnect \/ ReportProgress \/ ReportOnline
    BY <2>1 DEF ReportFailure, ReportDisconnect, ReportProgress, ReportOnline, Reports,
       Session!Failures
  <2>2. CASE PostReport \/ AfterReport \/ SessionEnds \/ Restore \/ PostRestore \/ AfterRestore
    BY <2>2 DEF PostReport, CallbackUnchanged, SvcGoto, AfterReport, SessionEnds, Restore,
       PostRestore, AfterRestore, svcVars, cbVars
  <2> QED
    BY <1>2, <2>1, <2>2 DEF SessionStep
<1>3. CASE WifiTask \/ BleStep \/ Associate \/ LinkFails \/ UNCHANGED vars
  BY <1>3, WifiTaskFrame, BleFrame, FirmwareFrame DEF svcVars, cbVars, vars
<1> QED
  BY <1>1, <1>2, <1>3 DEF Next

LEMMA TypeBleStep == TypeOK /\ [Next]_vars => TypeBle'
<1> SUFFICES ASSUME TypeOK, [Next]_vars PROVE TypeBle'
  OBVIOUS
<1> USE DEF TypeOK, TypeBle, Names
<1>1. CASE Supervise
  BY <1>1 DEF Supervise, ConfigStart, DeinitStart, BleStart, ConfigData, WifiConnected,
     CloudConnected, CloudOnline, CloudDisconnected, DeinitDone, ConfigEnds, ConfigStops, BleStopped,
     ConfigOkDone, ConfigFailDone, BleDisconnected, BleDisconnectedDone, BleStop, bleVars
<1>2. CASE BleStep
  BY <1>2 DEF BleStep, PhoneLinks, PhoneFails, PhoneLeaves, PostBle, PhoneSends
<1>3. CASE WifiTask \/ SessionStep \/ Associate \/ LinkFails \/ UNCHANGED vars
  BY <1>3, WifiTaskFrame, SessionFrame, FirmwareFrame DEF bleVars, vars
<1> QED
  BY <1>1, <1>2, <1>3 DEF Next

LEMMA TypeHistoryStep == TypeOK /\ [Next]_vars => TypeHistory'
<1> SUFFICES ASSUME TypeOK, [Next]_vars PROVE TypeHistory'
  OBVIOUS
<1> USE BoundAssumption DEF TypeOK, TypeHistory, Full
<1>1. CASE Supervise
  <2>1. lost' \in BOOLEAN
    BY <1>1 DEF Supervise, ConfigStart, DeinitStart, BleStart, ConfigData, WifiConnected,
       CloudConnected, CloudOnline, CloudDisconnected, DeinitDone, ConfigEnds, ConfigStops,
       ConfigOkDone, ConfigFailDone, BleDisconnected, BleDisconnectedDone, Repost, history
  <2>2. trouble' = trouble \/ Disturb
    BY <1>1 DEF Supervise, ConfigStart, DeinitStart, BleStart, ConfigData, WifiConnected,
       CloudConnected, CloudOnline, CloudDisconnected, DeinitDone, ConfigEnds, ConfigStops,
       ConfigOkDone, ConfigFailDone, BleDisconnected, BleDisconnectedDone, ConnectWifi, WifiStart,
       history
  <2> QED
    BY <2>1, <2>2 DEF Disturb
<1>2. CASE WifiTask
  BY <1>2 DEF WifiTask, CountDisconnect, DecideDown, PostWifiFail, PostWifiRetry, ConnectDown, StartDown, GotIp,
     PostGotIp, FlagsUp, Post, history
<1>3. CASE SessionStep
  <2>1. CASE ReportFailure \/ ReportDisconnect \/ ReportProgress \/ ReportOnline
    <3>1. lost' \in BOOLEAN
      BY <2>1 DEF ReportFailure, ReportDisconnect, ReportProgress, ReportOnline, Reports
    <3>2. trouble' = trouble \/ Disturb
      BY <2>1 DEF ReportFailure, ReportDisconnect, ReportProgress, ReportOnline
    <3> QED
      BY <3>1, <3>2 DEF Disturb
  <2>2. CASE PostReport \/ AfterReport \/ SessionEnds \/ PostRestore \/ AfterRestore
    BY <2>2 DEF PostReport, CallbackUnchanged, AfterReport, SessionEnds, PostRestore,
       AfterRestore, Post, history
  <2>3. CASE Restore
    BY <2>3 DEF Restore, Disturb
  <2> QED
    BY <1>3, <2>1, <2>2, <2>3 DEF SessionStep
<1>4. CASE BleStep
  <2>1. CASE PhoneLinks \/ PhoneFails \/ PhoneLeaves \/ \E n \in Networks : PhoneSends(n)
    <3>1. lost' \in BOOLEAN
      BY <2>1 DEF PhoneLinks, PhoneFails, PhoneLeaves, PhoneSends, history
    <3>2. trouble' = trouble \/ Disturb
      BY <2>1 DEF PhoneLinks, PhoneFails, PhoneLeaves, PhoneSends, history
    <3> QED
      BY <3>1, <3>2 DEF Disturb
  <2>2. CASE PostBle
    BY <2>2 DEF PostBle, Post
  <2> QED
    BY <1>4, <2>1, <2>2 DEF BleStep
<1>5. CASE Associate \/ LinkFails \/ UNCHANGED vars
  BY <1>5, FirmwareFrame DEF Associate, LinkFails, Disturb, history, vars
<1> QED
  BY <1>1, <1>2, <1>3, <1>4, <1>5 DEF Next

\* Every variable stays in its domain, whatever the tasks do to one another: no queue
\* grows past its length and the counter of disconnections stops one past its limit.
THEOREM TypeCorrect == Spec => []TypeOK
<1>1. Init => TypeOK /\ CountBound
  <2> SUFFICES ASSUME Init PROVE TypeOK /\ CountBound
    OBVIOUS
  <2> USE BoundAssumption DEF Init
  <2>1. queue \in Seq(Events) /\ Len(queue) <= QueueMax
    <3>1. CASE queue = <<>>
      BY <3>1, EmptySeq
    <3>2. CASE queue = <<"CONFIG_START">>
      BY <3>2 DEF Events
    <3> QED
      BY <3>1, <3>2
  <2>2. TypeSupervisor
    BY <2>1 DEF TypeSupervisor, Waits, Names
  <2>3. TypeWifi
    <3>1. wifi_queue \in Seq({"DISCONNECTED", "GOT_IP"}) /\ Len(wifi_queue) <= WifiQueueMax
      BY EmptySeq
    <3>2. sta_started \in BOOLEAN /\ wifi_lost \in BOOLEAN
      OBVIOUS
    <3> QED
      BY <3>1, <3>2 DEF TypeWifi, Names
  <2>4. TypeSession /\ TypeBle
    BY DEF TypeSession, TypeBle, Names
  <2>5. TypeHistory
    <3>1. lost \in BOOLEAN
      OBVIOUS
    <3>2. trouble \in 0 .. MaxTrouble
      OBVIOUS
    <3> QED
      BY <3>1, <3>2 DEF TypeHistory
  <2> QED
    BY <2>2, <2>3, <2>4, <2>5 DEF TypeOK, TypeCount, CountBound
<1>2. TypeOK /\ CountBound /\ [Next]_vars => TypeOK' /\ CountBound'
  BY TypeSupervisorStep, TypeCountStep, TypeWifiStep, TypeSessionStep, TypeBleStep,
     TypeHistoryStep DEF TypeOK
<1> QED
  BY <1>1, <1>2, PTL DEF Spec

-----------------------------------------------------------------------------
(* Provisioning.                                                           *)

\* The radio is off from BleStop on, and stays so until the flags are cleared.
StoppedIsOff == sup \in {"ok_stopped", "fail_stopped"} => ble = "off"

LEMMA QuietStep ==
    QuietOutside /\ StoppedIsOff /\ [Next]_vars => QuietOutside' /\ StoppedIsOff'
<1> SUFFICES ASSUME QuietOutside, StoppedIsOff, [Next]_vars PROVE QuietOutside' /\ StoppedIsOff'
  OBVIOUS
<1> USE DEF QuietOutside, StoppedIsOff
<1>1. CASE ConfigStops("config_ok", "ok_stopped") \/ ConfigStops("config_fail", "fail_stopped")
  BY <1>1 DEF ConfigStops, BleStop
<1>7. CASE ConfigOkDone \/ ConfigFailDone \/ BleDisconnectedDone
  BY <1>7 DEF ConfigOkDone, ConfigFailDone, BleDisconnectedDone, BleStopped, flagVars
<1>2. CASE BleStart
  BY <1>2 DEF BleStart
<1>3. CASE BleDisconnected
  BY <1>3 DEF BleDisconnected, BleStop, bleVars, flagVars
<1>4. CASE ConfigStart \/ DeinitStart \/ ConfigData \/ WifiConnected \/ CloudConnected \/ CloudOnline
           \/ CloudDisconnected \/ DeinitDone \/ ConfigEnds("CONFIG_OK", "config_ok")
           \/ ConfigEnds("CONFIG_FAIL", "config_fail")
  BY <1>4 DEF ConfigStart, DeinitStart, ConfigData, WifiConnected, CloudConnected, CloudOnline,
     CloudDisconnected, DeinitDone, ConfigEnds, bleVars, flagVars
<1>5. CASE BleStep
  BY <1>5, BleFrame DEF BleStep, PhoneLinks, PhoneFails, PhoneLeaves, PostBle, PhoneSends, flagVars
<1>6. CASE WifiTask \/ SessionStep \/ Associate \/ LinkFails \/ UNCHANGED vars
  BY <1>6, WifiTaskFrame, SessionFrame, FirmwareFrame DEF supVars, bleVars, flagVars, vars
<1> QED
  BY <1>1, <1>2, <1>3, <1>4, <1>5, <1>6, <1>7 DEF Next, Supervise

\* BLE, its worker and its advertisement are on only while both flags of provisioning
\* are set, whichever of the events that end it comes first.
THEOREM QuietOutsideCorrect == Spec => []QuietOutside
<1>1. Init => QuietOutside /\ StoppedIsOff
  BY DEF Init, QuietOutside, StoppedIsOff
<1> QED
  BY <1>1, QuietStep, PTL DEF Spec

Contains(q, e) == \E i \in 1 .. Len(q) : q[i] = e

LEMMA TailContains ==
    ASSUME NEW S, NEW q \in Seq(S), NEW e, Contains(q, e), q # <<>>, Head(q) # e
    PROVE  Contains(Tail(q), e)
<1>1. PICK i \in 1 .. Len(q) : q[i] = e
  BY DEF Contains
<1>2. i # 1 /\ i - 1 \in 1 .. Len(Tail(q))
  BY <1>1, HeadTailProperties, LenProperties
<1>3. Tail(q)[i - 1] = e
  BY <1>1, <1>2, HeadTailProperties, LenProperties
<1> QED
  BY <1>2, <1>3 DEF Contains

LEMMA AppendContains ==
    ASSUME NEW S, NEW q \in Seq(S), NEW x \in S
    PROVE  Contains(Append(q, x), x) /\ \A e : Contains(q, e) => Contains(Append(q, x), e)
BY AppendProperties, LenProperties DEF Contains

\* An event that was dropped stays dropped.
LEMMA LostStays == ASSUME [Next]_vars, lost PROVE lost'
<1>1. CASE Supervise
  BY <1>1 DEF Supervise, ConfigStart, DeinitStart, BleStart, ConfigData, WifiConnected,
     CloudConnected, CloudOnline, CloudDisconnected, DeinitDone, ConfigEnds, ConfigStops, BleStopped,
     ConfigOkDone, ConfigFailDone, BleDisconnected, BleDisconnectedDone, Repost, history
<1>2. CASE WifiTask
  BY <1>2 DEF WifiTask, CountDisconnect, DecideDown, PostWifiFail, PostWifiRetry, ConnectDown, StartDown, GotIp,
     PostGotIp, FlagsUp, Post, history
<1>3. CASE SessionStep
  BY <1>3 DEF SessionStep, ReportFailure, ReportDisconnect, ReportProgress, ReportOnline, Reports,
     PostReport, AfterReport, SessionEnds, Restore, PostRestore, AfterRestore, Post, history
<1>4. CASE BleStep
  BY <1>4 DEF BleStep, PhoneLinks, PhoneFails, PhoneLeaves, PostBle, PhoneSends, Post, history
<1>5. CASE Associate \/ LinkFails \/ UNCHANGED vars
  BY <1>5, FirmwareFrame DEF history, vars
<1> QED
  BY <1>1, <1>2, <1>3, <1>4, <1>5 DEF Next

\* Only the handler of an event takes it from the queue.
LEMMA EventStays ==
    ASSUME [Next]_vars, TypeOK, NEW e \in {"CONFIG_START", "BLE_DISCONNECTED"}, InQueue(e)
    PROVE  \/ InQueue(e)'
           \/ e = "CONFIG_START" /\ ConfigStart
           \/ e = "BLE_DISCONNECTED" /\ BleDisconnected
<1>1. queue \in Seq(Events) /\ Contains(queue, e)
  BY DEF TypeOK, TypeSupervisor, InQueue, Contains
<1>2. ASSUME queue' = queue PROVE InQueue(e)'
  BY <1>2 DEF InQueue
<1>3. ASSUME NEW x \in Events, queue' = Append(queue, x) PROVE InQueue(e)'
  BY <1>1, <1>3, AppendContains DEF InQueue, Contains
<1>4. ASSUME NEW x \in Events, queue # <<>>, Head(queue) # e,
             queue' = Tail(queue) \/ queue' = Append(Tail(queue), x)
      PROVE  InQueue(e)'
  <2>1. Tail(queue) \in Seq(Events) /\ Contains(Tail(queue), e)
    BY <1>1, <1>4, TailType, TailContains
  <2>2. Contains(Append(Tail(queue), x), e)
    BY <2>1, AppendContains
  <2> QED
    BY <1>4, <2>1, <2>2 DEF InQueue, Contains
<1>5. CASE ConfigStart \/ ConfigData \/ WifiConnected \/ CloudConnected \/ CloudOnline
           \/ CloudDisconnected \/ ConfigEnds("CONFIG_OK", "config_ok")
           \/ ConfigEnds("CONFIG_FAIL", "config_fail") \/ BleDisconnected
  BY <1>4, <1>5 DEF ConfigStart, ConfigData, WifiConnected, CloudConnected, CloudOnline,
     CloudDisconnected, ConfigEnds, BleDisconnected, Takes, Rest, Events
<1>6. CASE DeinitStart \/ BleStart \/ DeinitDone \/ ConfigStops("config_ok", "ok_stopped") \/ ConfigOkDone
           \/ ConfigStops("config_fail", "fail_stopped") \/ ConfigFailDone \/ BleDisconnectedDone
  BY <1>2, <1>3, <1>6 DEF DeinitStart, BleStart, DeinitDone, ConfigStops, ConfigOkDone, ConfigFailDone,
     BleDisconnectedDone, Repost,
     Events
<1>7. CASE WifiTask
  BY <1>2, <1>3, <1>7 DEF WifiTask, CountDisconnect, DecideDown, PostWifiFail, PostWifiRetry,
     ConnectDown, StartDown, GotIp, PostGotIp, FlagsUp, Post, supVars, Events
<1>8. CASE SessionStep
  BY <1>2, <1>3, <1>8 DEF SessionStep, ReportFailure, ReportDisconnect, ReportProgress,
     ReportOnline, Reports, PostReport, AfterReport, SessionEnds, Restore, PostRestore,
     AfterRestore, Post, supVars, Events
<1>9. CASE BleStep
  BY <1>2, <1>3, <1>9 DEF BleStep, PhoneLinks, PhoneFails, PhoneLeaves, PostBle, PhoneSends, Post,
     supVars, Events, TypeOK, TypeBle
<1>10. CASE Associate \/ LinkFails \/ UNCHANGED vars
  BY <1>2, <1>10, FirmwareFrame DEF supVars, vars
<1> QED
  BY <1>5, <1>6, <1>7, <1>8, <1>9, <1>10 DEF Next, Supervise

\* The events of a post: the queue has it, or it was dropped.
LEMMA PostDelivers ==
    ASSUME TypeOK, NEW e \in Events, Post(e) \/ Repost(e) PROVE lost' \/ InQueue(e)'
<1>1. CASE Full
  BY <1>1 DEF Post, Repost
<1>2. CASE ~Full
  <2>1. queue \in Seq(Events) /\ queue' = Append(queue, e)
    BY <1>2 DEF Post, Repost, TypeOK, TypeSupervisor
  <2> QED
    BY <2>1, AppendContains DEF InQueue, Contains
<1> QED
  BY <1>1, <1>2

\* The two ways in which provisioning is on and no phone can reach the device.  A phone
\* that left is announced by an event on its way; where BLE was stopped, the supervisor
\* has a CONFIG_START to handle, or is between stopping BLE and the restart of it, or
\* that restart failed.
SilentPosted ==
    ble = "silent" => lost \/ ble_pc = "BLE_DISCONNECTED" \/ InQueue("BLE_DISCONNECTED")

Restarting == {"deinit_start", "ble_start", "ok_stopped", "fail_stopped", "left_stopped"}

OffRestarts ==
    ble = "off" => ~ble_config_start \/ lost \/ sup \in Restarting
                   \/ InQueue("CONFIG_START") \/ start_failed

LEMMA SilentPostedStep ==
    TypeOK /\ QuietOutside /\ SilentPosted /\ [Next]_vars => SilentPosted'
<1> SUFFICES ASSUME TypeOK, QuietOutside, SilentPosted, [Next]_vars, ble' = "silent", ~lost'
             PROVE  ble_pc' = "BLE_DISCONNECTED" \/ InQueue("BLE_DISCONNECTED")'
  BY DEF SilentPosted
<1>1. ~lost
  BY LostStays
<1>2. CASE PhoneLeaves
  BY <1>2 DEF PhoneLeaves
<1>3. CASE ~PhoneLeaves
  <2>1. ble = "silent" /\ (ble_pc' = ble_pc \/ PostBle)
    <3>1. CASE Supervise
      BY <3>1 DEF Supervise, ConfigStart, DeinitStart, BleStart, ConfigData, WifiConnected,
         CloudConnected, CloudOnline, CloudDisconnected, DeinitDone, ConfigEnds, ConfigStops, BleStopped,
         ConfigOkDone, ConfigFailDone, BleDisconnected, BleDisconnectedDone, BleStop, bleVars
    <3>2. CASE BleStep
      BY <1>3, <3>2 DEF BleStep, PhoneLinks, PhoneFails, PostBle, PhoneSends
    <3>3. CASE WifiTask \/ SessionStep \/ Associate \/ LinkFails \/ UNCHANGED vars
      BY <3>3, WifiTaskFrame, SessionFrame, FirmwareFrame DEF bleVars, vars
    <3> QED
      BY <3>1, <3>2, <3>3 DEF Next
  <2>2. CASE InQueue("BLE_DISCONNECTED")
    <3>1. ~BleDisconnected
      BY <2>1 DEF BleDisconnected, BleStop, QuietOutside
    <3> QED
      BY <2>2, <3>1, EventStays
  <2>3. CASE ble_pc = "BLE_DISCONNECTED" /\ PostBle
    BY <2>3, PostDelivers DEF PostBle, Events
  <2> QED
    BY <1>1, <2>1, <2>2, <2>3 DEF SilentPosted
<1> QED
  BY <1>2, <1>3

LEMMA OffRestartsStep == TypeOK /\ OffRestarts /\ [Next]_vars => OffRestarts'
<1> SUFFICES ASSUME TypeOK, OffRestarts, [Next]_vars, ble' = "off", ble_config_start', ~lost',
                    ~start_failed'
             PROVE  sup' \in Restarting \/ InQueue("CONFIG_START")'
  BY DEF OffRestarts, Restarting
<1>1. ~lost
  BY LostStays
<1>2. CASE ConfigStart
  BY <1>2 DEF ConfigStart, Restarting
<1>3. CASE DeinitStart
  BY <1>3 DEF DeinitStart, Restarting
<1>4. CASE BleDisconnected
  <2>1. CASE ble_config_start
    BY <1>4, <2>1 DEF BleDisconnected, Restarting
  <2>2. CASE ~ble_config_start
    BY <1>4, <2>2 DEF BleDisconnected, flagVars
  <2> QED
    BY <2>1, <2>2
<1>5. CASE ConfigStops("config_ok", "ok_stopped") \/ ConfigStops("config_fail", "fail_stopped")
  BY <1>5 DEF ConfigStops, Restarting
<1>8. CASE ConfigOkDone \/ ConfigFailDone
  BY <1>8 DEF ConfigOkDone, ConfigFailDone, ConfigOver
<1>9. CASE BleDisconnectedDone
  BY <1>9, PostDelivers DEF BleDisconnectedDone, Events
<1>6. CASE BleStart
  BY <1>6 DEF BleStart
<1>7. CASE ConfigData \/ WifiConnected \/ CloudConnected \/ CloudOnline \/ CloudDisconnected
           \/ DeinitDone \/ ConfigEnds("CONFIG_OK", "config_ok") \/ ConfigEnds("CONFIG_FAIL", "config_fail")
           \/ WifiTask \/ SessionStep \/ BleStep \/ Associate \/ LinkFails \/ UNCHANGED vars
  <2>1. ble_config_start /\ ble = "off" /\ ~start_failed
    <3>1. CASE BleStep
      <4>1. ble = "off" /\ ble_config_start' = ble_config_start /\ start_failed' = start_failed
        BY <3>1, BleFrame DEF BleStep, PhoneLinks, PhoneFails, PhoneLeaves, PostBle, PhoneSends,
           flagVars
      <4> QED
        BY <4>1
    <3>2. CASE ~BleStep
      <4>1. UNCHANGED <<bleVars, flagVars>>
        BY <1>7, <3>2, WifiTaskFrame, SessionFrame, FirmwareFrame
           DEF ConfigData, WifiConnected, CloudConnected, CloudOnline,
               CloudDisconnected, DeinitDone, ConfigEnds, vars
      <4>2. ble = "off" /\ ble_config_start' = ble_config_start /\ start_failed' = start_failed
        BY <4>1 DEF bleVars, flagVars
      <4> QED
        BY <4>2
    <3> QED
      BY <3>1, <3>2
  <2>2. ASSUME sup \in Restarting PROVE sup' = sup
    BY <1>7, <2>2, WifiTaskFrame, SessionFrame, BleFrame, FirmwareFrame
       DEF ConfigData, WifiConnected, CloudConnected, CloudOnline, CloudDisconnected, DeinitDone,
           ConfigEnds, Takes, Restarting, supVars, vars
  <2>3. ASSUME InQueue("CONFIG_START") PROVE InQueue("CONFIG_START")' \/ ConfigStart
    BY <2>3, EventStays
  <2> QED
    BY <1>1, <1>2, <2>1, <2>2, <2>3 DEF OffRestarts
<1> QED
  BY <1>2, <1>3, <1>4, <1>5, <1>6, <1>7, <1>8, <1>9 DEF Next, Supervise

\* A phone that leaves, a failure and a success of provisioning may cross in any order,
\* however long the queue: the device stays in provisioning unreachable only where an
\* event was dropped or the last start of BLE failed.
THEOREM ProvisioningAliveCorrect == Spec => []ProvisioningAlive
<1>1. Init => SilentPosted /\ OffRestarts
  BY DEF Init, SilentPosted, OffRestarts
<1>2. TypeOK /\ QuietOutside /\ SilentPosted /\ OffRestarts /\ [Next]_vars
        => SilentPosted' /\ OffRestarts'
  BY SilentPostedStep, OffRestartsStep
<1>3. SilentPosted /\ OffRestarts => ProvisioningAlive
  BY DEF SilentPosted, OffRestarts, Restarting, Waits, ProvisioningAlive
<1> QED
  BY <1>1, <1>2, <1>3, TypeCorrect, QuietOutsideCorrect, PTL DEF Spec

-----------------------------------------------------------------------------
(* What the device believes of its link.                                   *)

LastEvent == wifi_queue[Len(wifi_queue)]

\* A station that is not started has no link; and as long as nothing was dropped the
\* last event on its way tells what the link is, or, when none is, the handler that
\* runs is about to believe it.
LinkInv ==
    /\ ~sta_started => link = "off"
    /\ wifi_pc \in {"post_up", "flags_up"} => wifi_connect
    /\ ~wifi_lost =>
        /\ wifi_queue # <<>> => (LastEvent = "GOT_IP" <=> link = "up")
        /\ wifi_queue = <<>> =>
            /\ wifi_pc \in {"down", "post_fail", "post_retry", "flags_down"} => link # "up"
            /\ wifi_pc \in {"idle", "start_down", "post_up", "flags_up"} => (wifi_connect <=> link = "up")

\* A notification that is not dropped becomes the last event on its way.
LEMMA NotifyLast ==
    ASSUME TypeOK, NEW e \in {"DISCONNECTED", "GOT_IP"}, Notify(e), ~wifi_lost'
    PROVE  ~wifi_lost /\ wifi_queue' # <<>> /\ LastEvent' = e
<1>1. wifi_queue' = Append(wifi_queue, e) /\ ~wifi_lost
  BY DEF Notify
<1>2. wifi_queue \in Seq({"DISCONNECTED", "GOT_IP"})
  BY DEF TypeOK, TypeWifi
<1> QED
  BY <1>1, <1>2, AppendProperties DEF LastEvent

\* Taking the first event leaves the last, or takes it.
LEMMA TakeLast ==
    ASSUME TypeOK, wifi_queue # <<>>, wifi_queue' = Tail(wifi_queue)
    PROVE  /\ wifi_queue' # <<>> => LastEvent' = LastEvent
           /\ wifi_queue' = <<>> => LastEvent = Head(wifi_queue)
<1>1. wifi_queue \in Seq({"DISCONNECTED", "GOT_IP"})
  BY DEF TypeOK, TypeWifi
<1>2. Len(wifi_queue) \in Nat \ {0} /\ Len(wifi_queue') = Len(wifi_queue) - 1
  BY <1>1, EmptySeq, HeadTailProperties
<1>3. CASE Len(wifi_queue) = 1
  <2>1. wifi_queue' = <<>>
    BY <1>1, <1>2, <1>3, HeadTailProperties, EmptySeq
  <2> QED
    BY <2>1, <1>3 DEF LastEvent
<1>4. CASE Len(wifi_queue) # 1
  <2>1. wifi_queue'[Len(wifi_queue')] = wifi_queue[Len(wifi_queue)]
    BY <1>1, <1>2, <1>4, HeadTailProperties
  <2>2. wifi_queue' # <<>>
    <3>1. Len(<<>>) = 0
      OBVIOUS
    <3>2. Len(wifi_queue') # 0
      BY <1>2, <1>4
    <3> QED
      BY <3>1, <3>2
  <2> QED
    BY <2>1, <2>2 DEF LastEvent
<1> QED
  BY <1>3, <1>4

\* The driver takes the link away: an event says so, or there was none to take.
LEMMA DisconnectedLink ==
    ASSUME TypeOK, LinkInv, Disconnected, link' \in {"off", "trying"},
           ~sta_started' => link' = "off", UNCHANGED <<wifi_pc, wifi_connect>>
    PROVE  LinkInv'
<1>1. CASE link # "off" /\ Notify("DISCONNECTED")
  BY <1>1, NotifyLast DEF LinkInv
<1>2. CASE link # "up" /\ UNCHANGED <<wifi_queue, wifi_lost>>
  BY <1>2 DEF LinkInv, LastEvent
<1> QED
  BY <1>1, <1>2 DEF Disconnected

LEMMA LinkInvStep == TypeOK /\ LinkInv /\ [Next]_vars => LinkInv'
<1> SUFFICES ASSUME TypeOK, LinkInv, [Next]_vars PROVE LinkInv'
  OBVIOUS
<1>1. ASSUME UNCHANGED <<wifiVars, wifi_pc, wifi_connect>> PROVE LinkInv'
  BY <1>1 DEF wifiVars, LinkInv, LastEvent
<1>2. ASSUME WifiStop, UNCHANGED <<wifi_pc, wifi_connect>> PROVE LinkInv'
  BY <1>1, <1>2, DisconnectedLink DEF WifiStop
<1>3. CASE ConfigStart
  BY <1>1, <1>2, <1>3 DEF ConfigStart, linkFlags
<1>4. CASE DeinitStart
  BY <1>2, <1>4 DEF DeinitStart, linkFlags
<1>5. CASE WifiConnected
  <2>1. UNCHANGED <<wifi_pc, wifi_connect>> /\ sta_started' = TRUE
    BY <1>5 DEF WifiConnected, ConnectWifi, WifiStart
  <2>2. CASE Disconnected /\ link' \in {"trying", "off"}
    BY <2>1, <2>2, DisconnectedLink
  <2> DEFINE off == wifi_connect \/ wifi_start_connected
  <2>3. CASE off /\ sta_started
    BY <1>5, <2>2, <2>3 DEF WifiConnected, ConnectWifi, WifiStart
  <2>4. CASE ~sta_started
    <3>1. link = "off" /\ link' \in {"trying", "off"} /\ UNCHANGED <<wifi_queue, wifi_lost>>
      BY <1>5, <2>4 DEF WifiConnected, ConnectWifi, WifiStart, StartsAgain, LinkInv
    <3> QED
      BY <2>1, <3>1 DEF LinkInv, LastEvent
  <2>5. CASE ~off /\ sta_started
    <3>1. link' = link /\ UNCHANGED <<wifi_queue, wifi_lost>>
      BY <1>5, <2>5 DEF WifiConnected, ConnectWifi, WifiStart, StartsAgain
    <3> QED
      BY <2>1, <3>1 DEF LinkInv, LastEvent
  <2> QED
    BY <2>3, <2>4, <2>5
<1>6. CASE BleStart \/ ConfigData \/ CloudConnected \/ CloudOnline \/ CloudDisconnected \/ DeinitDone
           \/ ConfigEnds("CONFIG_OK", "config_ok") \/ ConfigStops("config_ok", "ok_stopped") \/ ConfigOkDone
           \/ ConfigEnds("CONFIG_FAIL", "config_fail")
           \/ ConfigStops("config_fail", "fail_stopped") \/ ConfigFailDone
           \/ BleDisconnected \/ BleDisconnectedDone
  BY <1>1, <1>6 DEF BleStart, ConfigData, CloudConnected, CloudOnline, CloudDisconnected, DeinitDone,
     ConfigEnds, ConfigStops, BleStopped, ConfigOkDone, ConfigFailDone, BleDisconnected, BleDisconnectedDone, linkFlags
<1>7. CASE SessionStep \/ BleStep \/ UNCHANGED vars
  BY <1>1, <1>7, SessionFrame, BleFrame DEF linkFlags, vars
<1>8. CASE Associate
  BY <1>8, NotifyLast, FirmwareFrame DEF Associate, LinkInv, linkFlags
<1>9. CASE LinkFails
  BY <1>9, NotifyLast, FirmwareFrame DEF LinkFails, LinkInv, linkFlags
<1>10. CASE WifiTask
  <2>1. UNCHANGED <<sta_started, link, wifi_lost>>
    BY <1>10, WifiTaskFrame
  <2>2. CASE CountDisconnect
    BY <2>1, <2>2, TakeLast DEF CountDisconnect, WifiGoto, LinkInv
  <2>3. CASE GotIp
    BY <2>1, <2>3, TakeLast DEF GotIp, WifiGoto, LinkInv
  <2>4. CASE DecideDown \/ PostWifiFail \/ PostWifiRetry \/ PostGotIp
    BY <2>1, <2>4 DEF DecideDown, PostWifiFail, PostWifiRetry, PostGotIp, WifiGoto, wifiVars, linkFlags,
       LinkInv, LastEvent
  <2>5. CASE ConnectDown \/ StartDown \/ FlagsUp
    BY <2>1, <2>5 DEF ConnectDown, BelieveDown, StartDown, FlagsUp, WifiGoto, wifiVars, LinkInv, LastEvent
  <2> QED
    BY <1>10, <2>2, <2>3, <2>4, <2>5 DEF WifiTask
<1> QED
  BY <1>3, <1>4, <1>5, <1>6, <1>7, <1>8, <1>9, <1>10 DEF Next, Supervise

\* However the supervisor stops and starts the station between the events the firmware
\* sends about it, and however many wait: when all are handled and none was dropped,
\* wifi_connect is what the link is.
THEOREM LinkBeliefCorrect == Spec => []LinkBelief
<1>1. Init => LinkInv
  BY DEF Init, LinkInv
<1>2. LinkInv => LinkBelief
  BY DEF LinkInv, LinkBelief
<1> QED
  BY <1>1, <1>2, LinkInvStep, TypeCorrect, PTL DEF Spec
=============================================================================
