--------------------------- MODULE WifiDriverProofs ---------------------------
(***************************************************************************)
(* Theorems about WifiDriver, for any networks, queue and bounds: the      *)
(* types, that the flags agree with the manager in the modes the driver    *)
(* supports, and that the state is the station's once the worker has       *)
(* caught up.                                                              *)
(***************************************************************************)
EXTENDS WifiDriver, TLAPS

-----------------------------------------------------------------------------
(* Types, in the parts the actions change together.                        *)
Managers == [auto : BOOLEAN, seeks : BOOLEAN, link : {"down", "connecting", "getting", "ip"},
             ssid : Networks \cup {"none"}, dhcp : BOOLEAN, ap : BOOLEAN, scan : BOOLEAN]
States == {"UNKNOWN", "IDLE", "CONNECTING", "IP_GETTING", "IP_GOT", "DISCONNECT"}
LastTolds == {"none"} \cup LinkCodes
ToldSet == [sta : LastTolds, scan : 0 .. MaxCalls, scans : Nat]

FlagsTyped == /\ sta_if \in BOOLEAN /\ sta_init \in BOOLEAN
              /\ ap_if \in BOOLEAN /\ ap_init \in BOOLEAN
CallTyped  == /\ stack_wifi_init \in BOOLEAN /\ firmware \in BOOLEAN
              /\ api \in {"idle", "ap", "stop"} /\ ret \in {AIIO_OK, AIIO_ERROR}
              /\ calls \in 0 .. MaxCalls /\ scan_cb \in 0 .. MaxCalls
FailedTyped == failed \in [ap : BOOLEAN, sta : BOOLEAN]
ConfigTyped == wifi_config.use_dhcp \in BOOLEAN /\ wifi_config.ssid \in Networks \cup {"none"}
ManagerTyped == mgr \in Managers
WorkerTyped == /\ queue \in Seq(Codes) /\ Len(queue) <= QueueLen
               /\ currentState \in States /\ told \in ToldSet
               /\ codes \in 0 .. MaxCodes /\ work \in {"recv", "connected"}
ReadTyped == missed \in BOOLEAN /\ misread \in BOOLEAN /\ stray \in BOOLEAN

Typed == /\ FlagsTyped /\ CallTyped /\ FailedTyped /\ ConfigTyped /\ ManagerTyped
         /\ WorkerTyped /\ ReadTyped

LEMMA TypedGivesTypeOK == Typed => TypeOK
<1> SUFFICES ASSUME Typed PROVE TypeOK
  OBVIOUS
<1>1. FlagsTyped /\ FailedTyped /\ ReadTyped
  BY DEF Typed
<1>2. /\ sta_if \in BOOLEAN /\ sta_init \in BOOLEAN /\ ap_if \in BOOLEAN /\ ap_init \in BOOLEAN
      /\ failed \in [ap : BOOLEAN, sta : BOOLEAN]
      /\ missed \in BOOLEAN /\ misread \in BOOLEAN /\ stray \in BOOLEAN
  BY <1>1 DEF FlagsTyped, FailedTyped, ReadTyped
<1> QED
  BY <1>2 DEF Typed, CallTyped, ConfigTyped, ManagerTyped, WorkerTyped, TypeOK,
     Managers, States, ToldSet, LastTolds

LEMMA TypedInit == Init => Typed
<1> SUFFICES ASSUME Init PROVE Typed
  OBVIOUS
<1>1. FlagsTyped /\ ConfigTyped /\ FailedTyped /\ ReadTyped
  BY DEF Init, FlagsTyped, ConfigTyped, FailedTyped, ReadTyped
<1>2. 0 \in 0 .. MaxCalls /\ 0 \in 0 .. MaxCodes
  BY BoundAssumption
<1>3. CallTyped
  BY <1>2 DEF Init, CallTyped
<1>4. ManagerTyped
  BY DEF Init, ManagerTyped, Managers
<1>5. WorkerTyped
  BY <1>2, BoundAssumption DEF Init, WorkerTyped, States, ToldSet, LastTolds, NothingTold, Codes
<1> QED
  BY <1>1, <1>3, <1>4, <1>5 DEF Typed

\* A call is counted within the bound.
LEMMA CallCounted == CallTyped /\ Calling => calls' \in 0 .. MaxCalls
BY BoundAssumption DEF CallTyped, Calling

LEMMA SoughtTyped ==
    ASSUME ConfigTyped, NEW m \in Managers, NEW ok \in BOOLEAN
    PROVE  Sought(m, ok) \in Managers
<1>1. (ok \/ m.seeks) \in BOOLEAN
  OBVIOUS
<1>2. (IF ok THEN wifi_config.ssid ELSE m.ssid) \in Networks \cup {"none"}
  BY DEF ConfigTyped, Managers
<1>3. (IF ok THEN wifi_config.use_dhcp ELSE m.dhcp) \in BOOLEAN
  BY DEF ConfigTyped, Managers
<1> QED
  BY <1>1, <1>2, <1>3 DEF Sought, Managers

LEMMA StartedTyped ==
    ASSUME NEW m \in Managers, NEW ok \in BOOLEAN
    PROVE  /\ Started(m, ok) \in Managers
           /\ Started(m, ok).ap = (m.ap \/ (StartsAp /\ ok))
           /\ Started(m, ok).auto = m.auto /\ Started(m, ok).seeks = m.seeks
           /\ Started(m, ok).link = m.link
<1>1. (m.ap \/ (StartsAp /\ ok)) \in BOOLEAN
  OBVIOUS
<1> QED
  BY <1>1 DEF Started, Managers

\* The calls of the application.
Call == \/ WifiInit \/ Disconnect \/ ApStop \/ Stop \/ ApStopped \/ Scan
        \/ \E ok \in BOOLEAN : Connect(ok)
        \/ \E ap_ok, sta_ok \in BOOLEAN : Start(ap_ok, sta_ok)
        \/ \E mode \in Modes : SetMode(mode)
        \/ \E ssid \in Networks, dhcp \in BOOLEAN : SetConfig(ssid, dhcp)

LEMMA CallFlagsTyped == FlagsTyped /\ Call => FlagsTyped'
<1> SUFFICES ASSUME FlagsTyped, Call PROVE FlagsTyped'
  OBVIOUS
<1> USE DEF FlagsTyped
<1>1. CASE WifiInit \/ Scan \/ \E ok \in BOOLEAN : Connect(ok)
  BY <1>1 DEF WifiInit, Connect, Scan, flags
<1>2. CASE \E ap_ok, sta_ok \in BOOLEAN : Start(ap_ok, sta_ok)
  BY <1>2 DEF Start
<1>3. CASE Disconnect
  BY <1>3 DEF Disconnect, StationDown, StationForgotten, flags
<1>4. CASE ApStop \/ Stop
  BY <1>4 DEF ApStop, Stop, ApDown, StationDown, StationForgotten, flags
<1>5. CASE ApStopped
  BY <1>5 DEF ApStopped, StationForgotten
<1>6. ASSUME NEW mode \in Modes, SetMode(mode) PROVE FlagsTyped'
  BY <1>6 DEF SetMode
<1>7. ASSUME NEW ssid \in Networks, NEW dhcp \in BOOLEAN, SetConfig(ssid, dhcp) PROVE FlagsTyped'
  BY <1>7 DEF SetConfig, flags
<1> QED
  BY <1>1, <1>2, <1>3, <1>4, <1>5, <1>6, <1>7 DEF Call

LEMMA CallManagerTyped == ManagerTyped /\ ConfigTyped /\ FlagsTyped /\ Call => ManagerTyped'
<1> SUFFICES ASSUME ManagerTyped, ConfigTyped, FlagsTyped, Call PROVE ManagerTyped'
  OBVIOUS
<1> USE DEF ManagerTyped
<1>1. CASE WifiInit
  BY <1>1 DEF WifiInit
<1>2. CASE \E ok \in BOOLEAN : Connect(ok)
  BY <1>2, SoughtTyped DEF Connect
<1>3. CASE \E ap_ok, sta_ok \in BOOLEAN : Start(ap_ok, sta_ok)
  BY <1>3, SoughtTyped, StartedTyped DEF Start
<1>4. CASE Disconnect
  BY <1>4 DEF Disconnect, StationDown, Managers
<1>5. CASE ApStop \/ Stop
  BY <1>5 DEF ApStop, Stop, ApDown, StationDown, Managers
<1>6. CASE ApStopped
  BY <1>6 DEF ApStopped, Managers
<1>7. CASE Scan
  BY <1>7 DEF Scan, Managers
<1>8. ASSUME NEW mode \in Modes, SetMode(mode) PROVE ManagerTyped'
  BY <1>8 DEF SetMode
<1>9. ASSUME NEW ssid \in Networks, NEW dhcp \in BOOLEAN, SetConfig(ssid, dhcp) PROVE ManagerTyped'
  BY <1>9 DEF SetConfig
<1> QED
  BY <1>1, <1>2, <1>3, <1>4, <1>5, <1>6, <1>7, <1>8, <1>9 DEF Call

LEMMA CallTypedStep == CallTyped /\ Call => CallTyped'
<1> SUFFICES ASSUME CallTyped, Call PROVE CallTyped'
  OBVIOUS
<1> USE DEF CallTyped
<1>1. ASSUME Calling PROVE calls' \in 0 .. MaxCalls
  BY <1>1, CallCounted
<1>2. CASE WifiInit
  BY <1>1, <1>2 DEF WifiInit
<1>3. CASE \E ok \in BOOLEAN : Connect(ok)
  BY <1>1, <1>3 DEF Connect, Quiet
<1>4. CASE \E ap_ok, sta_ok \in BOOLEAN : Start(ap_ok, sta_ok)
  BY <1>1, <1>4 DEF Start, Quiet
<1>5. CASE Disconnect
  BY <1>1, <1>5 DEF Disconnect, Quiet
<1>6. CASE ApStop
  BY <1>1, <1>6 DEF ApStop, ApDown, Quiet
<1>7. CASE Stop
  BY <1>1, <1>7 DEF Stop, ApDown, Quiet
<1>8. CASE ApStopped
  BY <1>8 DEF ApStopped, Quiet
<1>9. CASE Scan
  BY <1>1, <1>9 DEF Scan
<1>10. ASSUME NEW mode \in Modes, SetMode(mode) PROVE CallTyped'
  BY <1>1, <1>10 DEF SetMode, Quiet
<1>11. ASSUME NEW ssid \in Networks, NEW dhcp \in BOOLEAN, SetConfig(ssid, dhcp) PROVE CallTyped'
  BY <1>1, <1>11 DEF SetConfig, Quiet
<1> QED
  BY <1>2, <1>3, <1>4, <1>5, <1>6, <1>7, <1>8, <1>9, <1>10, <1>11 DEF Call

\* No call touches what the worker and the manager's codes go through, and only SetConfig
\* the configuration.
LEMMA CallLeaves == Call => UNCHANGED <<queue, worker, codes, missed>>
BY DEF Call, WifiInit, Connect, Start, Disconnect, ApStop, Stop, ApStopped, Scan, SetMode,
   SetConfig, Quiet

LEMMA CallConfigTyped == ConfigTyped /\ Call => ConfigTyped'
BY DEF Call, WifiInit, Connect, Start, Disconnect, ApStop, Stop, ApStopped, Scan, SetMode,
   SetConfig, ConfigTyped

LEMMA CallFailedTyped == FailedTyped /\ Call => FailedTyped'
<1> SUFFICES ASSUME FailedTyped, Call PROVE FailedTyped'
  OBVIOUS
<1> USE DEF FailedTyped
<1>1. CASE \E ok \in BOOLEAN : Connect(ok)
  BY <1>1 DEF Connect
<1>2. ASSUME NEW ap_ok \in BOOLEAN, NEW sta_ok \in BOOLEAN, Start(ap_ok, sta_ok) PROVE FailedTyped'
  <2>1. (IF StartsAp THEN ~ap_ok ELSE failed.ap) \in BOOLEAN
        /\ (IF StartsStation THEN ~sta_ok ELSE failed.sta) \in BOOLEAN
    OBVIOUS
  <2> QED
    BY <1>2, <2>1 DEF Start
<1>3. CASE ~(\E ok \in BOOLEAN : Connect(ok)) /\ ~(\E ap_ok, sta_ok \in BOOLEAN : Start(ap_ok, sta_ok))
  BY <1>3 DEF Call, WifiInit, Disconnect, ApStop, Stop, ApStopped, Scan, SetMode, SetConfig
<1> QED
  BY <1>1, <1>2, <1>3

LEMMA CallKeepsTyped == Typed /\ Call => Typed'
BY CallFlagsTyped, CallManagerTyped, CallTypedStep, CallLeaves, CallConfigTyped, CallFailedTyped
   DEF Typed, WorkerTyped, ReadTyped, worker

\* A code the manager reports fits the queue, or is dropped.
LEMMA EmitTyped ==
    ASSUME Typed, NEW code \in Codes, NEW m \in Managers, Emit(code, m)
    PROVE  Typed'
<1>1. FlagsTyped' /\ ConfigTyped' /\ ManagerTyped' /\ FailedTyped'
  BY DEF Emit, Typed, FlagsTyped, ConfigTyped, ManagerTyped, FailedTyped, driver, flags
<1>2. CallTyped'
  BY DEF Emit, Typed, CallTyped, driver
<1>3. codes' \in 0 .. MaxCodes
  BY BoundAssumption DEF Emit, Typed, WorkerTyped
<1>4. queue' \in Seq(Codes) /\ Len(queue') <= QueueLen
  BY BoundAssumption DEF Emit, Typed, WorkerTyped, Fits
<1>5. currentState' \in States /\ UNCHANGED <<told, work>>
  BY DEF Emit, Typed, WorkerTyped, States
<1>6. ReadTyped'
  <2>1. missed' \in BOOLEAN
    BY DEF Emit, Typed, ReadTyped
  <2>2. misread' = misread /\ stray' = stray
    BY DEF Emit
  <2> QED
    BY <2>1, <2>2 DEF Typed, ReadTyped
<1> QED
  BY <1>1, <1>2, <1>3, <1>4, <1>5, <1>6 DEF Typed, WorkerTyped

LEMMA ManagerKeepsTyped == Typed /\ Manager => Typed'
<1> SUFFICES ASSUME Typed, Manager PROVE Typed'
  OBVIOUS
<1>1. PICK code \in Codes, m \in Managers : Emit(code, m)
  BY DEF Manager, Typed, ManagerTyped, Managers, Codes, LinkCodes
<1> QED
  BY <1>1, EmitTyped

LEMMA WorkKeepsTyped == Typed /\ (Work \/ WorkConnected) => Typed'
<1> SUFFICES ASSUME Typed, Work \/ WorkConnected PROVE Typed'
  OBVIOUS
<1>1. FlagsTyped' /\ ConfigTyped' /\ ManagerTyped' /\ FailedTyped'
  BY DEF Work, WorkConnected, Typed, FlagsTyped, ConfigTyped, ManagerTyped, FailedTyped, driver, flags
<1>2. CallTyped'
  BY DEF Work, WorkConnected, Typed, CallTyped, driver
<1>3. CASE Work
  <2>1. queue' \in Seq(Codes) /\ Len(queue') <= QueueLen
    BY <1>3, BoundAssumption DEF Work, Typed, WorkerTyped
  <2>2. currentState' \in States
    BY <1>3 DEF Work, Typed, WorkerTyped, StateOf, States
  <2>3. told' \in ToldSet
    BY <1>3 DEF Work, Typed, WorkerTyped, CallTyped, ToldSet, LastTolds
  <2>4. ReadTyped'
    <3>1. misread' \in BOOLEAN
      BY <1>3 DEF Work, Typed, ReadTyped
    <3>2. stray' \in BOOLEAN
      BY <1>3 DEF Work, Typed, ReadTyped
    <3>3. missed' = missed
      BY <1>3 DEF Work
    <3> QED
      BY <3>1, <3>2, <3>3 DEF Typed, ReadTyped
  <2> QED
    BY <1>1, <1>2, <1>3, <2>1, <2>2, <2>3, <2>4 DEF Typed, WorkerTyped, Work
<1>4. CASE WorkConnected
  <2>1. told' \in ToldSet
    BY <1>4 DEF WorkConnected, TellStatic, Typed, WorkerTyped, ToldSet, LastTolds, LinkCodes
  <2>2. ReadTyped'
    BY <1>4 DEF WorkConnected, Typed, ReadTyped
  <2> QED
    BY <1>1, <1>2, <1>4, <2>1, <2>2 DEF Typed, WorkerTyped, WorkConnected
<1> QED
  BY <1>3, <1>4

LEMMA TypedStep == Typed /\ [Next]_vars => Typed'
<1>1. Typed /\ UNCHANGED vars => Typed'
  BY DEF Typed, FlagsTyped, CallTyped, FailedTyped, ConfigTyped, ManagerTyped, WorkerTyped,
     ReadTyped, vars, driver, worker, flags
<1> QED
  BY <1>1, CallKeepsTyped, ManagerKeepsTyped, WorkKeepsTyped DEF Next, Call

\* Every variable stays in its domain and the queue within its length, whatever is called
\* and whatever the manager reports (aiio_wifi.c).
THEOREM TypeCorrect == Spec => []TypeOK
BY TypedInit, TypedStep, TypedGivesTypeOK, PTL DEF Spec

-----------------------------------------------------------------------------
(* The flags.  While aiio_wifi_ap_stop waits, the access point is already  *)
(* down and its flag still set, and no other call is taken.                *)
FlagsInv ==
    /\ api = "idle" => (mgr.ap <=> (ap_init /\ ~failed.ap))
    /\ api # "idle" => ~mgr.ap
    /\ sta_init => mgr.auto /\ (mgr.seeks \/ failed.sta)
    /\ mgr.seeks => mgr.auto
    /\ mgr.auto => sta_if

LEMMA FlagsInit == Init => FlagsInv
BY DEF Init, FlagsInv

\* The station's part, and the access point's, of the step of a call.
LEMMA StationDownKeeps ==
    ASSUME ManagerTyped, FlagsInv, api = "idle", api' = "idle", StationDown, UNCHANGED failed
    PROVE  FlagsInv'
<1>1. mgr'.ap = mgr.ap /\ ~mgr'.auto /\ ~mgr'.seeks
  BY DEF ManagerTyped, Managers, StationDown
<1>2. ~sta_init' /\ ap_init' = ap_init
  BY DEF StationDown, StationForgotten
<1> QED
  BY <1>1, <1>2 DEF FlagsInv

LEMMA ApDownKeeps ==
    ASSUME ManagerTyped, FlagsInv, NEW whence \in {"ap", "stop"}, ApDown(whence), UNCHANGED failed
    PROVE  FlagsInv'
<1>1. ~mgr'.ap /\ mgr'.auto = mgr.auto /\ mgr'.seeks = mgr.seeks
  BY DEF ManagerTyped, Managers, ApDown
<1>2. api' # "idle" /\ UNCHANGED flags
  BY DEF ApDown
<1> QED
  BY <1>1, <1>2 DEF FlagsInv, flags

LEMMA SoughtKeeps ==
    ASSUME NEW m \in Managers, NEW ok \in BOOLEAN
    PROVE  /\ Sought(m, ok).auto /\ Sought(m, ok).ap = m.ap /\ Sought(m, ok).link = m.link
           /\ Sought(m, ok).seeks = (ok \/ m.seeks)
BY DEF Sought, Managers

LEMMA FlagsKept == FlagsInv /\ UNCHANGED <<flags, api, failed, mgr>> => FlagsInv'
BY DEF FlagsInv, flags

LEMMA StartKeeps ==
    ASSUME ManagerTyped, FailedTyped, ConfigTyped, FlagsInv, NEW ap_ok \in BOOLEAN,
           NEW sta_ok \in BOOLEAN, Start(ap_ok, sta_ok)
    PROVE  FlagsInv'
<1> DEFINE m == Started(mgr, ap_ok)
<1>1. api = "idle" /\ api' = "idle" /\ UNCHANGED <<sta_if, ap_if>>
  BY DEF Start, Calling
<1>2. /\ m \in Managers /\ m.ap = (mgr.ap \/ (StartsAp /\ ap_ok))
      /\ m.auto = mgr.auto /\ m.seeks = mgr.seeks
  BY StartedTyped DEF ManagerTyped
<1>3. /\ failed'.ap = (IF StartsAp THEN ~ap_ok ELSE failed.ap)
      /\ failed'.sta = (IF StartsStation THEN ~sta_ok ELSE failed.sta)
      /\ ap_init' = (ap_init \/ StartsAp) /\ sta_init' = (sta_init \/ StartsStation)
  BY DEF Start
<1>4. mgr' = IF StartsStation THEN Sought(m, sta_ok) ELSE m
  BY DEF Start
<1> HIDE DEF m
<1>5. mgr'.ap = m.ap
  BY <1>2, <1>4, SoughtKeeps
<1>6. mgr'.ap <=> (ap_init' /\ ~failed'.ap)
  <2>1. mgr.ap <=> (ap_init /\ ~failed.ap)
    BY <1>1 DEF FlagsInv
  <2>2. CASE StartsAp
    <3>1. ~mgr.ap
      BY <2>1, <2>2 DEF StartsAp
    <3> QED
      BY <1>2, <1>3, <1>5, <2>2, <3>1
  <2>3. CASE ~StartsAp
    BY <1>2, <1>3, <1>5, <2>1, <2>3
  <2> QED
    BY <2>2, <2>3
<1>7. CASE StartsStation
  <2>1. mgr'.auto /\ mgr'.seeks = (sta_ok \/ m.seeks)
    BY <1>2, <1>4, <1>7, SoughtKeeps
  <2>2. failed'.sta = ~sta_ok /\ sta_if'
    BY <1>1, <1>3, <1>7 DEF StartsStation
  <2> QED
    BY <1>1, <1>6, <2>1, <2>2 DEF FlagsInv
<1>8. CASE ~StartsStation
  <2>1. mgr'.auto = mgr.auto /\ mgr'.seeks = mgr.seeks /\ failed'.sta = failed.sta
    BY <1>2, <1>3, <1>4, <1>8
  <2>2. sta_init' = sta_init \/ (sta_init' <=> sta_init)
    BY <1>3, <1>8
  <2> QED
    BY <1>1, <1>6, <2>1, <2>2 DEF FlagsInv
<1> QED
  BY <1>7, <1>8

LEMMA ConnectKeeps ==
    ASSUME ManagerTyped, FailedTyped, FlagsInv, NEW ok \in BOOLEAN, Connect(ok)
    PROVE  FlagsInv'
<1>1. api = "idle" /\ api' = "idle" /\ UNCHANGED flags
  BY DEF Connect, Calling
<1>2. CASE sta_if
  <2>1. mgr' = Sought(mgr, ok) /\ mgr \in Managers
    BY <1>2 DEF Connect, ManagerTyped
  <2>2. mgr'.auto /\ mgr'.ap = mgr.ap /\ mgr'.seeks = (ok \/ mgr.seeks)
    BY <2>1, SoughtKeeps
  <2>3. failed'.ap = failed.ap /\ failed'.sta = ~ok
    BY <1>2 DEF Connect, FailedTyped
  <2> QED
    BY <1>1, <1>2, <2>2, <2>3 DEF FlagsInv, flags
<1>3. CASE ~sta_if
  BY <1>1, <1>3, FlagsKept DEF Connect
<1> QED
  BY <1>2, <1>3

\* The delay over, both halves of the access point's flags are cleared.
LEMMA ApStoppedKeeps == ManagerTyped /\ FlagsInv /\ ApStopped => FlagsInv'
<1> SUFFICES ASSUME ManagerTyped, FlagsInv, ApStopped PROVE FlagsInv'
  OBVIOUS
<1>1. api # "idle" /\ api' = "idle" /\ ~mgr.ap /\ ~ap_init' /\ UNCHANGED failed
  BY DEF ApStopped, FlagsInv
<1>2. CASE api = "stop" /\ sta_if
  <2>1. mgr' = [mgr EXCEPT !.auto = FALSE, !.seeks = FALSE] /\ ~sta_init'
    BY <1>2 DEF ApStopped, StationForgotten
  <2>2. ~mgr'.auto /\ ~mgr'.ap /\ ~mgr'.seeks
    BY <1>1, <2>1 DEF ManagerTyped, Managers
  <2> QED
    BY <1>1, <2>1, <2>2 DEF FlagsInv
<1>3. CASE ~(api = "stop" /\ sta_if)
  <2>1. UNCHANGED <<mgr, sta_if, sta_init>>
    BY <1>3 DEF ApStopped
  <2> QED
    BY <1>1, <2>1 DEF FlagsInv
<1> QED
  BY <1>2, <1>3

\* What the manager reports changes its link and its scan, no more.
LEMMA ManagerKeeps == ManagerTyped /\ FlagsInv /\ Manager => FlagsInv'
<1> SUFFICES ASSUME ManagerTyped, FlagsInv, Manager PROVE FlagsInv'
  OBVIOUS
<1>1. PICK code, m : Emit(code, m) /\ m.auto = mgr.auto /\ m.ap = mgr.ap /\ m.seeks = mgr.seeks
  BY DEF Manager, ManagerTyped, Managers
<1>2. /\ mgr'.auto = mgr.auto /\ mgr'.ap = mgr.ap /\ mgr'.seeks = mgr.seeks
      /\ UNCHANGED <<flags, api, failed>>
  BY <1>1 DEF Emit, driver
<1> QED
  BY <1>2 DEF FlagsInv, flags

LEMMA CallKeepsFlags ==
    ASSUME "NULL" \notin Modes, Typed, FlagsInv, Call
    PROVE  FlagsInv'
<1> USE DEF Typed
<1>1. CASE WifiInit
  BY <1>1, FlagsKept DEF WifiInit
<1>2. CASE \E ok \in BOOLEAN : Connect(ok)
  BY <1>2, ConnectKeeps
<1>3. CASE \E ap_ok, sta_ok \in BOOLEAN : Start(ap_ok, sta_ok)
  BY <1>3, StartKeeps
<1>4. CASE Disconnect
  <2>1. CASE sta_if
    BY <1>4, <2>1, StationDownKeeps DEF Disconnect, Calling
  <2>2. CASE ~sta_if
    BY <1>4, <2>2, FlagsKept DEF Disconnect
  <2> QED
    BY <2>1, <2>2
<1>5. CASE ApStop
  <2>1. CASE ap_if
    BY <1>5, <2>1, ApDownKeeps DEF ApStop
  <2>2. CASE ~ap_if
    BY <1>5, <2>2, FlagsKept DEF ApStop
  <2> QED
    BY <2>1, <2>2
<1>6. CASE Stop
  <2>1. CASE ap_if /\ ApDown("stop")
    BY <1>6, <2>1, ApDownKeeps DEF Stop
  <2>2. CASE StationDown /\ UNCHANGED api
    BY <1>6, <2>2, StationDownKeeps DEF Stop, Calling
  <2>3. CASE UNCHANGED <<mgr, api, flags>>
    BY <1>6, <2>3, FlagsKept DEF Stop
  <2> QED
    BY <1>6, <2>1, <2>2, <2>3 DEF Stop
<1>7. CASE ApStopped
  BY <1>7, ApStoppedKeeps
<1>8. CASE Scan
  BY <1>8 DEF Scan, ManagerTyped, Managers, FlagsInv, flags
<1>9. ASSUME NEW mode \in Modes, SetMode(mode) PROVE FlagsInv'
  <2>1. mode # "NULL"
    OBVIOUS
  <2>2. UNCHANGED <<api, failed, mgr>>
    BY <1>9 DEF SetMode
  <2>3. (sta_init' <=> sta_init) /\ (ap_init' <=> ap_init) /\ (sta_if => sta_if')
    BY <1>9, <2>1 DEF SetMode
  <2> QED
    BY <2>2, <2>3 DEF FlagsInv
<1>10. ASSUME NEW ssid \in Networks, NEW dhcp \in BOOLEAN, SetConfig(ssid, dhcp) PROVE FlagsInv'
  BY <1>10, FlagsKept DEF SetConfig
<1> QED
  BY <1>1, <1>2, <1>3, <1>4, <1>5, <1>6, <1>7, <1>8, <1>9, <1>10 DEF Call

\* In the modes the driver supports, after any calls, an access point runs exactly when its
\* flag says it was started and the manager did not refuse it, a started station is sought
\* or was refused, and a sought one can be disconnected (aiio_wifi_set_mode, _start, _stop,
\* _connect, _disconnect, _ap_stop).
THEOREM FlagsCorrect == ASSUME "NULL" \notin Modes PROVE Spec => []FlagsAgree
<1>1. Init => Typed /\ FlagsInv
  BY TypedInit, FlagsInit
<1>2. Typed /\ FlagsInv /\ [Next]_vars => (Typed /\ FlagsInv)'
  <2> SUFFICES ASSUME Typed, FlagsInv, [Next]_vars PROVE FlagsInv'
    BY TypedStep
  <2>1. CASE Call
    BY <2>1, CallKeepsFlags
  <2>2. CASE Manager
    BY <2>2, ManagerKeeps DEF Typed
  <2>3. CASE Work \/ WorkConnected
    BY <2>3, FlagsKept DEF Work, WorkConnected, driver
  <2>4. CASE UNCHANGED vars
    BY <2>4, FlagsKept DEF vars, driver
  <2> QED
    BY <2>1, <2>2, <2>3, <2>4 DEF Next, Call
<1>3. FlagsInv => FlagsAgree
  BY DEF FlagsInv, FlagsAgree
<1> QED
  BY <1>1, <1>2, <1>3, PTL DEF Spec

-----------------------------------------------------------------------------
(* The state.  The codes that wait tell how the link came to be what it    *)
(* is: the last of those about the link leads to it, and when none waits   *)
(* the worker has told it already, or is about to tell a static address.   *)
(* Whether an address is still awaited the worker decides by the           *)
(* configuration it finds, the manager by what it was asked for: misread   *)
(* remembers when the two differed.                                        *)

\* The links that a code leaves behind, with or without an address to wait for.
LeadsTo(code) ==
    CASE code = "CONNECTING" -> {"connecting"}
      [] code = "CONNECTED"  -> {"getting", "ip"}
      [] code = "GOT_IP"     -> {"ip"}
      [] OTHER               -> {"down"}

Silent(q) == \A i \in 1..Len(q) : q[i] \notin LinkCodes
SilentAfter(q, i) == \A j \in 1..Len(q) : j > i => q[j] \notin LinkCodes

\* The manager is ready before the first code about the link.
ReadyFirst == \A i \in 1..Len(queue) : queue[i] = "MGMR_DONE" =>
                \A j \in 1..Len(queue) : j < i => queue[j] \notin LinkCodes
\* The last code about the link.
Underway == \A i \in 1..Len(queue) :
              queue[i] \in LinkCodes /\ SilentAfter(queue, i) => mgr.link \in LeadsTo(queue[i])
\* What the application was told, where the worker has a static address yet to tell ...
ToldRight == IF work = "connected" THEN told.sta = "CONNECTED" /\ mgr.link \in {"getting", "ip"}
             ELSE \E l \in TakenFor : told.sta \in LastTold[l]
\* ... and the state.
StateRight == codes > 0 /\ ~stray => \E l \in TakenFor : currentState \in LinkStates[l]
ReadyDown == (\E i \in 1..Len(queue) : queue[i] = "MGMR_DONE") => mgr.link = "down"
MisreadLink == misread => mgr.link \in {"getting", "ip"}
\* No code about the link waits.
Settled == Silent(queue) => ToldRight /\ StateRight /\ ReadyDown /\ MisreadLink
\* Before the manager is ready there is no link, before the first code nothing at all.
NoLinkYet == codes < 2 => mgr.link = "down" /\ Silent(queue)
NothingYet == codes = 0 => queue = <<>> /\ work = "recv" /\ ~stray /\ ~misread
StrayUnknown == stray => currentState = "UNKNOWN"

LinkInv == NothingYet /\ NoLinkYet /\ ReadyFirst /\ StrayUnknown /\ (~missed => Underway /\ Settled)

LEMMA LinkInit == Init => LinkInv
BY DEF Init, LinkInv, NothingYet, NoLinkYet, ReadyFirst, StrayUnknown, Underway, Settled, Silent,
   ToldRight, StateRight, ReadyDown, MisreadLink, TakenFor, NothingTold, LastTold

\* Where the queue, the worker and the link are left alone.
LEMMA LinkKept ==
    ASSUME LinkInv, UNCHANGED <<queue, worker, codes, missed>>, mgr'.link = mgr.link
    PROVE  LinkInv'
<1>1. UNCHANGED <<queue, currentState, work, told, misread, stray, codes, missed>>
  BY DEF worker
<1> QED
  BY <1>1 DEF LinkInv, NothingYet, NoLinkYet, ReadyFirst, StrayUnknown, Underway, Settled, Silent,
     SilentAfter, ToldRight, StateRight, ReadyDown, MisreadLink, TakenFor

\* No call touches the link.
LEMMA CallKeepsTheLink == ManagerTyped /\ Call => mgr'.link = mgr.link
<1> SUFFICES ASSUME ManagerTyped, Call PROVE mgr'.link = mgr.link
  OBVIOUS
<1> USE DEF ManagerTyped
<1>1. CASE \E ok \in BOOLEAN : Connect(ok)
  BY <1>1, SoughtKeeps DEF Connect
<1>2. CASE \E ap_ok, sta_ok \in BOOLEAN : Start(ap_ok, sta_ok)
  BY <1>2, SoughtKeeps, StartedTyped DEF Start
<1>3. CASE Disconnect \/ ApStop \/ Stop \/ ApStopped \/ Scan
  <2>1. mgr' \in {mgr, [mgr EXCEPT !.auto = FALSE, !.seeks = FALSE], [mgr EXCEPT !.ap = FALSE],
                  [mgr EXCEPT !.scan = TRUE]}
    BY <1>3 DEF Disconnect, ApStop, Stop, ApStopped, Scan, StationDown, ApDown
  <2> QED
    BY <2>1 DEF Managers
<1>4. CASE WifiInit \/ (\E mode \in Modes : SetMode(mode))
           \/ \E ssid \in Networks, dhcp \in BOOLEAN : SetConfig(ssid, dhcp)
  BY <1>4 DEF WifiInit, SetMode, SetConfig
<1> QED
  BY <1>1, <1>2, <1>3, <1>4 DEF Call

LEMMA CallKeepsLink == Typed /\ LinkInv /\ Call => LinkInv'
BY CallKeepsTheLink, CallLeaves, LinkKept DEF Typed

\* A code at the end of the queue.
LEMMA Appended ==
    ASSUME NEW q \in Seq(Codes), NEW code \in Codes
    PROVE  LET r == Append(q, code)
           IN  /\ r \in Seq(Codes) /\ Len(r) = Len(q) + 1 /\ r[Len(q) + 1] = code
               /\ \A i \in 1..Len(q) : r[i] = q[i]
OBVIOUS

\* A code that is not about the link leaves what the others say; that the manager is ready
\* comes before them.
LEMMA OtherCodeKeeps ==
    ASSUME Typed, LinkInv, NEW code \in Codes \ LinkCodes, NEW m \in Managers, Emit(code, m),
           m.link = mgr.link, codes = 0 <=> code = "INIT_DONE", code = "MGMR_DONE" => codes = 1
    PROVE  LinkInv'
<1>1. /\ codes' = codes + 1 /\ mgr'.link = mgr.link /\ UNCHANGED <<work, told, misread, stray, missed>>
      /\ codes \in Nat /\ queue \in Seq(Codes)
      /\ currentState' = IF code = "INIT_DONE" THEN "IDLE" ELSE currentState
  BY BoundAssumption DEF Emit, Typed, WorkerTyped
<1>2. NothingYet' /\ StrayUnknown'
  BY <1>1 DEF LinkInv, NothingYet, StrayUnknown
<1>3. StateRight \/ codes = 0 => StateRight'
  <2>1. CASE code = "INIT_DONE"
    <3>1. mgr'.link = "down" /\ ~misread' /\ currentState' = "IDLE"
      BY <1>1, <2>1 DEF LinkInv, NoLinkYet, NothingYet
    <3> QED
      BY <3>1 DEF StateRight, TakenFor, LinkStates
  <2>2. CASE code # "INIT_DONE"
    <3>1. currentState' = currentState /\ codes > 0
      BY <1>1, <2>2
    <3>2. TakenFor' = TakenFor /\ stray' = stray
      BY <1>1 DEF TakenFor
    <3> SUFFICES ASSUME StateRight, ~stray PROVE \E l \in TakenFor' : currentState' \in LinkStates[l]
      BY <1>1, <3>1, <3>2 DEF StateRight
    <3>3. \E l \in TakenFor : currentState \in LinkStates[l]
      BY <3>1 DEF StateRight
    <3> QED
      BY <3>1, <3>2, <3>3
  <2> QED
    BY <2>1, <2>2
<1>4. (ToldRight => ToldRight') /\ (MisreadLink => MisreadLink')
  BY <1>1 DEF ToldRight, TakenFor, MisreadLink
<1>5. codes = 0 => StateRight
  BY DEF StateRight
<1>6. CASE ~Fits
  <2>1. UNCHANGED queue
    BY <1>6 DEF Emit
  <2>2. NoLinkYet' /\ ReadyFirst' /\ (ReadyDown => ReadyDown')
    BY <1>1, <2>1 DEF LinkInv, NoLinkYet, ReadyFirst, Silent, ReadyDown
  <2>3. Underway => Underway'
    BY <1>1, <2>1 DEF Underway, SilentAfter
  <2>4. Settled => Settled'
    BY <1>3, <1>4, <2>1, <2>2 DEF Settled, Silent
  <2> QED
    BY <1>1, <1>2, <2>2, <2>3, <2>4 DEF LinkInv
<1>7. CASE Fits
  <2> DEFINE n == Len(queue)
  <2>1. queue' = Append(queue, code)
    BY <1>7 DEF Emit
  <2>2. /\ n \in Nat /\ Len(queue') = n + 1 /\ queue'[n + 1] = code
        /\ \A i \in 1..n : queue'[i] = queue[i]
    BY <1>1, <2>1, Appended
  <2> HIDE DEF n
  <2>3. Silent(queue') <=> Silent(queue)
    BY <2>2 DEF Silent, n
  <2>4. NoLinkYet'
    BY <1>1, <2>3 DEF LinkInv, NoLinkYet
  <2>5. ReadyFirst'
    <3>1. code = "MGMR_DONE" => Silent(queue)
      BY DEF LinkInv, NoLinkYet
    <3> QED
      BY <2>2, <3>1 DEF LinkInv, ReadyFirst, Silent, n
  <2>6. ASSUME Underway PROVE Underway'
    <3> SUFFICES ASSUME NEW i \in 1..Len(queue'), queue'[i] \in LinkCodes,
                        SilentAfter(queue', i)
                 PROVE  mgr'.link \in LeadsTo(queue'[i])
      BY DEF Underway, SilentAfter
    <3>1. i \in 1..n /\ queue'[i] = queue[i] /\ SilentAfter(queue, i)
      BY <2>2 DEF SilentAfter, n
    <3>2. mgr.link \in LeadsTo(queue[i])
      BY <2>6, <3>1 DEF Underway, n
    <3> QED
      BY <1>1, <3>1, <3>2
  <2>7. ReadyDown => ReadyDown'
    BY <1>1, <2>2 DEF ReadyDown, LinkInv, NoLinkYet, n
  <2>8. Settled => Settled'
    BY <1>3, <1>4, <2>3, <2>7 DEF Settled
  <2> QED
    BY <1>1, <1>2, <2>4, <2>5, <2>6, <2>8 DEF LinkInv
<1> QED
  BY <1>6, <1>7

\* A code about the link becomes the last of them, and leads to the link there is now.
LEMMA LinkCodeKeeps ==
    ASSUME Typed, LinkInv, NEW code \in LinkCodes, NEW m \in Managers, Emit(code, m),
           codes > 1, m.link \in LeadsTo(code)
    PROVE  LinkInv'
<1>1. /\ codes' = codes + 1 /\ mgr' = m /\ missed' = ~Fits /\ UNCHANGED stray
      /\ codes \in Nat /\ queue \in Seq(Codes) /\ code \in Codes
  BY BoundAssumption DEF Emit, Typed, WorkerTyped, Codes
<1>2. currentState' = currentState
  BY DEF Emit, LinkCodes
<1>3. NoLinkYet' /\ NothingYet' /\ StrayUnknown'
  BY <1>1, <1>2 DEF NoLinkYet, NothingYet, StrayUnknown, LinkInv
<1>4. CASE ~Fits
  <2>1. UNCHANGED queue /\ missed'
    BY <1>1, <1>4 DEF Emit
  <2>2. ReadyFirst'
    BY <2>1 DEF LinkInv, ReadyFirst
  <2> QED
    BY <1>3, <2>1, <2>2 DEF LinkInv
<1>5. CASE Fits
  <2> DEFINE n == Len(queue)
  <2>1. queue' = Append(queue, code)
    BY <1>5 DEF Emit
  <2>2. /\ n \in Nat /\ Len(queue') = n + 1 /\ queue'[n + 1] = code
        /\ \A i \in 1..n : queue'[i] = queue[i]
    BY <1>1, <2>1, Appended
  <2> HIDE DEF n
  <2>3. ~Silent(queue')
    BY <2>2 DEF Silent
  <2>4. ReadyFirst'
    BY <2>2 DEF LinkInv, ReadyFirst, LinkCodes, n
  <2>5. Underway'
    <3> SUFFICES ASSUME NEW i \in 1..Len(queue'), queue'[i] \in LinkCodes,
                        SilentAfter(queue', i)
                 PROVE  mgr'.link \in LeadsTo(queue'[i])
      BY DEF Underway, SilentAfter
    <3>1. i = n + 1
      BY <2>2 DEF SilentAfter
    <3> QED
      BY <1>1, <2>2, <3>1
  <2> QED
    BY <1>3, <2>3, <2>4, <2>5 DEF LinkInv, Settled
<1> QED
  BY <1>4, <1>5

LEMMA ManagerKeepsLink == Typed /\ LinkInv /\ Manager => LinkInv'
<1> SUFFICES ASSUME Typed, LinkInv, Manager PROVE LinkInv'
  OBVIOUS
<1> USE DEF Typed, ManagerTyped
<1>0. mgr.link # "down" => codes > 1
  BY DEF LinkInv, NoLinkYet, WorkerTyped
<1>1. CASE codes = 0 /\ Emit("INIT_DONE", mgr)
  <2>1. "INIT_DONE" \in Codes \ LinkCodes
    BY DEF Codes, LinkCodes
  <2> QED
    BY <1>1, <2>1, OtherCodeKeeps
<1>2. CASE codes = 1 /\ Emit("MGMR_DONE", mgr)
  <2>1. "MGMR_DONE" \in Codes \ LinkCodes
    BY DEF Codes, LinkCodes
  <2> QED
    BY <1>2, <2>1, OtherCodeKeeps
<1>3. CASE codes > 1 /\ mgr.scan /\ Emit("SCAN_DONE", [mgr EXCEPT !.scan = FALSE])
  <2> DEFINE m == [mgr EXCEPT !.scan = FALSE]
  <2>1. "SCAN_DONE" \in Codes \ LinkCodes
    BY DEF Codes, LinkCodes
  <2>2. m \in Managers /\ m.link = mgr.link
    BY DEF Managers
  <2>3. Emit("SCAN_DONE", m) /\ codes > 1
    BY <1>3
  <2> HIDE DEF m
  <2> QED
    BY <2>1, <2>2, <2>3, OtherCodeKeeps
<1>4. CASE codes > 1 /\ (Emit("AP_STA_ADD", mgr) \/ Emit("OTHER", mgr))
  <2>1. {"AP_STA_ADD", "OTHER"} \subseteq Codes \ LinkCodes
    BY DEF Codes, LinkCodes
  <2> QED
    BY <1>4, <2>1, OtherCodeKeeps
<1>5. ASSUME NEW code \in LinkCodes, NEW link \in {"down", "connecting", "getting", "ip"},
             Emit(code, [mgr EXCEPT !.link = link]), codes > 1, link \in LeadsTo(code)
      PROVE  LinkInv'
  <2> DEFINE m == [mgr EXCEPT !.link = link]
  <2>1. m \in Managers /\ m.link = link
    BY DEF Managers
  <2> QED
    BY <1>5, <2>1, LinkCodeKeeps
<1>6. /\ "connecting" \in LeadsTo("CONNECTING") /\ "ip" \in LeadsTo("GOT_IP")
      /\ "down" \in LeadsTo("DISCONNECT") /\ {"getting", "ip"} \subseteq LeadsTo("CONNECTED")
  BY DEF LeadsTo
<1>7. CASE codes > 1 /\ Emit("CONNECTING", [mgr EXCEPT !.link = "connecting"])
  BY <1>5, <1>6, <1>7 DEF LinkCodes
<1>8. CASE /\ mgr.link = "connecting"
           /\ Emit("CONNECTED", [mgr EXCEPT !.link = IF mgr.dhcp THEN "getting" ELSE "ip"])
  BY <1>0, <1>5, <1>6, <1>8 DEF LinkCodes
<1>9. CASE mgr.link = "getting" /\ Emit("GOT_IP", [mgr EXCEPT !.link = "ip"])
  BY <1>0, <1>5, <1>6, <1>9 DEF LinkCodes
<1>10. CASE mgr.link # "down" /\ Emit("DISCONNECT", [mgr EXCEPT !.link = "down"])
  BY <1>0, <1>5, <1>6, <1>10 DEF LinkCodes
<1> QED
  BY <1>1, <1>2, <1>3, <1>4, <1>7, <1>8, <1>9, <1>10 DEF Manager

\* What the worker makes of a code about the link that led to the link there is: the state
\* at once, what it tells either now or, for a static address, in its next step.
LEMMA WorkerLearns ==
    ASSUME NEW code \in LinkCodes, ConfigTyped, mgr.link \in LeadsTo(code),
           code # "CONNECTED" \/ ~Mistakes
    PROVE  /\ StateOf(code, currentState) \in LinkStates[mgr.link]
           /\ code # "CONNECTED" => code \in LastTold[mgr.link]
<1>1. CASE code = "CONNECTING"
  BY <1>1 DEF StateOf, LeadsTo, LinkStates, LastTold
<1>2. CASE code = "CONNECTED"
  BY <1>2 DEF StateOf, LeadsTo, LinkStates, LastTold, Mistakes, ConfigTyped
<1>3. CASE code = "GOT_IP"
  BY <1>3 DEF StateOf, LeadsTo, LinkStates, LastTold
<1>4. CASE code = "DISCONNECT"
  BY <1>4 DEF StateOf, LeadsTo, LinkStates, LastTold
<1> QED
  BY <1>1, <1>2, <1>3, <1>4 DEF LinkCodes

LEMMA Taken ==
    ASSUME NEW q \in Seq(Codes), q # <<>>
    PROVE  /\ Len(q) \in Nat \ {0} /\ Head(q) = q[1] /\ Head(q) \in Codes
           /\ Tail(q) \in Seq(Codes) /\ Len(Tail(q)) = Len(q) - 1
           /\ \A i \in 1..Len(q) - 1 : Tail(q)[i] = q[i + 1]
OBVIOUS

\* A code about the link is the last one: what the worker learns of it is the link.
LEMMA WorkLearns ==
    ASSUME Typed, NEW code \in LinkCodes, mgr.link \in LeadsTo(code), UNCHANGED mgr,
           currentState' = StateOf(code, currentState), told'.sta = code,
           work' = IF code = "CONNECTED" THEN "connected" ELSE "recv",
           misread' = (code = "CONNECTED" /\ Mistakes)
    PROVE  ToldRight' /\ StateRight' /\ MisreadLink'
<1>1. code = "CONNECTED" => mgr'.link \in {"getting", "ip"}
  BY DEF LeadsTo
<1>2. MisreadLink'
  BY <1>1 DEF MisreadLink
<1>3. CASE misread'
  <2>1. code = "CONNECTED" /\ currentState' \in {"IP_GETTING", "IP_GOT"}
    BY <1>3 DEF StateOf, Typed, ConfigTyped
  <2>2. StateRight'
    BY <1>3, <2>1 DEF StateRight, TakenFor, LinkStates
  <2>3. ToldRight'
    BY <1>1, <2>1 DEF ToldRight
  <2> QED
    BY <1>2, <2>2, <2>3
<1>4. CASE ~misread'
  <2>1. /\ currentState' \in LinkStates[mgr'.link]
        /\ code # "CONNECTED" => code \in LastTold[mgr'.link]
    BY <1>4, WorkerLearns DEF Typed
  <2>2. StateRight'
    BY <1>4, <2>1 DEF StateRight, TakenFor
  <2>3. ToldRight'
    BY <1>1, <1>4, <2>1 DEF ToldRight, TakenFor
  <2> QED
    BY <1>2, <2>2, <2>3
<1> QED
  BY <1>3, <1>4

LEMMA WorkKeepsLink == Typed /\ LinkInv /\ Work => LinkInv'
<1> SUFFICES ASSUME Typed, LinkInv, Work PROVE LinkInv'
  OBVIOUS
<1> DEFINE n == Len(queue)
           code == queue[1]
<1>1. /\ UNCHANGED <<mgr, codes, missed>> /\ queue' = Tail(queue) /\ queue # <<>>
      /\ queue \in Seq(Codes) /\ codes \in Nat /\ work = "recv"
  BY BoundAssumption DEF Work, Typed, WorkerTyped
<1>2. /\ n \in Nat \ {0} /\ Head(queue) = code /\ code \in Codes /\ Len(queue') = n - 1
      /\ \A i \in 1..n - 1 : queue'[i] = queue[i + 1]
  BY <1>1, Taken
<1>3. /\ currentState' = StateOf(code, currentState)
      /\ told'.sta = IF code \in LinkCodes THEN code ELSE told.sta
      /\ work' = IF code = "CONNECTED" THEN "connected" ELSE "recv"
      /\ misread' = IF code \in LinkCodes THEN code = "CONNECTED" /\ Mistakes ELSE misread
      /\ stray' = IF code \in {"INIT_DONE", "SCAN_DONE", "AP_STA_ADD"} THEN stray ELSE code = "OTHER"
  BY <1>2 DEF Work
<1> HIDE DEF n, code
<1>4. Silent(queue) => Silent(queue')
  BY <1>2 DEF Silent, n
<1>5. NoLinkYet' /\ NothingYet'
  BY <1>1, <1>4 DEF LinkInv, NoLinkYet, NothingYet
<1>6. ReadyFirst'
  BY <1>2 DEF LinkInv, ReadyFirst, n
<1>7. StrayUnknown'
  BY <1>3 DEF LinkInv, StrayUnknown, StateOf, LinkCodes
<1>8. ASSUME ~missed' PROVE Underway'
  <2> SUFFICES ASSUME NEW i \in 1..Len(queue'), queue'[i] \in LinkCodes, SilentAfter(queue', i)
               PROVE  mgr'.link \in LeadsTo(queue'[i])
    BY DEF Underway, SilentAfter
  <2>1. i + 1 \in 1..n /\ queue'[i] = queue[i + 1]
    BY <1>2
  <2>2. SilentAfter(queue, i + 1)
    <3> SUFFICES ASSUME NEW j \in 1..n, j > i + 1 PROVE queue[j] \notin LinkCodes
      BY DEF SilentAfter, n
    <3>1. j - 1 \in 1..n - 1 /\ j - 1 > i /\ queue'[j - 1] = queue[(j - 1) + 1]
      BY <1>2
    <3> QED
      BY <1>2, <3>1 DEF SilentAfter
  <2>3. mgr.link \in LeadsTo(queue[i + 1])
    BY <1>1, <1>8, <2>1, <2>2 DEF LinkInv, Underway, n
  <2> QED
    BY <1>1, <2>1, <2>3
<1>9. ASSUME ~missed' PROVE Settled'
  <2> SUFFICES ASSUME Silent(queue') PROVE ToldRight' /\ StateRight' /\ ReadyDown' /\ MisreadLink'
    BY DEF Settled
  <2>1. Underway /\ Settled
    BY <1>1, <1>9 DEF LinkInv
  <2>2. \A j \in 2..n : queue[j] \notin LinkCodes
    <3> SUFFICES ASSUME NEW j \in 2..n PROVE queue[j] \notin LinkCodes
      OBVIOUS
    <3>1. j - 1 \in 1..n - 1 /\ queue'[j - 1] = queue[(j - 1) + 1]
      BY <1>2
    <3> QED
      BY <1>2, <3>1 DEF Silent
  <2>3. CASE code \in LinkCodes
    <3>1. mgr.link \in LeadsTo(code)
      BY <1>2, <2>1, <2>2, <2>3 DEF Underway, SilentAfter, n, code
    <3>2. ToldRight' /\ StateRight' /\ MisreadLink'
      BY <1>1, <1>3, <2>3, <3>1, WorkLearns
    <3>3. \A i \in 1..Len(queue') : queue'[i] # "MGMR_DONE"
      BY <1>2, <2>3 DEF LinkInv, ReadyFirst, n, code
    <3> QED
      BY <3>2, <3>3 DEF ReadyDown
  <2>4. CASE code \notin LinkCodes
    <3>1. Silent(queue)
      BY <1>2, <2>2, <2>4 DEF Silent, n, code
    <3>2. ToldRight /\ StateRight /\ ReadyDown /\ MisreadLink
      BY <2>1, <3>1 DEF Settled
    <3>3. told'.sta = told.sta /\ misread' = misread /\ work' = "recv"
      BY <1>3, <2>4 DEF LinkCodes
    <3>4. ToldRight' /\ MisreadLink'
      BY <1>1, <3>2, <3>3 DEF ToldRight, TakenFor, MisreadLink
    <3>5. ReadyDown' /\ (code = "MGMR_DONE" => mgr.link = "down")
      BY <1>1, <1>2, <3>2 DEF ReadyDown, n, code
    <3>6. StateRight'
      <4>1. CASE code = "MGMR_DONE"
        <5>1. mgr'.link = "down" /\ ~misread' /\ currentState' = "IDLE"
          BY <1>1, <1>3, <3>2, <3>3, <3>5, <4>1 DEF MisreadLink, StateOf
        <5> QED
          BY <5>1 DEF StateRight, TakenFor, LinkStates
      <4>2. CASE code \in {"INIT_DONE", "SCAN_DONE", "AP_STA_ADD"}
        <5>1. currentState' = currentState
          BY <1>3, <4>2 DEF StateOf
        <5>2. stray' = stray
          BY <1>3, <4>2
        <5> QED
          BY <1>1, <3>2, <3>3, <5>1, <5>2 DEF StateRight, TakenFor
      <4>3. CASE code = "OTHER"
        <5>1. stray'
          BY <1>3, <4>3
        <5> QED
          BY <5>1 DEF StateRight
      <4> QED
        BY <1>2, <2>4, <4>1, <4>2, <4>3 DEF Codes
    <3> QED
      BY <3>4, <3>5, <3>6
  <2> QED
    BY <2>3, <2>4
<1> QED
  BY <1>5, <1>6, <1>7, <1>8, <1>9 DEF LinkInv

\* The static address told, or not, as the configuration says by now.
LEMMA ConnectedKeepsLink == Typed /\ LinkInv /\ WorkConnected => LinkInv'
<1> SUFFICES ASSUME Typed, LinkInv, WorkConnected PROVE LinkInv'
  OBVIOUS
<1>1. /\ UNCHANGED <<queue, currentState, stray, mgr, codes, missed>>
      /\ work = "connected" /\ work' = "recv" /\ misread' = (misread \/ Mistakes)
      /\ told' = IF wifi_config.use_dhcp THEN told ELSE [told EXCEPT !.sta = "GOT_IP"]
  BY DEF WorkConnected, TellStatic
<1>2. NoLinkYet' /\ ReadyFirst' /\ StrayUnknown' /\ (Underway => Underway')
  BY <1>1 DEF LinkInv, NoLinkYet, ReadyFirst, StrayUnknown, Silent, SilentAfter, Underway
<1>3. ASSUME Settled, Silent(queue)
      PROVE  ToldRight' /\ StateRight' /\ ReadyDown' /\ MisreadLink'
  <2>1. told.sta = "CONNECTED" /\ mgr.link \in {"getting", "ip"} /\ StateRight /\ ReadyDown
    BY <1>1, <1>3 DEF Settled, ToldRight
  <2>2. MisreadLink' /\ ReadyDown'
    BY <1>1, <2>1 DEF MisreadLink, ReadyDown
  <2>3. told'.sta = IF wifi_config.use_dhcp THEN "CONNECTED" ELSE "GOT_IP"
    BY <1>1, <2>1 DEF Typed, WorkerTyped, ToldSet
  <2>4. StateRight'
    <3>1. TakenFor \subseteq TakenFor'
      BY <1>1, <2>1 DEF TakenFor
    <3> QED
      BY <1>1, <2>1, <3>1 DEF StateRight
  <2>5. ToldRight'
    <3>1. CASE misread'
      BY <1>1, <2>3, <3>1 DEF ToldRight, TakenFor, LastTold
    <3>2. CASE ~misread'
      <4>1. wifi_config.use_dhcp <=> mgr.link = "getting"
        BY <1>1, <3>2 DEF Mistakes, Typed, ConfigTyped
      <4>2. told'.sta \in LastTold[mgr'.link]
        BY <1>1, <2>1, <2>3, <4>1 DEF LastTold
      <4> QED
        BY <1>1, <3>2, <4>2 DEF ToldRight, TakenFor
    <3> QED
      BY <3>1, <3>2
  <2> QED
    BY <2>2, <2>4, <2>5
<1>4. codes # 0
  BY <1>1 DEF LinkInv, NothingYet
<1> QED
  BY <1>1, <1>2, <1>3, <1>4 DEF LinkInv, NothingYet, Settled, Silent

LEMMA LinkGives == Typed /\ LinkInv => StateIsLink
<1> SUFFICES ASSUME Typed, LinkInv, queue = <<>>, work = "recv", ~missed, codes > 0 PROVE
        /\ mgr.link \in TakenFor
        /\ \E l \in TakenFor : told.sta \in LastTold[l]
        /\ stray => currentState = "UNKNOWN"
        /\ ~stray =>
             \A s_code \in Failures \cup {"OTHER"} :
                \/ \E l \in TakenFor : GetState(s_code).state \in LinkStates[l]
                \/ mgr.link \in {"down", "connecting"} /\ GetState(s_code).state \in Failures
  BY DEF StateIsLink
<1>1. ToldRight /\ StateRight /\ MisreadLink
  BY DEF LinkInv, Settled, Silent
<1>2. mgr.link \in TakenFor
  BY <1>1 DEF TakenFor, MisreadLink
<1>3. \E l \in TakenFor : told.sta \in LastTold[l]
  BY <1>1 DEF ToldRight
<1>4. ASSUME ~stray, NEW s_code \in Failures \cup {"OTHER"}
      PROVE  \/ \E l \in TakenFor : GetState(s_code).state \in LinkStates[l]
             \/ mgr.link \in {"down", "connecting"} /\ GetState(s_code).state \in Failures
  <2>1. PICK l \in TakenFor : currentState \in LinkStates[l]
    BY <1>1, <1>4 DEF StateRight
  <2>2. currentState \in {"IDLE", "CONNECTING", "DISCONNECT"} => mgr.link \in {"down", "connecting"}
    <3>1. l \in {"down", "connecting", "getting", "ip"}
      BY <2>1 DEF TakenFor, Typed, ManagerTyped, Managers
    <3>2. currentState \in {"IDLE", "CONNECTING", "DISCONNECT"} => l \in {"down", "connecting"}
      BY <2>1, <3>1 DEF LinkStates
    <3> QED
      BY <2>1, <3>2 DEF TakenFor
  <2> QED
    BY <1>4, <2>1, <2>2 DEF GetState
<1> QED
  BY <1>2, <1>3, <1>4 DEF LinkInv, StrayUnknown

\* Once the worker has caught up and the last code about the link was not dropped, what the
\* driver answers and what it told the application last are how the station is, or how it
\* failed before, or UNKNOWN after a code it does not know: for any length of the queue,
\* whatever is called in between and whatever was dropped before (wifi_event_handler,
\* aiio_wifi_config_task, aiio_wifi_get_state).
THEOREM StateCorrect == Spec => []StateIsLink
<1>1. Init => Typed /\ LinkInv
  BY TypedInit, LinkInit
<1>2. Typed /\ LinkInv /\ [Next]_vars => (Typed /\ LinkInv)'
  <2> SUFFICES ASSUME Typed, LinkInv, [Next]_vars PROVE LinkInv'
    BY TypedStep
  <2>1. CASE UNCHANGED vars
    BY <2>1, LinkKept DEF vars
  <2> QED
    BY <2>1, CallKeepsLink, ManagerKeepsLink, WorkKeepsLink, ConnectedKeepsLink DEF Next, Call
<1> QED
  BY <1>1, <1>2, LinkGives, PTL DEF Spec
=============================================================================
