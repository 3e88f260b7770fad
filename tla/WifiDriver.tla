----------------------------- MODULE WifiDriver -----------------------------
(***************************************************************************)
(* The Wi-Fi driver (driver/aiio_wifi.c).  The application sets a mode and *)
(* a configuration, starts and stops; the manager of the vendor's firmware *)
(* (external) runs the station and the access point and reports by codes.  *)
(* wifi_event_handler puts each code in a queue of five, without waiting;  *)
(* aiio_wifi_config_task takes them one by one, keeps currentState and     *)
(* calls the application back.                                             *)
(*                                                                         *)
(* Four flags say what the driver believes: an interface is in use (the    *)
(* mode) and has been started.  aiio_wifi_ap_stop clears its own two half  *)
(* a second after it stopped the access point.                             *)
(***************************************************************************)
EXTENDS Integers, Sequences

CONSTANTS
    Networks,           \* what a configuration names
    Modes,              \* arguments of aiio_wifi_set_mode
    QueueLen,           \* the length of wifi_config_queue: 5
    MaxCalls, MaxCodes  \* bounds

ASSUME NetworkAssumption == Networks # {} /\ "none" \notin Networks
ASSUME ModeAssumption == Modes \subseteq {"STA", "AP", "APSTA", "NULL"}
ASSUME BoundAssumption == QueueLen \in Nat \ {0} /\ MaxCalls \in Nat /\ MaxCodes \in Nat

AIIO_OK == 0
AIIO_ERROR == -1

VARIABLES
    stack_wifi_init, firmware,  \* aiio_wifi_init was called; the firmware task runs
    sta_if, sta_init,           \* g_wifi_sta_interface, g_wifi_sta_init_flag
    ap_if, ap_init,             \* g_wifi_ap_interface, g_wifi_ap_init_flag
    wifi_config,                \* [ssid, use_dhcp] of the station
    api, ret,                   \* where the caller is; what the last call returned
    queue, currentState,
    work,                       \* whether the worker has yet to tell a static address
    scan_cb,                    \* whom the end of a scan is told: the number of a request
    mgr,                        \* the manager: [auto, seeks, link, ssid, dhcp, ap, scan]
    calls, codes, told,         \* history: calls, codes, events to the application
    failed,                     \* history: what the manager refused to start last
    missed,                     \* history: the last code about the link was dropped
    misread,                    \* history: ... was read under another use_dhcp than the link's
    stray                       \* history: the last code that set the state is unknown

flags  == <<sta_if, sta_init, ap_if, ap_init>>
driver == <<stack_wifi_init, flags, wifi_config, api, ret, failed>>
worker == <<currentState, work, told, misread, stray>>
vars == <<driver, firmware, queue, worker, scan_cb, mgr, calls, codes, missed>>

\* What the application was last told of its station, and how many scans ended for whom.
NothingTold == [sta |-> "none", scan |-> 0, scans |-> 0]

Init ==
    /\ stack_wifi_init = FALSE /\ firmware = FALSE
    /\ sta_if = FALSE /\ sta_init = FALSE /\ ap_if = FALSE /\ ap_init = FALSE
    /\ wifi_config = [ssid |-> "none", use_dhcp |-> FALSE]
    /\ api = "idle" /\ ret = AIIO_OK
    /\ queue = <<>> /\ currentState = "UNKNOWN" /\ work = "recv" /\ scan_cb = 0
    /\ mgr = [auto |-> FALSE, seeks |-> FALSE, link |-> "down", ssid |-> "none", dhcp |-> FALSE,
              ap |-> FALSE, scan |-> FALSE]
    /\ calls = 0 /\ codes = 0 /\ told = NothingTold
    /\ failed = [ap |-> FALSE, sta |-> FALSE]
    /\ missed = FALSE /\ misread = FALSE /\ stray = FALSE

-----------------------------------------------------------------------------
(* The operations of the driver, called by one task.                       *)
Calling == api = "idle" /\ calls < MaxCalls /\ calls' = calls + 1

\* aiio_wifi_init: once only, even after a queue or a task could not be created.
WifiInit ==
    /\ Calling
    /\ stack_wifi_init' = TRUE
    /\ \/ stack_wifi_init /\ ret' = AIIO_ERROR /\ UNCHANGED firmware
       \/ ~stack_wifi_init /\ ret' = AIIO_ERROR /\ UNCHANGED firmware
       \/ ~stack_wifi_init /\ ret' = AIIO_OK /\ firmware' = TRUE
    /\ UNCHANGED <<flags, wifi_config, api, failed, queue, worker, scan_cb, mgr, codes, missed>>

Quiet == UNCHANGED <<stack_wifi_init, firmware, queue, worker, scan_cb, codes, missed>>

SetMode(mode) ==
    /\ Calling /\ firmware
    /\ sta_if' = (mode # "NULL" /\ (sta_if \/ mode \in {"STA", "APSTA"}))
    /\ ap_if'  = (mode # "NULL" /\ (ap_if  \/ mode \in {"AP", "APSTA"}))
    /\ sta_init' = (mode # "NULL" /\ sta_init)
    /\ ap_init'  = (mode # "NULL" /\ ap_init)
    /\ ret' = IF mode = "NULL" THEN AIIO_ERROR ELSE AIIO_OK
    /\ Quiet /\ UNCHANGED <<wifi_config, api, failed, mgr>>

\* At any time, also while the link it configures is up.
SetConfig(ssid, dhcp) ==
    /\ Calling /\ firmware
    /\ wifi_config' = [ssid |-> ssid, use_dhcp |-> dhcp]
    /\ ret' = AIIO_OK
    /\ Quiet /\ UNCHANGED <<flags, api, failed, mgr>>

\* aiio_wifi_connect: the manager is to connect by itself; then it seeks what is
\* configured, or refuses and goes on with what it did.
Sought(m, ok) ==
    [m EXCEPT !.auto = TRUE, !.seeks = ok \/ m.seeks,
              !.ssid = IF ok THEN wifi_config.ssid ELSE m.ssid,
              !.dhcp = IF ok THEN wifi_config.use_dhcp ELSE m.dhcp]

Connect(ok) ==
    /\ Calling /\ firmware
    /\ IF sta_if THEN mgr' = Sought(mgr, ok) /\ failed' = [failed EXCEPT !.sta = ~ok]
                 ELSE UNCHANGED <<mgr, failed>>
    /\ ret' = IF sta_if /\ ok THEN AIIO_OK ELSE AIIO_ERROR
    /\ Quiet /\ UNCHANGED <<flags, wifi_config, api>>

\* aiio_wifi_start: what is in use and has not been started.  Either may fail; the flags are
\* set all the same, and of the access point nobody is told.  The access point alone
\* returns the error it began with.
StartsStation == sta_if /\ ~sta_init
StartsAp == ap_if /\ ~ap_init
Started(m, ok) == [m EXCEPT !.ap = m.ap \/ (StartsAp /\ ok)]
Start(ap_ok, sta_ok) ==
    /\ Calling /\ firmware
    /\ ap_init' = (ap_init \/ StartsAp)
    /\ sta_init' = (sta_init \/ StartsStation)
    /\ mgr' = IF StartsStation THEN Sought(Started(mgr, ap_ok), sta_ok) ELSE Started(mgr, ap_ok)
    /\ failed' = [ap  |-> IF StartsAp THEN ~ap_ok ELSE failed.ap,
                  sta |-> IF StartsStation THEN ~sta_ok ELSE failed.sta]
    /\ ret' = IF StartsStation /\ sta_ok THEN AIIO_OK ELSE AIIO_ERROR
    /\ Quiet /\ UNCHANGED <<sta_if, ap_if, wifi_config, api>>

\* aiio_wifi_disconnect, once a station is in use.
KeepsStarted == UNCHANGED sta_init                                          \* mutant
StationForgotten == sta_init' = FALSE
StationDown ==
    /\ mgr' = [mgr EXCEPT !.auto = FALSE, !.seeks = FALSE]
    /\ sta_if' = FALSE /\ StationForgotten
    /\ UNCHANGED <<ap_if, ap_init>>

Disconnect ==
    /\ Calling /\ firmware
    /\ IF sta_if THEN StationDown /\ ret' = AIIO_OK
       ELSE ret' = AIIO_ERROR /\ UNCHANGED <<mgr, flags>>
    /\ Quiet /\ UNCHANGED <<wifi_config, api, failed>>

\* aiio_wifi_ap_stop, alone ("ap") or within aiio_wifi_stop ("stop"), until its delay.
ApDown(whence) ==
    /\ mgr' = [mgr EXCEPT !.ap = FALSE]
    /\ api' = whence
    /\ UNCHANGED <<flags, ret>>

ApStop ==
    /\ Calling /\ firmware
    /\ IF ap_if THEN ApDown("ap") ELSE ret' = AIIO_OK /\ UNCHANGED <<mgr, api, flags>>
    /\ Quiet /\ UNCHANGED <<wifi_config, failed>>

Stop ==
    /\ Calling /\ firmware
    /\ \/ ap_if /\ ApDown("stop")
       \/ ~ap_if /\ sta_if /\ StationDown /\ ret' = AIIO_OK /\ UNCHANGED api
       \/ ~ap_if /\ ~sta_if /\ ret' = AIIO_OK /\ UNCHANGED <<mgr, api, flags>>
    /\ Quiet /\ UNCHANGED <<wifi_config, failed>>

\* After the delay: the flags, and the station if it is aiio_wifi_stop.
ApStopped ==
    /\ api \in {"ap", "stop"}
    /\ api' = "idle" /\ ret' = AIIO_OK
    /\ ap_if' = FALSE /\ ap_init' = FALSE
    /\ IF api = "stop" /\ sta_if
       THEN /\ mgr' = [mgr EXCEPT !.auto = FALSE, !.seeks = FALSE]
            /\ sta_if' = FALSE /\ StationForgotten
       ELSE UNCHANGED <<mgr, sta_if, sta_init>>
    /\ Quiet /\ UNCHANGED <<wifi_config, failed, calls>>

\* aiio_wifi_scan, _adv: the slot is taken whether or not the manager takes the scan.
Scan ==
    /\ Calling /\ firmware
    /\ scan_cb' = calls'
    /\ mgr' = [mgr EXCEPT !.scan = TRUE]
    /\ ret' = IF mgr.scan THEN AIIO_ERROR ELSE AIIO_OK
    /\ UNCHANGED <<stack_wifi_init, firmware, flags, wifi_config, api, failed, queue, worker, codes,
                   missed>>

-----------------------------------------------------------------------------
(* The manager, and wifi_event_handler: a full queue drops the code.       *)
LinkCodes == {"CONNECTING", "CONNECTED", "GOT_IP", "DISCONNECT"}

FitsOneMore == Len(queue) <= QueueLen                                       \* mutant
Fits == Len(queue) < QueueLen
Emit(code, m) ==
    /\ firmware /\ codes < MaxCodes /\ codes' = codes + 1
    /\ mgr' = m
    /\ queue' = IF Fits THEN Append(queue, code) ELSE queue
    /\ missed' = IF code \in LinkCodes THEN ~Fits ELSE missed
    /\ currentState' = IF code = "INIT_DONE" THEN "IDLE" ELSE currentState
    /\ UNCHANGED <<driver, firmware, scan_cb, work, told, misread, stray, calls>>

\* OTHER stands for the codes of the vendor the driver has no case for.
Manager ==
    \/ codes = 0 /\ Emit("INIT_DONE", mgr)
    \/ codes = 1 /\ Emit("MGMR_DONE", mgr)
    \/ codes > 1 /\ mgr.seeks /\ mgr.link = "down" /\ Emit("CONNECTING", [mgr EXCEPT !.link = "connecting"])
    \/ mgr.link = "connecting" /\ mgr.seeks
       /\ Emit("CONNECTED", [mgr EXCEPT !.link = IF mgr.dhcp THEN "getting" ELSE "ip"])
    \/ mgr.link = "getting" /\ mgr.seeks /\ Emit("GOT_IP", [mgr EXCEPT !.link = "ip"])
    \/ mgr.link # "down" /\ Emit("DISCONNECT", [mgr EXCEPT !.link = "down"])
    \/ codes > 1 /\ mgr.scan /\ Emit("SCAN_DONE", [mgr EXCEPT !.scan = FALSE])
    \/ codes > 1 /\ mgr.ap /\ Emit("AP_STA_ADD", mgr)
    \/ codes > 1 /\ Emit("OTHER", mgr)

-----------------------------------------------------------------------------
(* aiio_wifi_config_task                                                   *)
AlwaysGot(code, state) ==                                                   \* mutant
    IF code \in {"CONNECTED", "GOT_IP"} THEN "IP_GOT" ELSE state
StateOf(code, state) ==
    CASE code = "MGMR_DONE"  -> "IDLE"
      [] code = "CONNECTING" -> "CONNECTING"
      [] code = "CONNECTED"  -> IF wifi_config.use_dhcp THEN "IP_GETTING" ELSE "IP_GOT"
      [] code = "GOT_IP"     -> "IP_GOT"
      [] code = "DISCONNECT" -> "DISCONNECT"
      [] code \in {"INIT_DONE", "SCAN_DONE", "AP_STA_ADD"} -> state
      [] OTHER               -> "UNKNOWN"

\* The worker asks whether the address is static: the link of the code just read says.
Mistakes == wifi_config.use_dhcp # (mgr.link = "getting")

Work ==
    /\ firmware /\ work = "recv" /\ queue # <<>>
    /\ queue' = Tail(queue)
    /\ LET code == Head(queue)
       IN  /\ currentState' = StateOf(code, currentState)
           /\ told' = [sta   |-> IF code \in LinkCodes THEN code ELSE told.sta,
                       scan  |-> IF code = "SCAN_DONE" THEN scan_cb ELSE told.scan,
                       scans |-> told.scans + (IF code = "SCAN_DONE" THEN 1 ELSE 0)]
           /\ work' = IF code = "CONNECTED" THEN "connected" ELSE "recv"
           /\ misread' = IF code \in LinkCodes THEN code = "CONNECTED" /\ Mistakes ELSE misread
           /\ stray' = IF code \in {"INIT_DONE", "SCAN_DONE", "AP_STA_ADD"} THEN stray ELSE code = "OTHER"
    /\ UNCHANGED <<driver, firmware, scan_cb, mgr, calls, codes, missed>>

\* A static address counts as got; use_dhcp is read again, after the callback of CONNECTED.
NeverStatic == UNCHANGED told                                               \* mutant
TellStatic == told' = IF wifi_config.use_dhcp THEN told ELSE [told EXCEPT !.sta = "GOT_IP"]

WorkConnected ==
    /\ work = "connected" /\ work' = "recv"
    /\ TellStatic
    /\ misread' = (misread \/ Mistakes)
    /\ UNCHANGED <<driver, firmware, queue, currentState, stray, scan_cb, mgr, calls, codes, missed>>

\* aiio_wifi_get_state: without an access point the manager's last failure takes the place
\* of the state, as long as the station has no link.
GetState(s_code) ==
    [ap    |-> mgr.ap,
     state |-> IF s_code # "OTHER" /\ ~mgr.ap /\ currentState \in {"IDLE", "CONNECTING", "DISCONNECT"}
               THEN s_code ELSE currentState]

Next ==
    \/ WifiInit \/ Disconnect \/ ApStop \/ Stop \/ ApStopped \/ Scan
    \/ \E ok \in BOOLEAN : Connect(ok)
    \/ \E ap_ok, sta_ok \in BOOLEAN : Start(ap_ok, sta_ok)
    \/ \E mode \in Modes : SetMode(mode)
    \/ \E ssid \in Networks, dhcp \in BOOLEAN : SetConfig(ssid, dhcp)
    \/ Manager \/ Work \/ WorkConnected

Spec == Init /\ [][Next]_vars
LiveSpec == Spec /\ WF_vars(Work \/ WorkConnected)

-----------------------------------------------------------------------------
(* Properties                                                              *)
Codes == LinkCodes \cup {"INIT_DONE", "MGMR_DONE", "SCAN_DONE", "AP_STA_ADD", "OTHER"}
TypeOK ==
    /\ stack_wifi_init \in BOOLEAN /\ firmware \in BOOLEAN
    /\ sta_if \in BOOLEAN /\ sta_init \in BOOLEAN /\ ap_if \in BOOLEAN /\ ap_init \in BOOLEAN
    /\ wifi_config.use_dhcp \in BOOLEAN /\ wifi_config.ssid \in Networks \cup {"none"}
    /\ api \in {"idle", "ap", "stop"} /\ ret \in {AIIO_OK, AIIO_ERROR}
    /\ queue \in Seq(Codes) /\ Len(queue) <= QueueLen
    /\ currentState \in {"UNKNOWN", "IDLE", "CONNECTING", "IP_GETTING", "IP_GOT", "DISCONNECT"}
    /\ scan_cb \in 0 .. MaxCalls
    /\ mgr \in [auto : BOOLEAN, seeks : BOOLEAN, link : {"down", "connecting", "getting", "ip"},
                ssid : Networks \cup {"none"}, dhcp : BOOLEAN, ap : BOOLEAN, scan : BOOLEAN]
    /\ calls \in 0 .. MaxCalls /\ codes \in 0 .. MaxCodes
    /\ work \in {"recv", "connected"} /\ failed \in [ap : BOOLEAN, sta : BOOLEAN]
    /\ missed \in BOOLEAN /\ misread \in BOOLEAN /\ stray \in BOOLEAN
    /\ told \in [sta : {"none"} \cup LinkCodes, scan : 0 .. MaxCalls, scans : Nat]

\* Between two calls the flags say what the manager does, after any calls and in any mode
\* the driver supports: an access point runs exactly when its flag says it was started and
\* the manager did not refuse it, a station that was started is sought unless that was
\* refused, and one that is sought, or would be connected again, can be disconnected.
FlagsAgree ==
    api = "idle" => /\ mgr.ap <=> ap_init /\ ~failed.ap
                    /\ sta_init => mgr.auto /\ (mgr.seeks \/ failed.sta)
                    /\ mgr.seeks => mgr.auto
                    /\ mgr.auto => sta_if

Failures == {"PSK_ERROR", "NO_AP_FOUND"}
LinkStates == [down |-> {"IDLE", "DISCONNECT"}, connecting |-> {"CONNECTING"},
               getting |-> {"IP_GETTING"}, ip |-> {"IP_GOT"}]
LastTold == [down |-> {"none", "DISCONNECT"}, connecting |-> {"CONNECTING"},
             getting |-> {"CONNECTED"}, ip |-> {"GOT_IP"}]

\* The links the driver may take this one for: where the configuration changed under it, it
\* cannot tell an address from the wait for one.
TakenFor == IF misread THEN {"getting", "ip"} ELSE {mgr.link}

\* Once the worker has caught up, and the last code about the link was not dropped, what the
\* application was told last is how the station is, and so is what aiio_wifi_get_state
\* answers, or how it failed before, or UNKNOWN after a code the driver does not know;
\* whatever was configured, dropped or misread before that code.
StateIsLink ==
    queue = <<>> /\ work = "recv" /\ ~missed /\ codes > 0 =>
        /\ mgr.link \in TakenFor
        /\ \E l \in TakenFor : told.sta \in LastTold[l]
        /\ stray => currentState = "UNKNOWN"
        /\ ~stray =>
             \A s_code \in Failures \cup {"OTHER"} :
                \/ \E l \in TakenFor : GetState(s_code).state \in LinkStates[l]
                \/ mgr.link \in {"down", "connecting"} /\ GetState(s_code).state \in Failures

\* An address that the station has is told to the application, by one code or the other,
\* unless that code was dropped or use_dhcp was changed under it: the worker waits for the
\* queue without limit.
AddressIsTold ==
    mgr.link = "ip" /\ ~missed ~> (told.sta = "GOT_IP" \/ mgr.link # "ip" \/ misread)
=============================================================================
