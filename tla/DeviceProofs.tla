----------------------------- MODULE DeviceProofs -----------------------------
(***************************************************************************)
(* Theorems about Device, for any networks and bounds: the types, what the *)
(* flash holds, and what a reset makes of it.                              *)
(***************************************************************************)
EXTENDS Device, TLAPS

-----------------------------------------------------------------------------
(* Types.                                                                  *)
LEMMA AllTyped == \A n \in Values : All(n) \in [Keys -> Values]
BY DEF All

\* A notification leaves a request in the slot.
LEMMA NotifyTyped ==
    ASSUME TypeOK, NEW s \in {"WIFI_CONNECT_OK", "SERVER_CONNECT_OK"}, Notify(s)
    PROVE  sys_state' \in {"none", "SYS_START", "WIFI_CONNECT_OK", "SERVER_CONNECT_OK"}
BY DEF TypeOK, Notify

\* What the driver is configured with is a network, or nothing.
LEMMA JoinsTyped == TypeOK => Joins \subseteq Networks \cup {Empty}
BY DEF TypeOK, Joins, Values, Keys

\* The caller's string is replaced, and nothing else.
LEMMA InMemoryIs ==
    ASSUME TypeOK, NEW v \in Values
    PROVE  /\ InMemory(v) \in [Keys -> Values]
           /\ \A k \in Keys \ {key} : InMemory(v)[k] = wifi_sta[k]
           /\ InMemory(v)["port"] = wifi_sta["port"]
<1>1. key \in Keys /\ "port" \in Keys
  BY DEF TypeOK, Keys
<1> QED
  BY <1>1 DEF InMemory, TypeOK

LEMMA SysStateTyped == TypeOK /\ SysState => TypeOK'
<1> SUFFICES ASSUME TypeOK, SysState PROVE TypeOK'
  OBVIOUS
<1> USE DEF TypeOK, memory, phone, counters
<1>1. CASE TakeStart
  BY <1>1 DEF TakeStart, history
<1>2. CASE TakeWifiOk
  BY <1>2 DEF TakeWifiOk, history, memory
<1>3. CASE TakeServerOk
  <2>1. TakesConf \in [Keys -> Values]
    BY DEF TakesConf, Values
  <2>2. disturbed' \in BOOLEAN
    BY <1>3 DEF TakeServerOk
  <2> QED
    BY <1>3, <2>1, <2>2 DEF TakeServerOk, Keys
<1>4. CASE BootWithout
  BY <1>4, AllTyped DEF BootWithout, history, Values
<1>5. CASE BootWith
  BY <1>5, JoinsTyped DEF BootWith, history
<1>6. CASE Write
  <2>1. key \in Keys /\ wifi_sta[key] \in Values /\ Empty \in Values
    BY DEF Values
  <2>2. [env EXCEPT ![key] = wifi_sta[key]] \in [Keys -> Values]
    BY <2>1
  <2>3. InMemory(Empty) \in [Keys -> Values]
    BY <2>1, InMemoryIs
  <2> QED
    BY <1>6, <2>2, <2>3 DEF Write, history
<1>7. CASE WriteFails
  <2>1. InMemory(Gone) \in [Keys -> Values]
    BY InMemoryIs DEF Values
  <2>2. events' \in 0 .. MaxEvents
    BY <1>7, BoundAssumption DEF WriteFails
  <2> QED
    BY <1>7, <2>1, <2>2 DEF WriteFails
<1>8. CASE ReadBack
  <2>1. key \in Keys /\ env[key] \in Values /\ Gone \in Values
    BY DEF Values
  <2>2. [wifi_sta EXCEPT !["ssid"] = Gone, !["pass"] = Gone] \in [Keys -> Values]
    BY <2>1
  <2> DEFINE Read == {env[key]} \cup ({wifi_sta[key]} \cap {Gone})
  <2>7. \A v \in Read : InMemory(v) \in [Keys -> Values]
    BY <2>1, InMemoryIs
  <2> HIDE DEF Read
  <2>8. ASSUME AfterKey[key] = "end" PROVE wifi_sta' \in [Keys -> Values]
    BY <1>8, <2>2, <2>8 DEF ReadBack
  <2>9. ASSUME AfterKey[key] # "end" PROVE wifi_sta' \in [Keys -> Values]
    <3>1. PICK v \in Read : wifi_sta' = InMemory(v)
      BY <1>8, <2>9 DEF ReadBack, Read
    <3> QED
      BY <2>7, <3>1
  <2>3. wifi_sta' \in [Keys -> Values]
    BY <2>8, <2>9
  <2>4. AfterKey[key] = "end" \/ AfterKey[key] \in Keys
    BY DEF AfterKey, Keys
  <2>5. key' \in Keys /\ task' \in {"wait", "boot", "write", "read"}
    BY <1>8, <2>4 DEF ReadBack
  <2>6. last' \in Networks \cup {Empty}
    BY <1>8 DEF ReadBack
  <2> QED
    BY <1>8, <2>3, <2>5, <2>6 DEF ReadBack
<1> QED
  BY <1>1, <1>2, <1>3, <1>4, <1>5, <1>6, <1>7, <1>8 DEF SysState

LEMMA SupervisorTyped == TypeOK /\ Supervisor => TypeOK'
<1> SUFFICES ASSUME TypeOK, Supervisor PROVE TypeOK'
  OBVIOUS
<1> USE DEF TypeOK, memory, phone, counters
<1>1. CASE TakeConfig
  <2>1. disturbed' \in BOOLEAN
    BY <1>1 DEF TakeConfig
  <2>2. wifi_sta' \in [Keys -> Values]
    BY <1>1, AllTyped DEF TakeConfig, Values
  <2>3. posted' \in BOOLEAN /\ asked' \in BOOLEAN /\ data' \in Networks \cup {Empty}
    BY <1>1 DEF TakeConfig
  <2>4. UNCHANGED <<env, conf, sys_state, task, net, ble, session, key, restore, events, cuts, last, missed>>
    BY <1>1 DEF TakeConfig
  <2> QED
    BY <2>1, <2>2, <2>3, <2>4
<1>2. CASE Join
  <2>1. disturbed' \in BOOLEAN
    BY <1>2 DEF Join
  <2>2. conf' \in Networks \cup {Empty} /\ session' \in Values
    BY <1>2, JoinsTyped DEF Join, Values
  <2>3. asked' \in BOOLEAN /\ net' \in {"down", "joining", "session", "online"}
    BY <1>2 DEF Join
  <2>4. UNCHANGED <<env, wifi_sta, sys_state, task, ble, data, posted, key, restore, events, cuts, last, missed>>
    BY <1>2 DEF Join
  <2> QED
    BY <2>1, <2>2, <2>3, <2>4
<1>3. CASE StartSession
  <2>1. session' \in Values
    BY <1>3 DEF StartSession, Keys, Values
  <2>2. sys_state' \in {"none", "SYS_START", "WIFI_CONNECT_OK", "SERVER_CONNECT_OK"}
    BY <1>3, NotifyTyped DEF StartSession
  <2>3. missed' \in BOOLEAN /\ net' \in {"down", "joining", "session", "online"}
    BY <1>3 DEF StartSession
  <2>4. UNCHANGED <<env, wifi_sta, conf, task, ble, data, posted, asked, key, restore, events, cuts, last, disturbed>>
    BY <1>3 DEF StartSession
  <2> QED
    BY <2>1, <2>2, <2>3, <2>4
<1>4. CASE Online
  <2>1. sys_state' \in {"none", "SYS_START", "WIFI_CONNECT_OK", "SERVER_CONNECT_OK"}
    BY <1>4, NotifyTyped DEF Online
  <2>2. missed' \in BOOLEAN
    BY <1>4 DEF Online
  <2>3. data' \in Networks \cup {Empty}
    BY <1>4 DEF Online, ClearData
  <2> QED
    BY <1>4, <2>1, <2>2, <2>3 DEF Online
<1>5. CASE LinkLost
  BY <1>5 DEF LinkLost, history, Values
<1>6. CASE JoinAgain
  <2>1. disturbed' \in BOOLEAN
    BY <1>6 DEF JoinAgain
  <2>2. events' \in 0 .. MaxEvents
    BY <1>6, BoundAssumption DEF JoinAgain
  <2> QED
    BY <1>6, <2>1, <2>2, JoinsTyped DEF JoinAgain
<1>7. CASE ConfigFails
  BY <1>7 DEF ConfigFails, ClearData, history, Values
<1> QED
  BY <1>1, <1>2, <1>3, <1>4, <1>5, <1>6, <1>7 DEF Supervisor

LEMMA OthersTyped == TypeOK /\ ((\E n \in Networks : PhoneSends(n)) \/ Restore \/ Erase \/ StartConfig \/ PowerCut) => TypeOK'
<1> SUFFICES ASSUME TypeOK, (\E n \in Networks : PhoneSends(n)) \/ Restore \/ Erase \/ StartConfig \/ PowerCut PROVE TypeOK'
  OBVIOUS
<1> USE DEF TypeOK, memory, phone, counters
<1>1. CASE Restore
  <2>1. disturbed' \in BOOLEAN
    BY <1>1 DEF Restore
  <2> QED
    BY <1>1, <2>1 DEF Restore, memory
<1>2. CASE Erase
  <2>1. env' \in [Keys -> Values]
    BY <1>2, AllTyped DEF Erase, Erased, Values
  <2>2. last' \in Networks \cup {Empty} /\ disturbed' \in BOOLEAN
    BY <1>2 DEF Erase
  <2>3. events' \in 0 .. MaxEvents
    BY <1>2, BoundAssumption DEF Erase
  <2>4. restore' \in {"pass", "default", "asked"}
    BY <1>2 DEF Erase, AfterErase
  <2> QED
    BY <1>2, <2>1, <2>2, <2>3, <2>4 DEF Erase
<1>3. CASE StartConfig
  BY <1>3 DEF StartConfig, memory, history, Values
<1>4. CASE PowerCut
  <2>1. disturbed' \in BOOLEAN
    BY <1>4 DEF PowerCut
  <2>2. cuts' \in 0 .. MaxCuts
    BY <1>4, BoundAssumption DEF PowerCut
  <2>3. wifi_sta' \in [Keys -> Values]
    BY <1>4, AllTyped DEF PowerCut, Values
  <2> QED
    BY <1>4, <2>1, <2>2, <2>3 DEF PowerCut, Keys, Values
<1>5. ASSUME NEW n \in Networks, PhoneSends(n) PROVE TypeOK'
  <2>1. events' \in 0 .. MaxEvents
    BY <1>5, BoundAssumption DEF PhoneSends
  <2> QED
    BY <1>5, <2>1 DEF PhoneSends, history
<1> QED
  BY <1>1, <1>2, <1>3, <1>4, <1>5

LEMMA TypeInit == Init => TypeOK
<1> SUFFICES ASSUME Init PROVE TypeOK
  OBVIOUS
<1>1. events \in 0 .. MaxEvents /\ cuts \in 0 .. MaxCuts
  BY BoundAssumption DEF Init
<1>2. env \in [Keys -> Values] /\ wifi_sta \in [Keys -> Values]
  BY AllTyped DEF Init, Values
<1> QED
  BY <1>1, <1>2 DEF Init, TypeOK, Values, Keys

LEMMA TypeStep == TypeOK /\ [Next]_vars => TypeOK'
<1>1. TypeOK /\ UNCHANGED vars => TypeOK'
  BY DEF TypeOK, vars, memory, phone, counters, history
<1> QED
  BY <1>1, SysStateTyped, SupervisorTyped, OthersTyped DEF Next

\* Every variable stays in its domain, whatever the phone configures and whenever the
\* device is reset (aipi_device.c).
THEOREM TypeCorrect == Spec => []TypeOK
BY TypeInit, TypeStep, PTL DEF Spec

-----------------------------------------------------------------------------
(* What the flash holds.  A save that nothing disturbs has written conf    *)
(* for the variables before key, and has it in memory for those after it.  *)
Done == [ssid |-> {}, pass |-> {"ssid"}, mqip |-> {"ssid", "pass"},
         token |-> {"ssid", "pass", "mqip"}, port |-> {"ssid", "pass", "mqip", "token"}]

Written == IF task = "read" THEN Done[key] \cup {key} ELSE Done[key]

SaveInv ==
    Saving /\ ~disturbed =>
        /\ restore = "none" /\ conf \in Networks
        /\ \A k \in Written : env[k] = conf
        /\ \A k \in Keys \ Written : wifi_sta[k] = conf

FlashInv == SettingsAgree /\ SaveInv

\* The sets of variables written grow by the one that was just read again.
LEMMA DoneGrows ==
    ASSUME NEW k \in Keys
    PROVE  /\ k \notin Done[k]
           /\ AfterKey[k] = "end" => Done[k] \cup {k} = Keys
           /\ AfterKey[k] # "end" => AfterKey[k] \in Keys /\ Done[AfterKey[k]] = Done[k] \cup {k}
<1>1. CASE k = "ssid"
  BY <1>1 DEF Done, AfterKey, Keys
<1>2. CASE k = "pass"
  BY <1>2 DEF Done, AfterKey, Keys
<1>3. CASE k = "mqip"
  BY <1>3 DEF Done, AfterKey, Keys
<1>4. CASE k = "token"
  BY <1>4 DEF Done, AfterKey, Keys
<1>5. CASE k = "port"
  BY <1>5 DEF Done, AfterKey, Keys
<1> QED
  BY <1>1, <1>2, <1>3, <1>4, <1>5 DEF Keys

LEMMA FlashInit == Init => FlashInv
BY DEF Init, FlashInv, SettingsAgree, SaveInv, Saving

\* A save begins undisturbed only when the memory holds one network.
LEMMA SaveStarts == TypeOK /\ TakeServerOk => FlashInv'
<1> SUFFICES ASSUME TypeOK, TakeServerOk PROVE FlashInv'
  OBVIOUS
<1>1. task' = "write" /\ key' = "ssid" /\ Saving'
  BY DEF TakeServerOk, Saving
<1>2. SettingsAgree'
  BY <1>1 DEF SettingsAgree
<1>3. ASSUME ~disturbed' PROVE SaveInv'
  <2>1. Agree /\ restore = "none"
    BY <1>3 DEF TakeServerOk
  <2>2. conf \in Networks /\ \A k \in {"mqip", "token", "port"} : wifi_sta[k] = conf
    BY <2>1 DEF Agree
  <2>3. \A k \in Keys : wifi_sta'[k] = conf
    BY <2>2 DEF TakeServerOk, TakesConf, TypeOK, Keys
  <2>4. Written' = {}
    BY <1>1 DEF Written, Done
  <2> QED
    BY <2>1, <2>2, <2>3, <2>4 DEF SaveInv, TakeServerOk
<1> QED
  BY <1>2, <1>3 DEF FlashInv, SaveInv

\* A variable is written with what the memory has for it.
LEMMA SaveWrites == TypeOK /\ FlashInv /\ Write => FlashInv'
<1> SUFFICES ASSUME TypeOK, FlashInv, Write PROVE FlashInv'
  OBVIOUS
<1>1. task = "write" /\ task' = "read" /\ key' = key /\ Saving /\ Saving'
  BY DEF Write, Saving
<1>2. SettingsAgree'
  BY <1>1 DEF SettingsAgree
<1>3. ASSUME ~disturbed' PROVE SaveInv'
  <2>1. restore' = "none" /\ conf' = conf /\ conf \in Networks
    BY <1>1, <1>3 DEF FlashInv, SaveInv, Write, history
  <2>2. \A k \in Done[key] : env[k] = conf
    BY <1>1, <1>3 DEF FlashInv, SaveInv, Write, history, Written
  <2>3. \A k \in Keys \ Done[key] : wifi_sta[k] = conf
    BY <1>1, <1>3 DEF FlashInv, SaveInv, Write, history, Written
  <2>4. key \in Keys /\ key \notin Done[key]
    BY DoneGrows DEF TypeOK
  <2>5. Written' = Done[key] \cup {key} /\ Done[key] \subseteq Keys
    BY <1>1, <2>4 DEF Written, Done, Keys
  <2>6. \A k \in Keys : env'[k] = IF k = key THEN wifi_sta[key] ELSE env[k]
    BY DEF Write, TypeOK
  <2>7. \A k \in Keys \ {key} : wifi_sta'[k] = wifi_sta[k]
    BY InMemoryIs DEF Write, Values
  <2>8. \A k \in Written' : env'[k] = conf'
    BY <2>1, <2>2, <2>3, <2>4, <2>5, <2>6
  <2>9. \A k \in Keys \ Written' : wifi_sta'[k] = conf'
    BY <2>1, <2>3, <2>5, <2>7
  <2> QED
    BY <2>1, <2>8, <2>9 DEF SaveInv
<1> QED
  BY <1>2, <1>3 DEF FlashInv, SaveInv

\* The variable is read again; after the last one the flash is that of conf.
LEMMA SaveReads == TypeOK /\ FlashInv /\ ReadBack => FlashInv'
<1> SUFFICES ASSUME TypeOK, FlashInv, ReadBack PROVE FlashInv'
  OBVIOUS
<1>1. task = "read" /\ Saving /\ env' = env /\ conf' = conf /\ restore' = restore /\ disturbed' = disturbed
  BY DEF ReadBack, Saving
<1>2. CASE disturbed
  BY <1>1, <1>2 DEF FlashInv, SettingsAgree, SaveInv
<1>3. CASE ~disturbed
  <2>1. restore = "none" /\ conf \in Networks
    BY <1>1, <1>3 DEF FlashInv, SaveInv
  <2>2. key \in Keys /\ Written = Done[key] \cup {key}
    BY <1>1 DEF Written, TypeOK
  <2>3. \A k \in Written : env[k] = conf
    BY <1>1, <1>3 DEF FlashInv, SaveInv
  <2>4. \A k \in Keys \ Written : wifi_sta[k] = conf
    BY <1>1, <1>3 DEF FlashInv, SaveInv
  <2>5. CASE AfterKey[key] = "end"
    <3>1. \A k \in Keys : env[k] = conf
      BY <2>2, <2>3, <2>5, DoneGrows
    <3>2. env = All(conf)
      BY <3>1 DEF TypeOK, All
    <3>3. task' = "wait" /\ last' = conf
      BY <1>3, <2>5 DEF ReadBack
    <3>4. env' = All(last')
      BY <1>1, <3>2, <3>3
    <3> QED
      BY <3>3, <3>4 DEF FlashInv, SettingsAgree, SaveInv, Saving
  <2>6. CASE AfterKey[key] # "end"
    <3>1. task' = "write" /\ key' = AfterKey[key]
      BY <2>6 DEF ReadBack
    <3>2. Written' = Written
      BY <2>2, <2>6, <3>1, DoneGrows DEF Written
    <3>3. \A k \in Keys \ {key} : wifi_sta'[k] = wifi_sta[k]
      <4>1. env[key] \in Values /\ Gone \in Values
        BY DEF TypeOK, Values
      <4> QED
        BY <2>6, <4>1, InMemoryIs DEF ReadBack
    <3>4. \A k \in Keys \ Written' : wifi_sta'[k] = conf
      BY <2>2, <2>4, <3>2, <3>3
    <3>5. SaveInv'
      BY <1>1, <2>1, <2>3, <3>2, <3>4 DEF SaveInv
    <3> QED
      BY <3>1, <3>5 DEF FlashInv, SettingsAgree, Saving
  <2> QED
    BY <2>5, <2>6
<1> QED
  BY <1>2, <1>3

\* A step outside a save that leaves the flash and the restore's progress alone.
LEMMA KeptOutside ==
    ASSUME FlashInv, ~Saving, ~Saving', UNCHANGED <<env, restore, last, disturbed>>
    PROVE  FlashInv'
BY DEF FlashInv, SettingsAgree, SaveInv

\* A step of another task that leaves the settings alone.
LEMMA KeptBeside ==
    ASSUME FlashInv, UNCHANGED <<env, wifi_sta, conf, task, key, restore, last, disturbed>>
    PROVE  FlashInv'
BY DEF FlashInv, SettingsAgree, SaveInv, Saving, Written

LEMMA FlashStep == TypeOK /\ FlashInv /\ [Next]_vars => FlashInv'
<1> SUFFICES ASSUME TypeOK, FlashInv, [Next]_vars PROVE FlashInv'
  OBVIOUS
<1>1. CASE TakeStart
  BY <1>1, KeptOutside DEF TakeStart, history, Saving
<1>2. CASE TakeWifiOk
  BY <1>2, KeptOutside DEF TakeWifiOk, history, memory, Saving
<1>3. CASE TakeServerOk
  BY <1>3, SaveStarts
<1>4. CASE BootWithout
  BY <1>4, KeptOutside DEF BootWithout, history, Saving
<1>5. CASE BootWith
  BY <1>5 DEF BootWith, history, Saving, FlashInv, SettingsAgree, SaveInv
<1>6. CASE Write
  BY <1>6, SaveWrites
<1>7. CASE ReadBack
  BY <1>7, SaveReads
<1>8. CASE TakeConfig
  <2>1. Saving' = Saving
    BY <1>8 DEF TakeConfig, Saving
  <2>2. CASE Saving
    BY <1>8, <2>1, <2>2 DEF TakeConfig, FlashInv, SettingsAgree, SaveInv
  <2>3. CASE ~Saving
    <3>1. disturbed' = disturbed
      BY <1>8, <2>3 DEF TakeConfig, TypeOK
    <3> QED
      BY <1>8, <2>1, <2>3, <3>1, KeptOutside DEF TakeConfig
  <2> QED
    BY <2>2, <2>3
<1>9. CASE Join
  BY <1>9 DEF Join, Saving, FlashInv, SettingsAgree, SaveInv
<1>10. CASE StartSession
  BY <1>10, KeptBeside DEF StartSession, memory
<1>11. CASE Online
  BY <1>11, KeptBeside DEF Online, memory
<1>12. CASE LinkLost \/ ConfigFails \/ \E n \in Networks : PhoneSends(n)
  BY <1>12, KeptBeside DEF LinkLost, ConfigFails, PhoneSends, memory, history
<1>18. CASE WriteFails
  <2>1. task = "write" /\ task' = "read" /\ disturbed'
    BY <1>18 DEF WriteFails
  <2> QED
    BY <2>1 DEF FlashInv, SettingsAgree, SaveInv, Saving
<1>19. CASE JoinAgain
  BY <1>19 DEF JoinAgain, Saving, FlashInv, SettingsAgree, SaveInv
<1>13. CASE Restore
  BY <1>13 DEF Restore, memory, Saving, FlashInv, SettingsAgree, SaveInv
<1>14. CASE Erase
  <2>1. Saving => disturbed
    BY <1>14 DEF Erase, FlashInv, SaveInv
  <2>2. Saving' = Saving /\ (disturbed => disturbed')
    BY <1>14 DEF Erase, Saving
  <2>3. SaveInv'
    BY <2>1, <2>2 DEF SaveInv
  <2>4. CASE disturbed' \/ restore # "default"
    BY <1>14, <2>3, <2>4 DEF Erase, AfterErase, FlashInv, SettingsAgree
  <2>5. CASE ~disturbed' /\ restore = "default"
    BY <1>14, <2>2, <2>3, <2>5 DEF Erase, Erased, FlashInv, SettingsAgree
  <2> QED
    BY <2>4, <2>5
<1>15. CASE StartConfig
  BY <1>15 DEF StartConfig, memory, history, Saving, FlashInv, SettingsAgree, SaveInv, Written
<1>16. CASE PowerCut
  BY <1>16 DEF PowerCut, Saving, FlashInv, SettingsAgree, SaveInv
<1>17. CASE UNCHANGED vars
  BY <1>17, KeptBeside DEF vars, memory, history
<1> QED
  BY <1>1, <1>2, <1>3, <1>4, <1>5, <1>6, <1>7, <1>8, <1>9, <1>10, <1>11, <1>12, <1>13,
     <1>14, <1>15, <1>16, <1>17, <1>18, <1>19 DEF Next, SysState, Supervisor

\* Unless a save was cut short or met a new configuration, a change of the joined network
\* or a restore, the five variables of the flash are those of the network saved last.
THEOREM SettingsCorrect == Spec => []SettingsAgree
<1>1. Init => TypeOK /\ FlashInv
  BY TypeInit, FlashInit
<1>2. TypeOK /\ FlashInv /\ [Next]_vars => (TypeOK /\ FlashInv)'
  BY TypeStep, FlashStep
<1>3. FlashInv => SettingsAgree
  BY DEF FlashInv
<1> QED
  BY <1>1, <1>2, <1>3, PTL DEF Spec

-----------------------------------------------------------------------------
(* What a reset makes of the flash.  Between a reset and the decision of   *)
(* the boot nothing else of the device runs.                               *)
BootInv ==
    /\ sys_state = "SYS_START" => net = "down" /\ restore = "none" /\ ~ble /\ ~posted /\ ~asked /\ task # "boot"
    /\ task = "boot" => /\ net = "down" /\ restore = "none" /\ ~ble /\ ~posted /\ ~asked
                        /\ sys_state = "none" /\ wifi_sta = env

LEMMA BootInit == Init => BootInv
BY DEF Init, BootInv

LEMMA BootStep == BootInv /\ [Next]_vars => BootInv'
<1> SUFFICES ASSUME BootInv, [Next]_vars PROVE BootInv'
  OBVIOUS
<1> USE DEF BootInv
<1>1. CASE TakeStart
  BY <1>1 DEF TakeStart, phone
<1>2. CASE TakeWifiOk
  BY <1>2 DEF TakeWifiOk, memory, phone
<1>3. CASE TakeServerOk
  BY <1>3 DEF TakeServerOk, phone
<1>4. CASE BootWithout \/ BootWith
  BY <1>4 DEF BootWithout, BootWith, phone
<1>5. CASE Write \/ WriteFails
  BY <1>5 DEF Write, WriteFails, phone
<1>6. CASE ReadBack
  BY <1>6 DEF ReadBack, phone
<1>7. CASE TakeConfig
  BY <1>7 DEF TakeConfig
<1>8. CASE Join
  BY <1>8 DEF Join
<1>9. CASE StartSession
  BY <1>9 DEF StartSession, Notify, memory, phone
<1>10. CASE Online
  BY <1>10 DEF Online, Notify, memory, phone
<1>11. CASE LinkLost \/ JoinAgain
  BY <1>11 DEF LinkLost, JoinAgain, memory, phone
<1>17. CASE ConfigFails \/ \E n \in Networks : PhoneSends(n)
  BY <1>17 DEF ConfigFails, PhoneSends, memory
<1>12. CASE Restore
  BY <1>12 DEF Restore, memory, phone
<1>13. CASE Erase
  BY <1>13 DEF Erase, memory, phone
<1>14. CASE StartConfig
  BY <1>14 DEF StartConfig, memory, phone
<1>15. CASE PowerCut
  BY <1>15 DEF PowerCut
<1>16. CASE UNCHANGED vars
  BY <1>16 DEF vars, memory, phone
<1> QED
  BY <1>1, <1>2, <1>3, <1>4, <1>5, <1>6, <1>7, <1>8, <1>9, <1>10, <1>11, <1>12, <1>13,
     <1>14, <1>15, <1>16, <1>17 DEF Next, SysState, Supervisor

\* What the flash holds decides: the device joins the network it saved last, or waits for
\* a phone.
Decides ==
    BootWith \/ BootWithout =>
        disturbed \/ Saving' \/ restore # "none"
        \/ IF last = Empty THEN ble' ELSE conf' = last /\ wifi_sta' = All(last)

LEMMA BootDecides == TypeOK /\ SettingsAgree /\ BootInv => Decides
<1> SUFFICES ASSUME TypeOK, SettingsAgree, BootInv, BootWith \/ BootWithout,
                    ~disturbed, restore = "none"
             PROVE  IF last = Empty THEN ble' ELSE conf' = last /\ wifi_sta' = All(last)
  BY DEF Decides
<1>1. task = "boot" /\ wifi_sta = env
  BY DEF BootInv, BootWith, BootWithout
<1>2. wifi_sta = All(last)
  BY <1>1 DEF SettingsAgree, Saving
<1>3. wifi_sta["ssid"] = last /\ wifi_sta["pass"] = last
  BY <1>2 DEF All, Keys
<1>4. last \in Networks \cup {Empty} /\ last # Gone
  BY NetworkAssumption DEF TypeOK
<1>5. CASE BootWithout
  BY <1>3, <1>5 DEF BootWithout
<1>6. CASE BootWith
  <2>1. last # Empty
    BY <1>3, <1>6 DEF BootWith
  <2>2. Joins = {last}
    BY <1>3, <1>4 DEF Joins
  <2> QED
    BY <1>2, <1>6, <2>1, <2>2 DEF BootWith
<1> QED
  BY <1>5, <1>6

\* A reset finds its way: the boot joins the network of the last whole save with its
\* server, or opens provisioning when there was none (aipi_device.c, AIPI_STATE_SYS_START).
THEOREM ReturnsCorrect == Spec => ReturnsToLastNetwork
<1> DEFINE I == TypeOK /\ FlashInv /\ BootInv
<1>1. Init => I
  BY TypeInit, FlashInit, BootInit
<1>2. I /\ [Next]_vars => I'
  BY TypeStep, FlashStep, BootStep
<1>3. I => [Decides]_vars
  BY BootDecides DEF FlashInv
<1>4. Spec => [][Decides]_vars
  BY <1>1, <1>2, <1>3, PTL DEF Spec
<1> QED
  BY <1>4 DEF ReturnsToLastNetwork, Decides

-----------------------------------------------------------------------------
(* What an online device has saved.  The port is the one variable that     *)
(* stays in memory throughout a save: it tells whose session this is.      *)
PortInv ==
    /\ net \in {"session", "online"} /\ session # Empty /\ ~asked => session = wifi_sta["port"]
    /\ net = "online" => session # Empty
    /\ Saving /\ ~disturbed => wifi_sta["port"] = conf

\* The last whole save was this session's, or it is on its way.
SavedInv ==
    net = "online" /\ ~missed /\ ~disturbed /\ restore = "none" /\ ~asked =>
        sys_state = "SERVER_CONNECT_OK" \/ Saving \/ last = session

OnlineInv == PortInv /\ SavedInv

LEMMA OnlineInit == Init => OnlineInv
BY DEF Init, OnlineInv, PortInv, SavedInv, Saving

\* The save leaves the port in memory.
LEMMA PortStays == TypeOK /\ (TakeServerOk \/ Write \/ WriteFails \/ ReadBack) => wifi_sta'["port"] = wifi_sta["port"]
<1> SUFFICES ASSUME TypeOK, TakeServerOk \/ Write \/ WriteFails \/ ReadBack
             PROVE  wifi_sta'["port"] = wifi_sta["port"]
  OBVIOUS
<1>1. "port" \in Keys /\ "port" # "ssid" /\ "port" # "pass"
  BY DEF Keys
<1>2. CASE TakeServerOk
  BY <1>1, <1>2 DEF TakeServerOk, TakesConf, TypeOK
<1>3. Empty \in Values /\ Gone \in Values /\ env[key] \in Values
  BY DEF TypeOK, Values
<1>4. CASE Write \/ WriteFails
  BY <1>3, <1>4, InMemoryIs DEF Write, WriteFails
<1>5. CASE ReadBack
  <2>1. [wifi_sta EXCEPT !["ssid"] = Gone, !["pass"] = Gone]["port"] = wifi_sta["port"]
    BY <1>1 DEF TypeOK
  <2> QED
    BY <1>3, <1>5, <2>1, InMemoryIs DEF ReadBack
<1> QED
  BY <1>2, <1>4, <1>5

LEMMA OnlineStep == TypeOK /\ SaveInv /\ BootInv /\ OnlineInv /\ [Next]_vars => OnlineInv'
<1> SUFFICES ASSUME TypeOK, SaveInv, BootInv, OnlineInv, [Next]_vars PROVE OnlineInv'
  OBVIOUS
<1> USE DEF OnlineInv, PortInv, SavedInv
<1>1. CASE TakeStart
  BY <1>1 DEF TakeStart, phone, BootInv, Saving
<1>2. CASE TakeWifiOk
  BY <1>2 DEF TakeWifiOk, phone, memory, history, Saving
<1>3. CASE TakeServerOk
  <2>1. wifi_sta'["port"] = wifi_sta["port"]
    BY <1>3, PortStays
  <2>2. ~disturbed' => wifi_sta["port"] = conf
    BY <1>3 DEF TakeServerOk, phone, Agree
  <2> QED
    BY <1>3, <2>1, <2>2 DEF TakeServerOk, phone, Saving
<1>4. CASE BootWithout \/ BootWith
  BY <1>4 DEF BootWithout, BootWith, phone, BootInv, Saving
<1>5. CASE Write \/ WriteFails
  <2>1. wifi_sta'["port"] = wifi_sta["port"]
    BY <1>5, PortStays
  <2> QED
    BY <1>5, <2>1 DEF Write, WriteFails, history, phone, Saving
<1>6. CASE ReadBack
  <2>1. wifi_sta'["port"] = wifi_sta["port"]
    BY <1>6, PortStays
  <2>2. Saving
    BY <1>6 DEF ReadBack, phone, Saving
  <2>3. PortInv'
    BY <1>6, <2>1, <2>2 DEF ReadBack, phone
  <2>4. CASE AfterKey[key] = "end"
    <3>1. ~disturbed => last' = conf
      BY <1>6, <2>4 DEF ReadBack, phone
    <3>2. ~disturbed /\ net = "online" /\ ~asked => session = conf
      BY <2>2
    <3> QED
      BY <1>6, <2>3, <3>1, <3>2 DEF ReadBack, phone
  <2>5. CASE AfterKey[key] # "end"
    BY <1>6, <2>3, <2>5 DEF ReadBack, phone, Saving
  <2> QED
    BY <2>4, <2>5
<1>7. CASE TakeConfig
  BY <1>7 DEF TakeConfig, Saving
<1>8. CASE Join
  BY <1>8 DEF Join, Saving
<1>9. CASE StartSession
  BY <1>9 DEF StartSession, phone, memory, Saving
<1>10. CASE Online
  <2>1. ~missed' => sys_state' = "SERVER_CONNECT_OK"
    BY <1>10 DEF Online, phone, Notify
  <2> QED
    BY <1>10, <2>1 DEF Online, phone, memory, Saving
<1>11. CASE LinkLost \/ ConfigFails \/ \E n \in Networks : PhoneSends(n)
  BY <1>11 DEF LinkLost, ConfigFails, PhoneSends, memory, history, phone, Saving
<1>17. CASE JoinAgain
  BY <1>17 DEF JoinAgain, phone, Saving
<1>12. CASE Restore
  BY <1>12 DEF Restore, phone, memory, Saving
<1>13. CASE Erase
  BY <1>13 DEF Erase, AfterErase, phone, memory, Saving
<1>14. CASE StartConfig
  BY <1>14 DEF StartConfig, phone, memory, history, Saving
<1>15. CASE PowerCut
  BY <1>15 DEF PowerCut, Saving
<1>16. CASE UNCHANGED vars
  BY <1>16 DEF vars, phone, memory, history, Saving
<1> QED
  BY <1>1, <1>2, <1>3, <1>4, <1>5, <1>6, <1>7, <1>8, <1>9, <1>10, <1>11, <1>12, <1>13,
     <1>14, <1>15, <1>16, <1>17 DEF Next, SysState, Supervisor

\* A device that is online and at rest would come back to this session after a reset,
\* however often its link, its session and its network changed before (aipi_device.c,
\* aipi_cloud.c).
THEOREM OnlineCorrect == Spec => []OnlineIsSaved
<1> DEFINE I == TypeOK /\ FlashInv /\ BootInv /\ OnlineInv
<1>1. Init => I
  BY TypeInit, FlashInit, BootInit, OnlineInit
<1>2. I /\ [Next]_vars => I'
  BY TypeStep, FlashStep, BootStep, OnlineStep DEF FlashInv
<1>3. I => OnlineIsSaved
  BY DEF FlashInv, SettingsAgree, OnlineInv, SavedInv, OnlineIsSaved, Saving
<1> QED
  BY <1>1, <1>2, <1>3, PTL DEF Spec
=============================================================================
