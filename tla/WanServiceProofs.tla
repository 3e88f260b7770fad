-------------------------- MODULE WanServiceProofs --------------------------
(***************************************************************************)
(* Theorems about WanService, for every chain of topics, every set of      *)
(* message ids and every limit of UTC repeats: first the types and flags,  *)
(* for any application; then what one session promises when the            *)
(* application lets it end before it starts the next one (InitWaits):      *)
(* SubscribedBeforeUtc, by SubscriptionInv, which is inductive together    *)
(* with TypeOK; AnsweredBeforeOnline, the refinement of WanSession and     *)
(* SafeAlone, which rest on it.                                            *)
(***************************************************************************)
EXTENDS WanService, TLAPS

\* A message id different from the stored one exists.
LEMMA FreshIdType == FreshId \in MsgId /\ FreshId # cur_sub_msg_id
<1>1. \E id \in MsgId : id # cur_sub_msg_id
  BY MsgIdAssumption
<1> QED
  BY <1>1 DEF FreshId

\* Short of the end of the chain, what is subscribed next is a topic of it.
LEMMA TopicType ==
    TypeHandle /\ ~ChainDone => TopicToSubscribe \in Topics \cup {NoTopic}
BY LastTopicAssumption DEF TypeHandle, ChainDone, TopicToSubscribe, NextTopic, Topics,
     NoTopic

-----------------------------------------------------------------------------
(* The type invariant, action by action.  A step is typed group by group:  *)
(* first the groups it leaves alone, then each one it changes.             *)


LEMMA TeardownTypeOK == TypeOK /\ (\E t \in Threads : Teardown(t)) => TypeOK'
<1> SUFFICES ASSUME TypeOK, NEW t \in Threads, Teardown(t) PROVE TypeOK'
  OBVIOUS
<1> USE DEF TypeOK, Goto, At, serviceVars, handleVars, utcVars, mqttVars, taskVars,
            historyVars
<1>1. CASE MqttStop(t)
  <2>1. TypeTimers' /\ TypeHandle' /\ TypeCount' /\ TypeMqtt' /\ TypeLocals' /\ TypeHistory'
    BY <1>1 DEF MqttStop, StopWaits, TypeTimers, TypeHandle, TypeCount, TypeMqtt,
         TypeLocals, TypeHistory
  <2>2. TypeFlags'
    BY <1>1 DEF MqttStop, StopWaits, TypeFlags
  <2>3. TypePc'
    BY <1>1 DEF MqttStop, StopWaits, TypePc, Threads, Labels
  <2> QED
    BY <2>1, <2>2, <2>3 DEF TypeOK
<1>2. CASE MqttWait(t)
  <2>1. TypeFlags' /\ TypeTimers' /\ TypeHandle' /\ TypeCount' /\ TypeMqtt' /\ TypeLocals' /\ TypeHistory'
    BY <1>2 DEF MqttWait, TypeFlags, TypeTimers, TypeHandle, TypeCount, TypeMqtt,
         TypeLocals, TypeHistory
  <2>2. TypePc'
    BY <1>2 DEF MqttWait, TypePc, Threads, Labels
  <2> QED
    BY <2>1, <2>2 DEF TypeOK
<1>3. CASE MqttDestroy(t)
  <2>1. TypeTimers' /\ TypeHandle' /\ TypeCount' /\ TypeLocals' /\ TypeHistory'
    BY <1>3 DEF MqttDestroy, TypeTimers, TypeHandle, TypeCount, TypeLocals, TypeHistory
  <2>2. TypeFlags'
    BY <1>3 DEF MqttDestroy, TypeFlags
  <2>3. TypeMqtt'
    BY <1>3 DEF MqttDestroy, TypeMqtt, Suback, NoSuback, NoTopic
  <2>4. TypePc'
    BY <1>3 DEF MqttDestroy, TypePc, Threads, Labels
  <2> QED
    BY <2>1, <2>2, <2>3, <2>4 DEF TypeOK
<1>4. CASE MqttClear(t)
  <2>1. TypeFlags' /\ TypeTimers' /\ TypeHandle' /\ TypeCount' /\ TypeLocals' /\ TypeHistory'
    BY <1>4 DEF MqttClear, TypeFlags, TypeTimers, TypeHandle, TypeCount, TypeLocals,
         TypeHistory
  <2>2. TypeMqtt'
    BY <1>4 DEF MqttClear, TypeMqtt, Suback, NoSuback, NoTopic
  <2>3. TypePc'
    BY <1>4 DEF MqttClear, TypePc, Threads, Labels
  <2> QED
    BY <2>1, <2>2, <2>3 DEF TypeOK
<1> QED
  BY <1>1, <1>2, <1>3, <1>4 DEF Teardown

LEMMA AppTypeOK == TypeOK /\ AppStep => TypeOK'
<1> SUFFICES ASSUME TypeOK, AppStep PROVE TypeOK'
  OBVIOUS
<1> USE DEF TypeOK, Goto, At, serviceVars, handleVars, utcVars, mqttVars, taskVars,
            historyVars
<1>1. CASE UserInitFails
  <2>1. TypeTimers' /\ TypeCount' /\ TypeMqtt' /\ TypePc' /\ TypeLocals'
    BY <1>1 DEF UserInitFails, Destroy, NoFields, TypeTimers, TypeCount, TypeMqtt,
         TypePc, TypeLocals
  <2>2. TypeFlags'
    BY <1>1 DEF UserInitFails, Destroy, NoFields, TypeFlags
  <2>3. TypeHandle'
    BY <1>1 DEF UserInitFails, Destroy, NoFields, TypeHandle, Topics, NoTopic, NoId,
         States, Bits
  <2>4. TypeHistory'
    BY <1>1 DEF UserInitFails, Destroy, NoFields, TypeHistory, Topics, NoTopic
  <2> QED
    BY <2>1, <2>2, <2>3, <2>4 DEF TypeOK
<1>2. ASSUME NEW s \in Sessions, NEW act \in ActivityFlags, UserInit(s, act) PROVE TypeOK'
  <2>1. TypeTimers' /\ TypeCount' /\ TypeMqtt' /\ TypeLocals'
    BY <1>2 DEF UserInit, NoFields, TypeTimers, TypeCount, TypeMqtt, TypeLocals
  <2>2. TypeFlags'
    BY <1>2, ActivityAssumption DEF UserInit, NoFields, TypeFlags
  <2>3. TypeHandle'
    BY <1>2 DEF UserInit, NoFields, TypeHandle, Topics, NoTopic, NoId, States, Bits
  <2>4. TypePc'
    BY <1>2 DEF UserInit, NoFields, TypePc, Threads, Labels
  <2>5. TypeHistory'
    BY <1>2 DEF UserInit, NoFields, TypeHistory, Topics, NoTopic
  <2> QED
    BY <2>1, <2>2, <2>3, <2>4, <2>5 DEF TypeOK
<1>3. CASE InitMqtt
  <2>1. TypeTimers' /\ TypeHandle' /\ TypeCount' /\ TypeLocals' /\ TypeHistory'
    BY <1>3 DEF InitMqtt, MqttInit, TypeTimers, TypeHandle, TypeCount, TypeLocals, TypeHistory
  <2>2. TypeFlags'
    BY <1>3 DEF InitMqtt, MqttInit, TypeFlags
  <2>3. TypeMqtt'
    BY <1>3 DEF InitMqtt, MqttInit, TypeMqtt, Suback, NoSuback, NoTopic
  <2>4. TypePc'
    BY <1>3 DEF InitMqtt, MqttInit, TypePc, Threads, Labels
  <2> QED
    BY <2>1, <2>2, <2>3, <2>4 DEF TypeOK
<1>4. CASE InitMqttFails
  <2>1. TypeTimers' /\ TypeCount' /\ TypeLocals'
    BY <1>4 DEF InitMqttFails, Destroy, NoFields, TypeTimers, TypeCount, TypeLocals
  <2>2. TypeFlags'
    BY <1>4 DEF InitMqttFails, MqttInit, Destroy, NoFields, TypeFlags
  <2>3. TypeHandle'
    BY <1>4 DEF InitMqttFails, Destroy, NoFields, TypeHandle, Topics, NoTopic, NoId, States, Bits
  <2>4. TypeMqtt'
    BY <1>4 DEF InitMqttFails, MqttInit, TypeMqtt, Suback, NoSuback, NoTopic
  <2>5. TypePc'
    BY <1>4 DEF InitMqttFails, TypePc, Threads, Labels
  <2>6. TypeHistory'
    BY <1>4 DEF InitMqttFails, Destroy, NoFields, TypeHistory, Topics, NoTopic
  <2> QED
    BY <2>1, <2>2, <2>3, <2>4, <2>5, <2>6 DEF TypeOK
<1>5. CASE UserDeinitRefused
  <2>1. TypeTimers' /\ TypeHandle' /\ TypeCount' /\ TypeMqtt' /\ TypePc' /\ TypeLocals' /\ TypeHistory'
    BY <1>5 DEF UserDeinitRefused, TypeTimers, TypeHandle, TypeCount, TypeMqtt,
         TypePc, TypeLocals, TypeHistory
  <2>2. TypeFlags'
    BY <1>5 DEF UserDeinitRefused, TypeFlags
  <2> QED
    BY <2>1, <2>2 DEF TypeOK
<1>6. CASE UserDeinit
  <2>1. TypeTimers' /\ TypeHandle' /\ TypeCount' /\ TypeMqtt' /\ TypeLocals' /\ TypeHistory'
    BY <1>6 DEF UserDeinit, TeardownEntry, TypeTimers, TypeHandle, TypeCount,
         TypeMqtt, TypeLocals, TypeHistory
  <2>2. TypeFlags'
    BY <1>6 DEF UserDeinit, TeardownEntry, TypeFlags
  <2>3. TypePc'
    BY <1>6 DEF UserDeinit, TeardownEntry, TypePc, Threads, Labels
  <2> QED
    BY <2>1, <2>2, <2>3 DEF TypeOK
<1>7. CASE UserDeinitDone
  <2>1. TypeTimers' /\ TypeHandle' /\ TypeCount' /\ TypeMqtt' /\ TypeLocals' /\ TypeHistory'
    BY <1>7 DEF UserDeinitDone, TypeTimers, TypeHandle, TypeCount, TypeMqtt,
         TypeLocals, TypeHistory
  <2>2. TypeFlags'
    BY <1>7 DEF UserDeinitDone, TypeFlags
  <2>3. TypePc'
    BY <1>7 DEF UserDeinitDone, TypePc, Threads, Labels
  <2> QED
    BY <2>1, <2>2, <2>3 DEF TypeOK
<1>8. CASE Teardown(App)
  BY <1>8, TeardownTypeOK DEF Threads
<1> QED
  BY <1>1, <1>2, <1>3, <1>4, <1>5, <1>6, <1>7, <1>8 DEF AppStep

LEMMA MqttTypeOK == TypeOK /\ MqttStep => TypeOK'
<1> SUFFICES ASSUME TypeOK, MqttStep PROVE TypeOK'
  OBVIOUS
<1> USE DEF TypeOK, Goto, At, serviceVars, handleVars, utcVars, mqttVars, taskVars,
            historyVars, MqttUnchanged
<1>1. CASE MqttBoot
  <2>1. TypeTimers' /\ TypeHandle' /\ TypeCount' /\ TypePc' /\ TypeLocals' /\ TypeHistory'
    BY <1>1 DEF MqttBoot, TypeTimers, TypeHandle, TypeCount, TypePc, TypeLocals, TypeHistory
  <2>2. TypeFlags'
    BY <1>1 DEF MqttBoot, TypeFlags
  <2>3. TypeMqtt'
    BY <1>1 DEF MqttBoot, TypeMqtt, Suback, NoSuback, NoTopic
  <2> QED
    BY <2>1, <2>2, <2>3 DEF TypeOK
<1>2. CASE MqttDispatch
  <2>1. TypeFlags' /\ TypeTimers' /\ TypeHandle' /\ TypeCount' /\ TypePc' /\ TypeLocals' /\ TypeHistory'
    BY <1>2 DEF MqttDispatch, MqttEvents, TypeFlags, TypeTimers, TypeHandle,
         TypeCount, TypePc, TypeLocals, TypeHistory
  <2>2. TypeMqtt'
    BY <1>2 DEF MqttDispatch, MqttEvents, TypeMqtt, Suback, NoSuback, NoTopic
  <2> QED
    BY <2>1, <2>2 DEF TypeOK
<1>3. CASE MqttLoseSuback
  <2>1. TypeFlags' /\ TypeTimers' /\ TypeHandle' /\ TypeCount' /\ TypePc' /\ TypeLocals' /\ TypeHistory'
    BY <1>3 DEF MqttLoseSuback, TypeFlags, TypeTimers, TypeHandle, TypeCount, TypePc,
         TypeLocals, TypeHistory
  <2>2. TypeMqtt'
    BY <1>3 DEF MqttLoseSuback, TypeMqtt, Suback, NoSuback, NoTopic
  <2> QED
    BY <2>1, <2>2 DEF TypeOK
<1>4. CASE MqttDeliver
  <2>1. TypeTimers' /\ TypeCount' /\ TypePc' /\ TypeLocals'
    BY <1>4 DEF MqttDeliver, DeliverConnected, DeliverDisconnected, DeliverSubscribed,
         DeliverUtc, TypeTimers, TypeCount, TypePc, TypeLocals
  <2>2. TypeFlags'
    BY <1>4 DEF MqttDeliver, DeliverConnected, DeliverDisconnected, DeliverSubscribed,
         DeliverUtc, TypeFlags
  <2>3. TypeHandle'
    BY <1>4 DEF MqttDeliver, DeliverConnected, DeliverDisconnected, DeliverSubscribed,
         DeliverUtc, TypeHandle, Topics, NoTopic, NoId, States, Bits
  <2>4. TypeMqtt'
    BY <1>4 DEF MqttDeliver, DeliverConnected, DeliverDisconnected, DeliverSubscribed,
         DeliverUtc, TypeMqtt, Suback, NoSuback, NoTopic
  <2>5. TypeHistory'
    <3>1. inflight.topic \in Topics \cup {NoTopic}
      BY DEF TypeMqtt, Suback
    <3> QED
      BY <1>4, <3>1 DEF MqttDeliver, DeliverConnected, DeliverDisconnected,
           DeliverSubscribed,
                  DeliverUtc, TypeHistory
  <2> QED
    BY <2>1, <2>2, <2>3, <2>4, <2>5 DEF TypeOK
<1>5. CASE MqttClearInit
  <2>1. TypeTimers' /\ TypeHandle' /\ TypeCount' /\ TypePc' /\ TypeLocals' /\ TypeHistory'
    BY <1>5 DEF MqttClearInit, TypeTimers, TypeHandle, TypeCount, TypePc, TypeLocals,
         TypeHistory
  <2>2. TypeFlags'
    BY <1>5 DEF MqttClearInit, TypeFlags
  <2>3. TypeMqtt'
    BY <1>5 DEF MqttClearInit, TypeMqtt, Suback, NoSuback, NoTopic
  <2> QED
    BY <2>1, <2>2, <2>3 DEF TypeOK
<1>6. CASE MqttExit
  <2>1. TypeFlags' /\ TypeTimers' /\ TypeHandle' /\ TypeCount' /\ TypePc' /\ TypeLocals' /\ TypeHistory'
    BY <1>6 DEF MqttExit, TypeFlags, TypeTimers, TypeHandle, TypeCount, TypePc,
         TypeLocals, TypeHistory
  <2>2. TypeMqtt'
    BY <1>6 DEF MqttExit, TypeMqtt, Suback, NoSuback, NoTopic
  <2> QED
    BY <2>1, <2>2 DEF TypeOK
<1> QED
  BY <1>1, <1>2, <1>3, <1>4, <1>5, <1>6 DEF MqttStep

LEMMA SvcTypeOK == TypeOK /\ (\E s \in Sessions : SvcStep(s)) => TypeOK'
<1> SUFFICES ASSUME TypeOK, NEW s \in Sessions, SvcStep(s) PROVE TypeOK'
  OBVIOUS
<1> USE DEF TypeOK, Goto, At, serviceVars, handleVars, utcVars, mqttVars, taskVars,
            historyVars, SvcUnchanged, InState
<1>1. CASE SvcStart(s)
  <2>1. TypeTimers' /\ TypeCount' /\ TypeMqtt' /\ TypeLocals' /\ TypeHistory'
    BY <1>1 DEF SvcStart, TypeTimers, TypeCount, TypeMqtt, TypeLocals, TypeHistory
  <2>2. TypeFlags'
    BY <1>1 DEF SvcStart, TypeFlags
  <2>3. TypeHandle'
    BY <1>1 DEF SvcStart, TypeHandle, Topics, NoTopic, NoId, States, Bits
  <2>4. TypePc'
    BY <1>1 DEF SvcStart, TypePc, Threads, Labels
  <2> QED
    BY <2>1, <2>2, <2>3, <2>4 DEF TypeOK
<1>2. CASE SvcLoop(s)
  <2>1. TypeFlags' /\ TypeTimers' /\ TypeHandle' /\ TypeCount' /\ TypeMqtt' /\ TypeLocals' /\ TypeHistory'
    BY <1>2 DEF SvcLoop, TypeFlags, TypeTimers, TypeHandle, TypeCount, TypeMqtt,
         TypeLocals, TypeHistory
  <2>2. TypePc'
    BY <1>2 DEF SvcLoop, TypePc, Threads, Labels
  <2> QED
    BY <2>1, <2>2 DEF TypeOK
<1>3. CASE SvcInit(s)
  <2>1. TypeFlags' /\ TypeCount' /\ TypeMqtt' /\ TypeHistory'
    BY <1>3 DEF SvcInit, Enter, StartTimer, TeardownEntry, TypeFlags, TypeCount,
         TypeMqtt, TypeHistory
  <2>2. TypeTimers'
    BY <1>3 DEF SvcInit, Enter, StartTimer, TeardownEntry, TypeTimers
  <2>3. TypeHandle'
    BY <1>3 DEF SvcInit, Enter, StartTimer, TeardownEntry, TypeHandle, Topics,
         NoTopic, NoId, States, Bits
  <2>4. TypePc'
    BY <1>3 DEF SvcInit, Enter, StartTimer, TeardownEntry, TypePc, Threads, Labels
  <2>5. TypeLocals'
    BY <1>3 DEF SvcInit, Enter, StartTimer, TeardownEntry, TypeLocals, States, Causes,
         Suback, NoSuback, NoId, NoTopic, FailedId
  <2> QED
    BY <2>1, <2>2, <2>3, <2>4, <2>5 DEF TypeOK
<1>4. CASE SvcConnected(s)
  <2>1. TypeFlags' /\ TypeTimers' /\ TypeCount' /\ TypeMqtt' /\ TypeHistory'
    BY <1>4 DEF SvcConnected, Enter, TypeFlags, TypeTimers, TypeCount, TypeMqtt, TypeHistory
  <2>2. TypeHandle'
    BY <1>4 DEF SvcConnected, Enter, TypeHandle, Topics, NoTopic, NoId, States, Bits
  <2>3. TypePc'
    BY <1>4 DEF SvcConnected, Enter, TypePc, Threads, Labels
  <2>4. TypeLocals'
    BY <1>4 DEF SvcConnected, Enter, TypeLocals, States, Causes, Suback, NoSuback,
         NoId, NoTopic, FailedId
  <2> QED
    BY <2>1, <2>2, <2>3, <2>4 DEF TypeOK
<1>5. CASE SvcSubscribed(s)
  <2>1. TypeFlags' /\ TypeCount' /\ TypeMqtt' /\ TypeHistory'
    BY <1>5 DEF SvcSubscribed, Enter, StartTimer, TypeFlags, TypeCount, TypeMqtt,
         TypeHistory
  <2>2. TypeTimers'
    BY <1>5 DEF SvcSubscribed, Enter, StartTimer, TypeTimers
  <2>3. TypeHandle'
    BY <1>5 DEF SvcSubscribed, Enter, StartTimer, TypeHandle, Topics, NoTopic, NoId,
         States, Bits
  <2>4. TypePc'
    BY <1>5 DEF SvcSubscribed, Enter, StartTimer, TypePc, Threads, Labels
  <2>5. TypeLocals'
    BY <1>5 DEF SvcSubscribed, Enter, StartTimer, TypeLocals, States, Causes, Suback,
         NoSuback, NoId, NoTopic, FailedId
  <2> QED
    BY <2>1, <2>2, <2>3, <2>4, <2>5 DEF TypeOK
<1>6. CASE SvcSubscribe(s)
  <2>1. TypeFlags' /\ TypeCount' /\ TypeMqtt' /\ TypeHistory'
    BY <1>6 DEF SvcSubscribe, Enter, StartTimer, InState, TypeFlags, TypeCount,
         TypeMqtt, TypeHistory
  <2>2. TypeTimers'
    BY <1>6 DEF SvcSubscribe, Enter, StartTimer, InState, TypeTimers
  <2>3. TypeHandle'
    BY <1>6 DEF SvcSubscribe, Enter, StartTimer, InState, TypeHandle, Topics, NoTopic,
         NoId, States, Bits
  <2>4. TypePc'
    BY <1>6 DEF SvcSubscribe, Enter, StartTimer, InState, TypePc, Threads, Labels
  <2>5. TypeLocals'
    <3>1. TopicToSubscribe \in Topics \cup {NoTopic}
      BY <1>6, TopicType DEF SvcSubscribe
    <3>2. sub' \in [Sessions -> Suback]
      BY <1>6, <3>1 DEF SvcSubscribe, TypeLocals, Suback
    <3> QED
      BY <1>6, <3>2 DEF SvcSubscribe, Enter, InState, TypeLocals, States
  <2> QED
    BY <2>1, <2>2, <2>3, <2>4, <2>5 DEF TypeOK
<1>7. CASE SvcSubCall(s)
  <2>1. TypeFlags' /\ TypeTimers' /\ TypeHandle' /\ TypeCount' /\ TypeHistory'
    BY <1>7 DEF SvcSubCall, SubscribeSent, SubscribeFails, TypeFlags, TypeTimers, TypeHandle, TypeCount, TypeHistory
  <2>2. TypeMqtt'
    <3>1. sub[s] \in Suback
      BY DEF TypeLocals
    <3> QED
      BY <1>7, <3>1, FreshIdType DEF SvcSubCall, SubscribeSent, SubscribeFails, TypeMqtt, Suback
  <2>3. TypePc'
    BY <1>7 DEF SvcSubCall, SubscribeSent, SubscribeFails, TypePc, Threads, Labels
  <2>4. TypeLocals'
    <3>1. sub' \in [Sessions -> Suback]
      BY <1>7, FreshIdType DEF SvcSubCall, SubscribeSent, SubscribeFails, TypeLocals, Suback
    <3> QED
      BY <1>7, <3>1 DEF SvcSubCall, SubscribeSent, SubscribeFails, TypeLocals
  <2> QED
    BY <2>1, <2>2, <2>3, <2>4 DEF TypeOK
<1>8. CASE SvcSubId(s)
  <2>1. TypeFlags' /\ TypeTimers' /\ TypeCount' /\ TypeMqtt' /\ TypeLocals' /\ TypeHistory'
    BY <1>8 DEF SvcSubId, TypeFlags, TypeTimers, TypeCount, TypeMqtt, TypeLocals,
         TypeHistory
  <2>2. TypeHandle'
    <3>1. sub[s] \in Suback
      BY DEF TypeLocals
    <3> QED
      BY <1>8, <3>1 DEF SvcSubId, TypeHandle, Suback
  <2>3. TypePc'
    BY <1>8 DEF SvcSubId, TypePc, Threads, Labels
  <2> QED
    BY <2>1, <2>2, <2>3 DEF TypeOK
<1>9. CASE SvcSubEvent(s)
  <2>1. TypeFlags' /\ TypeTimers' /\ TypeCount' /\ TypeMqtt' /\ TypeHistory'
    BY <1>9 DEF SvcSubEvent, TypeFlags, TypeTimers, TypeCount, TypeMqtt, TypeHistory
  <2>2. TypeHandle'
    <3>1. sub[s] \in Suback
      BY DEF TypeLocals
    <3> QED
      BY <1>9, <3>1 DEF SvcSubEvent, TypeHandle, Suback
  <2>3. TypePc'
    BY <1>9 DEF SvcSubEvent, TypePc, Threads, Labels
  <2>4. TypeLocals'
    BY <1>9 DEF SvcSubEvent, TypeLocals, States, Causes, Suback, NoSuback, NoId,
         NoTopic, FailedId
  <2> QED
    BY <2>1, <2>2, <2>3, <2>4 DEF TypeOK
<1>10. CASE SvcSubTimer(s)
  <2>1. TypeFlags' /\ TypeTimers' /\ TypeHandle' /\ TypeCount' /\ TypeMqtt' /\ TypeHistory'
    BY <1>10 DEF SvcSubTimer, TeardownEntry, TypeFlags, TypeTimers, TypeHandle,
         TypeCount, TypeMqtt, TypeHistory
  <2>2. TypePc'
    BY <1>10 DEF SvcSubTimer, TeardownEntry, TypePc, Threads, Labels
  <2>3. TypeLocals'
    BY <1>10 DEF SvcSubTimer, TeardownEntry, TypeLocals, States, Causes, Suback,
         NoSuback, NoId, NoTopic, FailedId
  <2> QED
    BY <2>1, <2>2, <2>3 DEF TypeOK
<1>11. CASE SvcReqUtc(s)
  <2>1. TypeHandle' /\ TypeCount' /\ TypeMqtt' /\ TypeHistory'
    BY <1>11 DEF SvcReqUtc, Enter, StartTimer, TypeHandle, TypeCount, TypeMqtt, TypeHistory
  <2>2. TypeFlags'
    BY <1>11 DEF SvcReqUtc, Enter, StartTimer, TypeFlags
  <2>3. TypeTimers'
    BY <1>11 DEF SvcReqUtc, Enter, StartTimer, TypeTimers
  <2>4. TypePc'
    BY <1>11 DEF SvcReqUtc, Enter, StartTimer, TypePc, Threads, Labels
  <2>5. TypeLocals'
    BY <1>11 DEF SvcReqUtc, Enter, StartTimer, TypeLocals, States, Causes, Suback,
         NoSuback, NoId, NoTopic, FailedId
  <2> QED
    BY <2>1, <2>2, <2>3, <2>4, <2>5 DEF TypeOK
<1>12. CASE SvcUtcPublish(s)
  <2>1. TypeFlags' /\ TypeTimers' /\ TypeHandle' /\ TypeCount' /\ TypeMqtt' /\ TypeLocals'
    BY <1>12 DEF SvcUtcPublish, AskUtc, TypeFlags, TypeTimers, TypeHandle, TypeCount,
         TypeMqtt, TypeLocals
  <2>2. TypePc'
    BY <1>12 DEF SvcUtcPublish, AskUtc, TypePc, Threads, Labels
  <2>3. TypeHistory'
    BY <1>12 DEF SvcUtcPublish, AskUtc, TypeHistory, Topics, NoTopic
  <2> QED
    BY <2>1, <2>2, <2>3 DEF TypeOK
<1>13. CASE SvcUtcTest(s)
  <2>1. TypeMqtt' /\ TypeHistory'
    BY <1>13 DEF SvcUtcTest, TeardownEntry, TypeMqtt, TypeHistory
  <2>2. TypeFlags'
    BY <1>13 DEF SvcUtcTest, TeardownEntry, TypeFlags
  <2>3. TypeTimers'
    BY <1>13 DEF SvcUtcTest, TeardownEntry, TypeTimers
  <2>4. TypeHandle'
    BY <1>13 DEF SvcUtcTest, TeardownEntry, TypeHandle, Topics, NoTopic, NoId, States, Bits
  <2>5. TypeCount'
    <3>1. utc_repeat_count \in Nat /\ utc_repeat_count =< MaxUtcRepeat
      BY MaxUtcRepeatAssumption DEF TypeCount
    <3> DEFINE count == IF utc_req THEN utc_repeat_count ELSE 0
    <3>2. count \in 0 .. MaxUtcRepeat /\ count + 1 \in Nat
      BY <3>1, MaxUtcRepeatAssumption
    <3>3. utc_repeat_count' \in {0, count} \/ (utc_repeat_count' = count + 1 /\ ~PastLimit(count + 1))
      BY <1>13 DEF SvcUtcTest
    <3> QED
      BY <3>2, <3>3, MaxUtcRepeatAssumption DEF TypeCount, PastLimit
  <2>6. TypePc'
    BY <1>13 DEF SvcUtcTest, TeardownEntry, TypePc, Threads, Labels
  <2>7. TypeLocals'
    BY <1>13 DEF SvcUtcTest, TeardownEntry, TypeLocals, States, Causes, Suback,
         NoSuback, NoId, NoTopic, FailedId
  <2> QED
    BY <2>1, <2>2, <2>3, <2>4, <2>5, <2>6, <2>7 DEF TypeOK
<1>14. CASE SvcActivity(s)
  <2>1. TypeTimers' /\ TypeCount' /\ TypeMqtt' /\ TypeHistory'
    BY <1>14 DEF SvcActivity, Enter, TypeTimers, TypeCount, TypeMqtt, TypeHistory
  <2>2. TypeFlags'
    BY <1>14 DEF SvcActivity, Enter, TypeFlags
  <2>3. TypeHandle'
    BY <1>14 DEF SvcActivity, Enter, TypeHandle, Topics, NoTopic, NoId, States, Bits
  <2>4. TypePc'
    BY <1>14 DEF SvcActivity, Enter, TypePc, Threads, Labels
  <2>5. TypeLocals'
    BY <1>14 DEF SvcActivity, Enter, TypeLocals, States, Causes, Suback, NoSuback,
         NoId, NoTopic, FailedId
  <2> QED
    BY <2>1, <2>2, <2>3, <2>4, <2>5 DEF TypeOK
<1>15. CASE SvcOnline(s)
  <2>1. TypeFlags' /\ TypeTimers' /\ TypeCount' /\ TypeMqtt' /\ TypeHistory'
    BY <1>15 DEF SvcOnline, Enter, TypeFlags, TypeTimers, TypeCount, TypeMqtt, TypeHistory
  <2>2. TypeHandle'
    BY <1>15 DEF SvcOnline, Enter, TypeHandle, Topics, NoTopic, NoId, States, Bits
  <2>3. TypePc'
    BY <1>15 DEF SvcOnline, Enter, TypePc, Threads, Labels
  <2>4. TypeLocals'
    BY <1>15 DEF SvcOnline, Enter, TypeLocals, States, Causes, Suback, NoSuback, NoId,
         NoTopic, FailedId
  <2> QED
    BY <2>1, <2>2, <2>3, <2>4 DEF TypeOK
<1>16. CASE SvcOnlineCheck(s)
  <2>1. TypeHandle' /\ TypeCount' /\ TypeMqtt'
    BY <1>16 DEF SvcOnlineCheck, Enter, AskUtc, TypeHandle, TypeCount, TypeMqtt
  <2>2. TypeFlags'
    <3>1. Expired(s, "ONLINE_CHECK") \in BOOLEAN
      BY DEF Expired, TypeTimers
    <3> QED
      BY <1>16, <3>1 DEF SvcOnlineCheck, TypeFlags
  <2>3. TypeTimers'
    BY <1>16 DEF SvcOnlineCheck, Enter, AskUtc, TypeTimers
  <2>4. TypePc'
    BY <1>16 DEF SvcOnlineCheck, Enter, AskUtc, TypePc, Threads, Labels
  <2>5. TypeLocals'
    BY <1>16 DEF SvcOnlineCheck, Enter, AskUtc, TypeLocals, States, Causes, Suback,
         NoSuback, NoId, NoTopic, FailedId
  <2>6. TypeHistory'
    BY <1>16 DEF SvcOnlineCheck, Enter, AskUtc, TypeHistory, Topics, NoTopic
  <2> QED
    BY <2>1, <2>2, <2>3, <2>4, <2>5, <2>6 DEF TypeOK
<1>17. CASE SvcCheck(s)
  <2>1. TypeFlags' /\ TypeTimers' /\ TypeCount' /\ TypeMqtt' /\ TypeHistory'
    BY <1>17 DEF SvcCheck, TeardownEntry, TypeFlags, TypeTimers, TypeCount, TypeMqtt,
         TypeHistory
  <2>2. TypeHandle'
    BY <1>17 DEF SvcCheck, TeardownEntry, TypeHandle, Topics, NoTopic, NoId, States, Bits
  <2>3. TypePc'
    BY <1>17 DEF SvcCheck, TeardownEntry, TypePc, Threads, Labels
  <2>4. TypeLocals'
    BY <1>17 DEF SvcCheck, TeardownEntry, TypeLocals, States, Causes, Suback,
         NoSuback, NoId, NoTopic, FailedId
  <2> QED
    BY <2>1, <2>2, <2>3, <2>4 DEF TypeOK
<1>18. CASE SvcTorn(s)
  <2>1. TypeTimers' /\ TypeCount' /\ TypeMqtt' /\ TypeHistory'
    BY <1>18 DEF SvcTorn, StopSelf, TypeTimers, TypeCount, TypeMqtt, TypeHistory
  <2>2. TypeFlags'
    BY <1>18 DEF SvcTorn, StopSelf, TypeFlags
  <2>3. TypeHandle'
    BY <1>18 DEF SvcTorn, StopSelf, TypeHandle, Topics, NoTopic, NoId, States, Bits
  <2>4. TypePc'
    BY <1>18 DEF SvcTorn, StopSelf, TypePc, Threads, Labels
  <2>5. TypeLocals'
    BY <1>18 DEF SvcTorn, StopSelf, TypeLocals, States, Causes, Suback, NoSuback,
         NoId, NoTopic, FailedId
  <2> QED
    BY <2>1, <2>2, <2>3, <2>4, <2>5 DEF TypeOK
<1>19. CASE SvcExit(s)
  <2>1. TypeCount' /\ TypeMqtt'
    BY <1>19 DEF SvcExit, Destroy, NoFields, TypeCount, TypeMqtt
  <2>2. TypeFlags'
    BY <1>19 DEF SvcExit, Destroy, NoFields, TypeFlags
  <2>3. TypeTimers'
    BY <1>19 DEF SvcExit, Destroy, NoFields, TypeTimers
  <2>4. TypeHandle'
    BY <1>19 DEF SvcExit, Destroy, NoFields, TypeHandle, Topics, NoTopic, NoId, States, Bits
  <2>5. TypePc'
    BY <1>19 DEF SvcExit, Destroy, NoFields, TypePc, Threads, Labels
  <2>6. TypeLocals'
    BY <1>19 DEF SvcExit, Destroy, NoFields, TypeLocals, States, Causes, Suback,
         NoSuback, NoId, NoTopic, FailedId
  <2>7. TypeHistory'
    BY <1>19 DEF SvcExit, Destroy, NoFields, TypeHistory, Topics, NoTopic
  <2> QED
    BY <2>1, <2>2, <2>3, <2>4, <2>5, <2>6, <2>7 DEF TypeOK
<1>20. CASE Teardown(s)
  BY <1>20, TeardownTypeOK DEF Threads
<1> QED
  BY <1>1, <1>2, <1>3, <1>4, <1>5, <1>6, <1>7, <1>8, <1>9, <1>10, <1>11, <1>12, <1>13,
       <1>14, <1>15, <1>16, <1>17, <1>18, <1>19, <1>20 DEF SvcStep

\* What the timer and the faults change.
LEMMA OtherTypeOK ==
    TypeOK /\ ((\E s \in Sessions : Tick(s)) \/ NullHandle \/ FreedClient \/ UNCHANGED vars)
        => TypeOK'
<1> SUFFICES ASSUME TypeOK,
                    (\E s \in Sessions : Tick(s)) \/ NullHandle \/ FreedClient \/ UNCHANGED vars
             PROVE  TypeOK'
  OBVIOUS
<1> USE DEF TypeOK, serviceVars, handleVars, utcVars, mqttVars, taskVars, historyVars
<1>1. ASSUME NEW s \in Sessions, Tick(s) PROVE TypeOK'
  <2>1. TypeTimers'
    BY <1>1 DEF Tick, TypeTimers
  <2>2. TypeFlags' /\ TypeHandle' /\ TypeCount' /\ TypeMqtt' /\ TypePc' /\ TypeLocals' /\ TypeHistory'
    BY <1>1 DEF Tick, TypeFlags, TypeHandle, TypeCount, TypeMqtt, TypePc, TypeLocals,
         TypeHistory
  <2> QED
    BY <2>1, <2>2
<1>2. CASE NullHandle \/ FreedClient
  <2>1. TypeHistory'
    BY <1>2 DEF NullHandle, FreedClient, FaultUnchanged, TypeHistory
  <2>2. TypeFlags' /\ TypeTimers' /\ TypeHandle' /\ TypeCount' /\ TypeMqtt' /\ TypePc' /\ TypeLocals'
    BY <1>2 DEF NullHandle, FreedClient, FaultUnchanged, TypeFlags, TypeTimers, TypeHandle,
                TypeCount, TypeMqtt, TypePc, TypeLocals
  <2> QED
    BY <2>1, <2>2
<1>3. CASE UNCHANGED vars
  BY <1>3 DEF vars, TypeFlags, TypeTimers, TypeHandle, TypeCount, TypeMqtt, TypePc,
       TypeLocals,
              TypeHistory
<1> QED
  BY <1>1, <1>2, <1>3

LEMMA InitTypeOK == Init => TypeOK
<1> SUFFICES ASSUME Init PROVE TypeOK
  OBVIOUS
<1> USE DEF Init
<1>1. TypeFlags
  BY DEF TypeFlags
<1>2. TypeTimers
  BY DEF TypeTimers
<1>3. TypeHandle
  BY DEF TypeHandle, States, Bits, Topics
<1>4. TypeCount
  BY MaxUtcRepeatAssumption DEF TypeCount
<1>5. TypeMqtt
  BY DEF TypeMqtt, Suback, NoSuback
<1>6. TypePc
  BY DEF TypePc, Labels
<1>7. TypeLocals
  BY DEF TypeLocals, States, Causes, Suback, NoSuback
<1>8. TypeHistory
  BY DEF TypeHistory
<1> QED
  BY <1>1, <1>2, <1>3, <1>4, <1>5, <1>6, <1>7, <1>8 DEF TypeOK

\* Every variable stays in its domain for every value of the constants; in particular
\* the walk along the topics never leaves the chain (aiio_wan_service.c, SUBSCRIBED) and
\* utc_repeat_count, which outlives the sessions, never passes its limit.
THEOREM TypeCorrect == Spec => []TypeOK
<1>1. TypeOK /\ [Next]_vars => TypeOK'
  BY AppTypeOK, MqttTypeOK, SvcTypeOK, OtherTypeOK DEF Next, Halted
<1> QED
  BY InitTypeOK, <1>1, PTL DEF Spec

-----------------------------------------------------------------------------
\* A service step moves its own thread, never the application, and can only clear
\* service_init, together with the handle.
LEMMA SvcKeepsFlags ==
    ASSUME TypeOK, NEW s \in Sessions, SvcStep(s)
    PROVE  /\ pc'[App] = pc[App] /\ service_init_state' = service_init_state
           /\ \/ service_init' = service_init /\ handle' = handle
              \/ service_init' = FALSE
<1> s # App /\ pc \in [Threads -> Labels] /\ App \in Threads
  BY ThreadAssumption DEF TypeOK, TypePc, Threads
<1> USE DEF Goto, At, serviceVars, SvcUnchanged
<1>1. CASE SvcStart(s) \/ SvcLoop(s) \/ SvcInit(s) \/ SvcConnected(s)
  BY <1>1 DEF SvcStart, SvcLoop, SvcInit, SvcConnected, InState
<1>2. CASE SvcSubscribed(s) \/ SvcSubscribe(s) \/ SvcSubCall(s) \/ SvcSubId(s)
           \/ SvcSubEvent(s) \/ SvcSubTimer(s)
  BY <1>2 DEF SvcSubscribed, SvcSubscribe, SvcSubCall, SvcSubId, SvcSubEvent, SvcSubTimer, InState
<1>3. CASE SvcReqUtc(s) \/ SvcUtcPublish(s) \/ SvcUtcTest(s)
  BY <1>3 DEF SvcReqUtc, SvcUtcPublish, SvcUtcTest, InState
<1>4. CASE SvcActivity(s) \/ SvcOnline(s) \/ SvcOnlineCheck(s)
  BY <1>4 DEF SvcActivity, SvcOnline, SvcOnlineCheck, InState
<1>5. CASE SvcCheck(s) \/ SvcTorn(s)
  BY <1>5 DEF SvcCheck, SvcTorn
<1>6. CASE SvcExit(s)
  BY <1>6 DEF SvcExit, Destroy
<1>7. CASE Teardown(s)
  BY <1>7 DEF Teardown, MqttStop, MqttWait, MqttDestroy, MqttClear
<1> QED
  BY <1>1, <1>2, <1>3, <1>4, <1>5, <1>6, <1>7 DEF SvcStep

\* The application's service_init_state and the service's service_init agree whenever
\* the application is between two calls, and service_init is never set without a
\* handle: whoever ends the session (the application, the service task after a timeout,
\* the mqtt task on a disconnection), and even when the application does not wait for
\* an old session to end.
THEOREM FlagsAgreeCorrect == Spec => []FlagsAgree
<1>1. Init => FlagsAgree
  BY DEF Init, FlagsAgree
<1>2. TypeOK /\ FlagsAgree /\ [Next]_vars => FlagsAgree'
  <2> SUFFICES ASSUME TypeOK, FlagsAgree, [Next]_vars PROVE FlagsAgree'
    OBVIOUS
  <2> pc \in [Threads -> Labels] /\ App \in Threads
    BY DEF TypeOK, TypePc, Threads
  <2> USE DEF FlagsAgree, Goto, At, serviceVars
  <2>1. CASE AppStep
    <3>1. CASE UserInitFails
      BY <3>1 DEF UserInitFails, Destroy
    <3>2. ASSUME NEW s \in Sessions, NEW act \in ActivityFlags, UserInit(s, act)
          PROVE  FlagsAgree'
      BY <3>2, ThreadAssumption DEF UserInit
    <3>3. CASE InitMqtt \/ InitMqttFails
      BY <3>3 DEF InitMqtt, MqttInit, InitMqttFails, Destroy
    <3>4. CASE UserDeinitRefused \/ UserDeinitDone
      BY <3>4 DEF UserDeinitRefused, UserDeinitDone
    <3>5. CASE UserDeinit
      BY <3>5 DEF UserDeinit, TeardownEntry
    <3>6. CASE Teardown(App)
      BY <3>6 DEF Teardown, MqttStop, MqttWait, MqttDestroy, MqttClear
    <3> QED
      BY <2>1, <3>1, <3>2, <3>3, <3>4, <3>5, <3>6 DEF AppStep
  <2>2. CASE MqttStep
    BY <2>2 DEF MqttStep, MqttUnchanged, MqttBoot, MqttDispatch, MqttLoseSuback, MqttDeliver,
                MqttClearInit, MqttExit
  <2>3. ASSUME NEW s \in Sessions, SvcStep(s) PROVE FlagsAgree'
    BY <2>3, SvcKeepsFlags
  <2>4. ASSUME NEW s \in Sessions, Tick(s) PROVE FlagsAgree'
    BY <2>4 DEF Tick
  <2>5. CASE NullHandle \/ FreedClient \/ UNCHANGED vars
    BY <2>5 DEF NullHandle, FreedClient, FaultUnchanged, vars
  <2> QED
    BY <2>1, <2>2, <2>3, <2>4, <2>5 DEF Next, Halted
<1> QED
  BY <1>1, <1>2, TypeCorrect, PTL DEF Spec

-----------------------------------------------------------------------------
(* The chain of subscriptions, one session at a time.                      *)

ChainVars == <<acked, cur_sub_event, last_sub_event, cur_sub_msg_id, inflight, sub, handle>>

\* A step of session s that leaves the chain's variables alone, and neither enters nor
\* moves along its subscription, keeps what they say.
LEMMA ChainFrame ==
    ASSUME TypeOK, SubscriptionInv, NEW s \in Sessions, NEW l \in Labels, pc[s] # "none",
           UNCHANGED ChainVars, Goto(s, l),
           l \notin Subscribing
    PROVE  /\ OneSession' /\ ChainStored'
           /\ \A r \in Sessions : handle' # NoHandle /\ pc'[r] \in Subscribing => ChainPending(r)'
<1> USE DEF SubscriptionInv, Goto, ChainVars
<1> pc \in [Threads -> Labels] /\ s \in Threads
  BY DEF TypeOK, TypePc, Threads
<1>1. \A r \in Sessions : r # s => pc'[r] = pc[r]
  OBVIOUS
<1>2. OneSession'
  BY <1>1 DEF OneSession
<1>3. ChainStored'
  BY DEF ChainStored
<1>4. ASSUME NEW r \in Sessions, handle' # NoHandle, pc'[r] \in Subscribing
      PROVE  ChainPending(r)'
  <2>1. r # s
    BY <1>4
  <2>2. pc'[r] = pc[r] /\ ChainPending(r)
    BY <2>1, <1>1, <1>4
  <2> QED
    BY <2>2 DEF ChainPending
<1> QED
  BY <1>2, <1>3, <1>4

\* A new or destroyed handle: nothing subscribed, nothing acknowledged.
LEMMA ChainFresh ==
    ASSUME TypeOK, ChainStored, NoFields, inflight' \in {inflight, NoSuback}
    PROVE  ChainStored' /\ SubscribedBeforeUtc'
<1>1. inflight'.id # FailedId
  BY DEF ChainStored, NoSuback, NoId, FailedId
<1> QED
  BY <1>1 DEF NoFields, ChainStored, SubscribedBeforeUtc, Subscribed, NoTopic

\* The steps of session s that do not touch the chain.
LEMMA QuietStep ==
    ASSUME TypeOK, SubscriptionInv, NEW s \in Sessions, NEW l \in Labels, pc[s] # "none",
           UNCHANGED ChainVars, Goto(s, l), l \notin Subscribing,
           handle # NoHandle /\ l \in AskingUtc => service_state' = "REQ_UTC",
           handle # NoHandle /\ service_state' \in Subscribed => service_state \in Subscribed
    PROVE  SubscriptionInv'
<1>1. /\ OneSession' /\ ChainStored'
      /\ \A r \in Sessions : handle' # NoHandle /\ pc'[r] \in Subscribing => ChainPending(r)'
  BY ChainFrame
<1>2. SubscribedBeforeUtc'
  BY DEF SubscriptionInv, SubscribedBeforeUtc, ChainVars
<1>3. ASSUME NEW r \in Sessions, handle' # NoHandle, pc'[r] \in AskingUtc
      PROVE  service_state' = "REQ_UTC"
  <2>1. CASE r = s
    BY <2>1, <1>3 DEF Goto, ChainVars, TypeOK, TypePc, Threads
  <2>2. CASE r # s
    BY <2>2, <1>3 DEF Goto, AskingUtc, SubscriptionInv, OneSession, TypeOK, TypePc, Threads
  <2> QED
    BY <2>1, <2>2
<1> QED
  BY <1>1, <1>2, <1>3 DEF SubscriptionInv

LEMMA QuietSvcStep ==
    ASSUME TypeOK, SubscriptionInv, NEW s \in Sessions,
           \/ SvcStart(s) \/ SvcLoop(s) \/ SvcInit(s) \/ SvcConnected(s)
           \/ SvcSubTimer(s) \/ SvcReqUtc(s) \/ SvcUtcPublish(s) \/ SvcUtcTest(s)
           \/ SvcActivity(s) \/ SvcOnline(s) \/ SvcOnlineCheck(s)
           \/ SvcCheck(s) \/ SvcTorn(s) \/ Teardown(s)
    PROVE  SubscriptionInv'
<1> USE DEF At, InState, SvcUnchanged, ChainVars, handleVars, serviceVars, mqttVars, taskVars,
            historyVars, Labels, Subscribing, AskingUtc, Subscribed
<1>1. pc[s] # "none"
  BY DEF Teardown, MqttStop, MqttWait, MqttDestroy, MqttClear, SvcStart, SvcLoop, SvcInit,
         SvcConnected, SvcSubTimer, SvcReqUtc, SvcUtcPublish, SvcUtcTest, SvcActivity, SvcOnline,
         SvcOnlineCheck, SvcCheck, SvcTorn
<1> DEFINE Quiet(l) ==
      /\ UNCHANGED ChainVars /\ Goto(s, l) /\ l \notin Subscribing
      /\ handle # NoHandle /\ l \in AskingUtc => service_state' = "REQ_UTC"
      /\ handle # NoHandle /\ service_state' \in Subscribed => service_state \in Subscribed
<1>2. SUFFICES \E l \in Labels : Quiet(l)
  BY <1>1, QuietStep
<1>3. CASE SvcStart(s)
  <2>1. Quiet("loop")
    BY <1>3 DEF SvcStart
  <2> QED
    BY <2>1
<1>4. CASE SvcLoop(s)
  <2>1. Quiet("body") \/ Quiet("exit")
    BY <1>4 DEF SvcLoop
  <2> QED
    BY <2>1
<1>5. CASE SvcInit(s) \/ SvcConnected(s)
  <2>1. Quiet("check") \/ Quiet("torn") \/ Quiet("stop")
    BY <1>5 DEF SvcInit, SvcConnected, TeardownEntry
  <2> QED
    BY <2>1
<1>6. CASE SvcSubTimer(s)
  <2>1. Quiet("check") \/ Quiet("torn") \/ Quiet("stop")
    BY <1>6 DEF SvcSubTimer, TeardownEntry
  <2> QED
    BY <2>1
<1>7. CASE SvcReqUtc(s)
  <2>1. Quiet("utc_publish") \/ Quiet("utc_test")
    BY <1>7 DEF SvcReqUtc
  <2> QED
    BY <2>1
<1>8. CASE SvcUtcPublish(s)
  <2>1. handle # NoHandle => service_state = "REQ_UTC"
    BY <1>8 DEF SvcUtcPublish, SubscriptionInv
  <2>2. Quiet("utc_test")
    BY <1>8, <2>1 DEF SvcUtcPublish
  <2> QED
    BY <2>2
<1>9. CASE SvcUtcTest(s)
  <2>1. handle # NoHandle => service_state = "REQ_UTC"
    BY <1>9 DEF SvcUtcTest, SubscriptionInv
  <2>2. Quiet("check") \/ Quiet("torn") \/ Quiet("stop")
    BY <1>9, <2>1 DEF SvcUtcTest, TeardownEntry
  <2> QED
    BY <2>2
<1>10. CASE SvcActivity(s) \/ SvcOnline(s) \/ SvcOnlineCheck(s)
  <2>1. Quiet("check")
    BY <1>10 DEF SvcActivity, SvcOnline, SvcOnlineCheck
  <2> QED
    BY <2>1
<1>11. CASE SvcCheck(s)
  <2>1. Quiet("loop") \/ Quiet("torn") \/ Quiet("stop")
    BY <1>11 DEF SvcCheck, TeardownEntry
  <2> QED
    BY <2>1
<1>12. CASE SvcTorn(s)
  <2>1. Quiet("loop") \/ Quiet("check")
    BY <1>12 DEF SvcTorn, StopSelf
  <2> QED
    BY <2>1
<1>13. CASE Teardown(s)
  <2>1. Quiet("wait") \/ Quiet("destroy") \/ Quiet("clear") \/ Quiet("torn")
    BY <1>13 DEF Teardown, MqttStop, MqttWait, MqttDestroy, MqttClear
  <2> QED
    BY <2>1
<1> QED
  BY <1>3, <1>4, <1>5, <1>6, <1>7, <1>8, <1>9, <1>10, <1>11, <1>12, <1>13

-----------------------------------------------------------------------------
(* The steps along the chain.  ChainTypes gathers the types they need.     *)

LEMMA ChainTypes ==
    ASSUME TypeOK, NEW s \in Sessions
    PROVE  /\ cur_sub_event \in Nat /\ last_sub_event \in Nat /\ sub[s].topic \in Nat
           /\ sub \in [Sessions -> Suback] /\ sub[s] \in Suback /\ inflight \in Suback
           /\ pc \in [Threads -> Labels] /\ s \in Threads
           /\ handle \in Sessions \cup {NoHandle}
<1>1. sub \in [Sessions -> Suback] /\ sub[s] \in Suback /\ inflight \in Suback
  BY DEF TypeOK, TypeLocals, TypeMqtt
<1>2. sub[s].topic \in Topics \cup {NoTopic}
  BY <1>1 DEF Suback
<1>3. Topics \cup {NoTopic} \subseteq Nat
  BY DEF Topics, NoTopic
<1> QED
  BY <1>1, <1>2, <1>3 DEF TypeOK, TypeHandle, TypePc, Threads

\* Only one session runs, so a step of s leaves no other one to look at.
LEMMA OtherSessions ==
    ASSUME TypeOK, SubscriptionInv, NEW s \in Sessions, pc[s] # "none", NEW l \in Labels, Goto(s, l)
    PROVE  OneSession' /\ \A r \in Sessions : r # s => pc'[r] = "none"
BY ChainTypes DEF SubscriptionInv, OneSession, Goto

\* The whole chain is acknowledged when it ends.
LEMMA SubscribedStep ==
    ASSUME TypeOK, SubscriptionInv, NEW s \in Sessions, SvcSubscribed(s)
    PROVE  SubscriptionInv'
<1> USE DEF SvcSubscribed, InState, At, SvcUnchanged
<1>1. pc[s] # "none" /\ Goto(s, "sub_timer") /\ "sub_timer" \in Labels
  BY DEF Labels
<1>2. OneSession' /\ (\A r \in Sessions : r # s => pc'[r] = "none") /\ pc'[s] = "sub_timer"
  BY <1>1, OtherSessions, ChainTypes DEF Goto
<1>3. SubscribedBeforeUtc'
  BY DEF ChainDone, SubscriptionInv, ChainStored, SubscribedBeforeUtc, Topics
<1>4. ChainStored'
  BY DEF SubscriptionInv, ChainStored, NoTopic
<1> QED
  BY <1>2, <1>3, <1>4 DEF SubscriptionInv, Subscribing, AskingUtc

\* The topic to subscribe next comes after acknowledged ones only.
LEMMA SubscribeStep ==
    ASSUME TypeOK, SubscriptionInv, NEW s \in Sessions, SvcSubscribe(s)
    PROVE  SubscriptionInv'
<1> USE DEF SvcSubscribe, InState, At, SvcUnchanged
<1> DEFINE next == IF TopicToSubscribe = NoTopic THEN "sub_timer" ELSE "sub"
<1>1. pc[s] # "none" /\ Goto(s, next) /\ next \in Labels
  BY DEF Labels
<1>2. OneSession' /\ (\A r \in Sessions : r # s => pc'[r] = "none") /\ pc'[s] = next
  BY <1>1, OtherSessions, ChainTypes DEF Goto
<1>3. ChainStored' /\ SubscribedBeforeUtc'
  BY DEF SubscriptionInv, ChainStored, SubscribedBeforeUtc
<1>4. sub'[s].topic = TopicToSubscribe
  BY ChainTypes DEF Suback
<1>5. ASSUME TopicToSubscribe # NoTopic PROVE ChainPending(s)'
  <2>1. pc'[s] = "sub"
    BY <1>2, <1>5
  <2>2. ChainStored /\ cur_sub_event \in Nat /\ last_sub_event \in Nat
    BY ChainTypes DEF SubscriptionInv
  <2>3. TopicToSubscribe \in {NextTopic(last_sub_event), cur_sub_event, 1}
    BY <1>5 DEF TopicToSubscribe
  <2>4. /\ 1 .. (TopicToSubscribe - 1) \subseteq acked
        /\ cur_sub_event <= TopicToSubscribe
        /\ cur_sub_event # NoTopic => TopicToSubscribe <= cur_sub_event + 1
        /\ last_sub_event # NoTopic => TopicToSubscribe <= last_sub_event + 1
    <3>1. CASE "SUBSCRIBED" \in status_bits /\ last_sub_event # NoTopic
      BY <2>2, <3>1 DEF TopicToSubscribe, NextTopic, ChainStored, NoTopic
    <3>2. CASE "SUBSCRIBED" \in status_bits /\ last_sub_event = NoTopic
      BY <2>2, <3>2 DEF TopicToSubscribe, ChainStored, NoTopic
    <3>3. CASE "SUBSCRIBED" \notin status_bits
      BY <1>5, <2>2, <3>3 DEF TopicToSubscribe, ChainStored, NoTopic
    <3> QED
      BY <3>1, <3>2, <3>3
  <2> QED
    BY <1>4, <1>5, <2>1, <2>4 DEF ChainPending
<1> QED
  BY <1>2, <1>3, <1>5 DEF SubscriptionInv, Subscribing, AskingUtc

\* The SUBSCRIBE that is sent carries an id the service has not stored yet.
LEMMA SubCallStep ==
    ASSUME TypeOK, SubscriptionInv, NEW s \in Sessions, SvcSubCall(s)
    PROVE  SubscriptionInv'
<1> USE DEF SvcSubCall, SubscribeSent, SubscribeFails, At, SvcUnchanged, handleVars
<1>1. pc[s] = "sub" /\ Goto(s, "sub_id") /\ "sub_id" \in Labels
  BY DEF Labels
<1>2. OneSession' /\ (\A r \in Sessions : r # s => pc'[r] = "none") /\ pc'[s] = "sub_id"
  BY <1>1, OtherSessions, ChainTypes DEF Goto
<1>3. SubscribedBeforeUtc'
  BY DEF SubscriptionInv, SubscribedBeforeUtc
<1>4. FreshId \in MsgId /\ FreshId # cur_sub_msg_id /\ FreshId # NoId /\ FreshId # FailedId
      /\ FailedId # NoId
  BY FreshIdType, MsgIdAssumption DEF NoId, FailedId
<1>5. ChainStored'
  <2>1. inflight' = inflight \/ inflight' = [id |-> FreshId, topic |-> sub[s].topic]
    OBVIOUS
  <2> QED
    BY <1>4, <2>1 DEF SubscriptionInv, ChainStored
<1>6. ASSUME handle # NoHandle PROVE ChainPending(s)'
  <2>1. ChainPending(s) /\ inflight.id # FailedId
    BY <1>1, <1>6 DEF SubscriptionInv, ChainStored, Subscribing
  <2>2. sub'[s].topic = sub[s].topic /\ sub'[s].id \in {FreshId, FailedId}
    BY ChainTypes DEF Suback
  <2>3. sub'[s].id = inflight'.id => sub'[s].topic = inflight'.topic
    <3>1. \/ inflight' = [id |-> FreshId, topic |-> sub[s].topic]
          \/ inflight' = inflight /\ sub'[s].id = FailedId
      BY ChainTypes DEF Suback
    <3> QED
      BY <1>4, <2>1, <2>2, <3>1
  <2> QED
    BY <1>2, <1>4, <2>1, <2>2, <2>3 DEF ChainPending
<1> QED
  BY <1>2, <1>3, <1>5, <1>6 DEF SubscriptionInv, AskingUtc, Subscribing

\* First store: the id.  A matching SUBACK now finds the previous topic, which was
\* acknowledged before, or is the one subscribed again.
LEMMA SubIdStep ==
    ASSUME TypeOK, SubscriptionInv, NEW s \in Sessions, SvcSubId(s)
    PROVE  SubscriptionInv'
<1> USE DEF SvcSubId, At, SvcUnchanged, taskVars
<1>1. pc[s] = "sub_id" /\ Goto(s, "sub_event") /\ "sub_event" \in Labels
  BY DEF Labels
<1>2. OneSession' /\ (\A r \in Sessions : r # s => pc'[r] = "none") /\ pc'[s] = "sub_event"
  BY <1>1, OtherSessions, ChainTypes DEF Goto
<1>3. SubscribedBeforeUtc'
  BY DEF SubscriptionInv, SubscribedBeforeUtc
<1>4. ChainPending(s) /\ ChainStored
  BY <1>1 DEF SubscriptionInv, Subscribing
<1>5. cur_sub_event \in acked \cup {NoTopic, sub[s].topic}
  BY <1>4, ChainTypes DEF ChainPending, NoTopic
<1>6. ChainStored'
  BY <1>1, <1>4, <1>5 DEF ChainStored, ChainPending
<1>7. ChainPending(s)'
  BY <1>1, <1>2, <1>4 DEF ChainPending
<1> QED
  BY <1>2, <1>3, <1>6, <1>7 DEF SubscriptionInv, AskingUtc, Subscribing

\* Second store: the topic, whose predecessors are acknowledged.
LEMMA SubEventStep ==
    ASSUME TypeOK, SubscriptionInv, NEW s \in Sessions, SvcSubEvent(s)
    PROVE  SubscriptionInv'
<1> USE DEF SvcSubEvent, At, SvcUnchanged
<1>1. pc[s] = "sub_event" /\ Goto(s, "sub_timer") /\ "sub_timer" \in Labels
  BY DEF Labels
<1>2. OneSession' /\ (\A r \in Sessions : r # s => pc'[r] = "none") /\ pc'[s] = "sub_timer"
  BY <1>1, OtherSessions, ChainTypes DEF Goto
<1>3. SubscribedBeforeUtc'
  BY DEF SubscriptionInv, SubscribedBeforeUtc
<1>4. ChainPending(s) /\ ChainStored
  BY <1>1 DEF SubscriptionInv, Subscribing
<1>5. ChainStored'
  BY <1>1, <1>4, ChainTypes DEF ChainStored, ChainPending
<1> QED
  BY <1>2, <1>3, <1>5 DEF SubscriptionInv, AskingUtc, Subscribing

LEMMA ExitStep ==
    ASSUME TypeOK, SubscriptionInv, NEW s \in Sessions, SvcExit(s)
    PROVE  SubscriptionInv'
<1> USE DEF SvcExit, At, Destroy, mqttVars
<1>1. pc[s] # "none" /\ Goto(s, "none") /\ "none" \in Labels
  BY DEF Labels
<1>2. OneSession' /\ \A r \in Sessions : r # s => pc'[r] = "none"
  BY <1>1, OtherSessions
<1>3. ChainStored' /\ SubscribedBeforeUtc' /\ handle' = NoHandle
  BY ChainFresh DEF SubscriptionInv
<1> QED
  BY <1>2, <1>3 DEF SubscriptionInv

LEMMA SvcKeepsSubscription ==
    ASSUME TypeOK, SubscriptionInv, NEW s \in Sessions, SvcStep(s)
    PROVE  SubscriptionInv'
BY QuietSvcStep, SubscribedStep, SubscribeStep, SubCallStep, SubIdStep, SubEventStep, ExitStep
   DEF SvcStep

-----------------------------------------------------------------------------
\* A SUBACK: the chain believes in the stored topic only if it was acknowledged.
LEMMA MqttKeepsSubscription ==
    ASSUME TypeOK, SubscriptionInv, MqttStep
    PROVE  SubscriptionInv'
<1> USE DEF SubscriptionInv, MqttUnchanged, handleVars, taskVars
<1>1. /\ pc' = pc /\ sub' = sub /\ handle' = handle /\ service_state' = service_state
      /\ cur_sub_event' = cur_sub_event /\ cur_sub_msg_id' = cur_sub_msg_id
  BY DEF MqttStep, MqttBoot, MqttDispatch, MqttLoseSuback, MqttDeliver, MqttClearInit, MqttExit
<1>2. NoId # FailedId
  BY DEF NoId, FailedId
<1>3. CASE DeliverSubscribed /\ MqttDeliver
  <2> USE <1>3 DEF DeliverSubscribed
  <2>1. cur_sub_event \in Nat /\ last_sub_event \in Nat
    BY DEF TypeOK, TypeHandle, Topics, NoTopic
  <2>2. /\ acked \subseteq acked' /\ inflight.topic \in acked' /\ inflight' = NoSuback
        /\ last_sub_event' \in {NoTopic, cur_sub_event}
    OBVIOUS
  <2>3. ChainStored'
    <3>1. last_sub_event' # NoTopic =>
            cur_sub_event \in acked \cup {NoTopic, inflight.topic} /\ last_sub_event' = cur_sub_event
      BY DEF ChainStored
    <3>2. 1 .. last_sub_event' \subseteq acked'
      BY <2>1, <2>2, <3>1 DEF ChainStored, NoTopic
    <3>3. inflight'.id = NoId /\ inflight'.id # FailedId
      BY <1>2, <2>2 DEF NoSuback
    <3> QED
      BY <1>1, <2>1, <2>2, <3>1, <3>2, <3>3 DEF ChainStored, NoTopic
  <2>4. ASSUME NEW s \in Sessions, handle # NoHandle, pc[s] \in Subscribing
        PROVE  ChainPending(s)'
    <3>1. ChainPending(s) /\ inflight'.id = NoId
      BY <2>2, <2>4 DEF NoSuback
    <3> QED
      BY <1>1, <2>2, <3>1 DEF ChainPending
  <2>5. SubscribedBeforeUtc'
    BY <1>1, <2>2 DEF SubscribedBeforeUtc
  <2> QED
    BY <1>1, <2>3, <2>4, <2>5 DEF OneSession
<1>4. CASE ~(DeliverSubscribed /\ MqttDeliver)
  <2>1. /\ acked' = acked /\ last_sub_event' = last_sub_event
        /\ inflight' \in {inflight, NoSuback}
    BY <1>4 DEF MqttStep, MqttBoot, MqttDispatch, MqttLoseSuback, MqttDeliver, MqttClearInit,
                MqttExit, DeliverConnected, DeliverDisconnected, DeliverUtc
  <2>2. ChainStored'
    BY <1>1, <1>2, <2>1 DEF ChainStored, NoSuback
  <2>3. ASSUME NEW s \in Sessions, handle # NoHandle, pc[s] \in Subscribing
        PROVE  ChainPending(s)'
    BY <1>1, <2>1, <2>3 DEF ChainPending, NoSuback
  <2>4. SubscribedBeforeUtc'
    BY <1>1, <2>1 DEF SubscribedBeforeUtc
  <2> QED
    BY <1>1, <2>2, <2>3, <2>4 DEF OneSession
<1> QED
  BY <1>3, <1>4

\* The application starts a session only when no other one runs.
LEMMA AppKeepsSubscription ==
    ASSUME InitWaits, TypeOK, SubscriptionInv, AppStep
    PROVE  SubscriptionInv'
<1> USE DEF At, Goto
<1> pc \in [Threads -> Labels] /\ App \in Threads /\ App \notin Sessions
  BY ThreadAssumption DEF TypeOK, TypePc, Threads
<1>1. CASE UserInitFails
  <2> USE <1>1 DEF UserInitFails, mqttVars
  <2>1. \A s \in Sessions : pc'[s] = "none"
    OBVIOUS
  <2>2. ChainStored' /\ SubscribedBeforeUtc'
    <3>1. CASE service_init
      BY <3>1 DEF SubscriptionInv, ChainStored, SubscribedBeforeUtc, handleVars, historyVars,
                  serviceVars
    <3>2. CASE ~service_init
      BY <3>2, ChainFresh DEF SubscriptionInv, Destroy
    <3> QED
      BY <3>1, <3>2
  <2> QED
    BY <2>1, <2>2 DEF SubscriptionInv, OneSession, Subscribing, AskingUtc
<1>2. ASSUME NEW s \in Sessions, NEW act \in ActivityFlags, UserInit(s, act)
      PROVE  SubscriptionInv'
  <2> USE <1>2 DEF UserInit, mqttVars
  <2>1. pc'[s] = "new" /\ \A r \in Sessions : r # s => pc'[r] = "none"
    BY DEF Threads
  <2>2. ChainStored' /\ SubscribedBeforeUtc'
    BY ChainFresh DEF SubscriptionInv
  <2> QED
    BY <2>1, <2>2 DEF SubscriptionInv, OneSession, Subscribing, AskingUtc
<1>3. CASE InitMqttFails
  <2> USE <1>3 DEF InitMqttFails, MqttInit, Destroy, mqttVars
  <2>1. NoFields /\ inflight' \in {inflight, NoSuback} /\ handle' = NoHandle
    OBVIOUS
  <2>2. ChainStored' /\ SubscribedBeforeUtc'
    BY <2>1, ChainFresh DEF SubscriptionInv
  <2> QED
    BY <2>1, <2>2 DEF SubscriptionInv, OneSession
<1>4. CASE InitMqtt
  <2> USE <1>4 DEF InitMqtt, MqttInit, handleVars, taskVars, historyVars, serviceVars, SubscriptionInv
  <2>1. ChainStored'
    BY MsgIdAssumption DEF ChainStored, NoSuback, NoId, FailedId
  <2>2. ASSUME NEW s \in Sessions, handle # NoHandle, pc[s] \in Subscribing
        PROVE  ChainPending(s)'
    BY <2>2 DEF ChainPending, NoSuback
  <2>3. SubscribedBeforeUtc' /\ OneSession'
    BY DEF SubscribedBeforeUtc, OneSession
  <2> QED
    BY <2>1, <2>2, <2>3
<1>5. CASE UserDeinitRefused \/ UserDeinit \/ UserDeinitDone \/ Teardown(App)
  <2>1. /\ UNCHANGED ChainVars /\ service_state' = service_state
        /\ \A s \in Sessions : pc'[s] = pc[s]
    <3> USE DEF handleVars, taskVars, historyVars, serviceVars, mqttVars
    <3>1. UNCHANGED ChainVars /\ service_state' = service_state
      BY <1>5 DEF UserDeinitRefused, UserDeinit, UserDeinitDone, Teardown, MqttStop, MqttWait,
                  MqttDestroy, MqttClear, ChainVars
    <3>2. pc' = pc \/ \E l : pc' = [pc EXCEPT ![App] = l]
      BY <1>5 DEF UserDeinitRefused, UserDeinit, UserDeinitDone, Teardown, MqttStop, MqttWait,
                  MqttDestroy, MqttClear
    <3>3. \A s \in Sessions : pc'[s] = pc[s]
      BY <3>2, Zenon DEF Threads
    <3> QED
      BY <3>1, <3>3
  <2> USE DEF SubscriptionInv
  <2>2. ChainStored' /\ SubscribedBeforeUtc' /\ OneSession'
    BY <2>1 DEF ChainVars, ChainStored, SubscribedBeforeUtc, OneSession
  <2>3. ASSUME NEW s \in Sessions, handle # NoHandle, pc[s] \in Subscribing
        PROVE  ChainPending(s)'
    BY <2>1, <2>3 DEF ChainVars, ChainPending
  <2> QED
    BY <2>1, <2>2, <2>3 DEF ChainVars
<1> QED
  BY <1>1, <1>2, <1>3, <1>4, <1>5 DEF AppStep

\* The timer, the faults and stuttering leave the chain alone.
LEMMA OtherKeepsSubscription ==
    ASSUME SubscriptionInv,
           (\E s \in Sessions : Tick(s)) \/ NullHandle \/ FreedClient \/ UNCHANGED vars
    PROVE  SubscriptionInv'
<1> USE DEF SubscriptionInv
<1>1. UNCHANGED ChainVars /\ service_state' = service_state /\ pc' = pc
  BY DEF Tick, NullHandle, FreedClient, FaultUnchanged, vars, ChainVars, handleVars, taskVars,
         historyVars, serviceVars, mqttVars
<1>2. ChainStored' /\ SubscribedBeforeUtc' /\ OneSession'
  BY <1>1 DEF ChainVars, ChainStored, SubscribedBeforeUtc, OneSession
<1>3. ASSUME NEW s \in Sessions, handle # NoHandle, pc[s] \in Subscribing
      PROVE  ChainPending(s)'
  BY <1>1, <1>3 DEF ChainVars, ChainPending
<1> QED
  BY <1>1, <1>2, <1>3 DEF ChainVars

LEMMA InitSubscription == Init => SubscriptionInv
<1> SUFFICES ASSUME Init PROVE SubscriptionInv
  OBVIOUS
<1> USE DEF Init
<1>1. \A s \in Sessions : pc[s] = "none"
  BY ThreadAssumption DEF Threads
<1>2. ChainStored
  BY DEF ChainStored, NoSuback, NoTopic, NoId, FailedId
<1> QED
  BY <1>1, <1>2 DEF SubscriptionInv, OneSession, Subscribing, AskingUtc, SubscribedBeforeUtc

LEMMA SubscriptionAlways == ASSUME InitWaits PROVE Spec => []SubscriptionInv
<1>1. TypeOK /\ SubscriptionInv /\ [Next]_vars => SubscriptionInv'
  BY SvcKeepsSubscription, MqttKeepsSubscription, AppKeepsSubscription,
     OtherKeepsSubscription DEF Next, Halted
<1> QED
  BY <1>1, InitSubscription, TypeCorrect, PTL DEF Spec

\* When the application lets a session end before it starts the next one, a session asks
\* for the time and goes online only after the broker acknowledged every topic of the
\* chain, for a chain of any length and any message ids: a SUBACK that arrives between
\* the two stores of aiio_service_subscribe_event (or before them, or late, or never)
\* can make the service subscribe a topic again, but never skip one.
THEOREM SubscribedBeforeUtcCorrect ==
    ASSUME InitWaits PROVE Spec => []SubscribedBeforeUtc
<1>1. SubscriptionInv => SubscribedBeforeUtc
  BY DEF SubscriptionInv
<1> QED
  BY <1>1, SubscriptionAlways, PTL

-----------------------------------------------------------------------------
(* AnsweredBeforeOnline: why no session leaves REQ_UTC unanswered.         *)

\* The request is flagged until the cloud has answered it, from the first turn in
\* REQ_UTC on; a turn that asks, or looks for the answer, is not the first one any more.
UtcInv ==
    /\ \A s \in Sessions :
          /\ handle # NoHandle /\ service_state = "REQ_UTC" /\ last_service_state[s] = "REQ_UTC"
                => utc_req \/ utc_reply = "answered"
          /\ pc[s] \in AskingUtc => last_service_state[s] = "REQ_UTC"
          /\ pc[s] = "none" => last_service_state[s] = "INVAILD"
    /\ AnsweredBeforeOnline

\* SvcReqUtc sets the flag on its first turn, and only SvcUtcTest leaves REQ_UTC.
LEMMA SvcKeepsUtc ==
    ASSUME TypeOK, SubscriptionInv, UtcInv, NEW s \in Sessions, SvcStep(s)
    PROVE  UtcInv'
<1>1. /\ pc \in [Threads -> Labels] /\ s \in Threads /\ Sessions \subseteq Threads
      /\ last_service_state \in [Sessions -> States]
  BY DEF TypeOK, TypePc, TypeLocals, Threads
<1>0. pc[s] # "none" => \A r \in Sessions : r # s => pc[r] = "none"
  BY DEF SubscriptionInv, OneSession
<1> USE DEF At, InState, Goto, SvcUnchanged, Enter, UtcInv, AskingUtc, AnsweredBeforeOnline
<1>2. CASE SvcStart(s) \/ SvcLoop(s)
  BY <1>0, <1>1, <1>2 DEF SvcStart, SvcLoop, handleVars, taskVars
<1>3. CASE SvcInit(s)
  BY <1>0, <1>1, <1>3 DEF SvcInit, TeardownEntry
<1>4. CASE SvcConnected(s)
  BY <1>0, <1>1, <1>4 DEF SvcConnected
<1>5. CASE SvcSubscribed(s) \/ SvcSubscribe(s)
  BY <1>0, <1>1, <1>5 DEF SvcSubscribed, SvcSubscribe
<1>6. CASE SvcSubCall(s) \/ SvcSubId(s) \/ SvcSubEvent(s)
  BY <1>0, <1>1, <1>6 DEF SvcSubCall, SvcSubId, SvcSubEvent, handleVars, taskVars
<1>7. CASE SvcSubTimer(s)
  BY <1>0, <1>1, <1>7 DEF SvcSubTimer, TeardownEntry, handleVars, taskVars
<1>8. CASE SvcReqUtc(s)
  BY <1>0, <1>1, <1>8 DEF SvcReqUtc, AskNow
<1>9. CASE SvcUtcPublish(s)
  BY <1>0, <1>1, <1>9 DEF SvcUtcPublish, AskUtc, handleVars, taskVars
<1>10. CASE SvcUtcTest(s)
  BY <1>0, <1>1, <1>10 DEF SvcUtcTest, TeardownEntry, SubscriptionInv
<1>11. CASE SvcActivity(s) \/ SvcOnline(s)
  BY <1>0, <1>1, <1>11 DEF SvcActivity, SvcOnline
<1>12. CASE SvcOnlineCheck(s)
  BY <1>0, <1>1, <1>12 DEF SvcOnlineCheck, AskUtc
<1>13. CASE SvcCheck(s) \/ SvcTorn(s)
  BY <1>0, <1>1, <1>13 DEF SvcCheck, SvcTorn, StopSelf, TeardownEntry, taskVars
<1>14. CASE SvcExit(s)
  BY <1>0, <1>1, <1>14 DEF SvcExit, Destroy
<1>15. CASE Teardown(s)
  BY <1>1, <1>15 DEF Teardown, MqttStop, MqttWait, MqttDestroy, MqttClear, handleVars, taskVars, historyVars, serviceVars
<1> QED
  BY <1>2, <1>3, <1>4, <1>5, <1>6, <1>7, <1>8, <1>9, <1>10, <1>11, <1>12, <1>13, <1>14, <1>15
     DEF SvcStep

\* Only an answer clears the flag.
LEMMA OtherKeepsUtc ==
    ASSUME InitWaits, TypeOK, UtcInv,
           \/ AppStep \/ MqttStep \/ (\E s \in Sessions : Tick(s))
           \/ NullHandle \/ FreedClient \/ UNCHANGED vars
    PROVE  UtcInv'
<1>1. /\ pc \in [Threads -> Labels] /\ Sessions \subseteq Threads /\ App \notin Sessions
      /\ App \in Threads
  BY ThreadAssumption DEF TypeOK, TypePc, Threads
<1> USE DEF UtcInv, AnsweredBeforeOnline, AskingUtc, At, Goto, taskVars, historyVars, handleVars, serviceVars
<1>2. CASE UserInitFails \/ InitMqttFails
  BY <1>1, <1>2 DEF UserInitFails, InitMqttFails, Destroy
<1>3. ASSUME NEW s \in Sessions, NEW act \in ActivityFlags, UserInit(s, act)
      PROVE  UtcInv'
  BY <1>1, <1>3 DEF UserInit, NoFields
<1>4. CASE InitMqtt \/ UserDeinitRefused \/ UserDeinit \/ UserDeinitDone
  BY <1>1, <1>4 DEF InitMqtt, UserDeinitRefused, UserDeinit, UserDeinitDone
<1>5. CASE Teardown(App)
  BY <1>1, <1>5 DEF Teardown, MqttStop, MqttWait, MqttDestroy, MqttClear
<1>6. CASE MqttDeliver
  <2>1. /\ handle' = handle /\ service_state' = service_state /\ pc' = pc
        /\ last_service_state' = last_service_state
    BY <1>6 DEF MqttDeliver, MqttUnchanged
  <2>2. CASE DeliverUtc /\ task_run
    BY <2>1, <2>2 DEF DeliverUtc
  <2>3. CASE ~(DeliverUtc /\ task_run)
    <3>1. CASE DeliverUtc
      BY <2>1, <2>3, <3>1, Zenon DEF DeliverUtc
    <3>2. CASE ~DeliverUtc
      BY <1>6, <2>1, <3>2 DEF MqttDeliver, DeliverConnected, DeliverDisconnected, DeliverSubscribed
    <3> QED
      BY <3>1, <3>2
  <2> QED
    BY <2>2, <2>3
<1>7. CASE MqttBoot \/ MqttDispatch \/ MqttLoseSuback \/ MqttClearInit \/ MqttExit
  BY <1>1, <1>7 DEF MqttBoot, MqttDispatch, MqttLoseSuback, MqttClearInit, MqttExit, MqttUnchanged
<1>8. CASE (\E s \in Sessions : Tick(s)) \/ NullHandle \/ FreedClient \/ UNCHANGED vars
  BY <1>8 DEF Tick, NullHandle, FreedClient, FaultUnchanged, vars
<1> QED
  BY <1>2, <1>3, <1>4, <1>5, <1>6, <1>7, <1>8 DEF AppStep, MqttStep

\* When the application lets a session end before it starts the next one, a session passes
\* REQ_UTC only after the cloud answered one of its own requests, although utc_is_req is a
\* static that earlier sessions leave set or clear, and requests are lost or repeated.
THEOREM AnsweredCorrect ==
    ASSUME InitWaits PROVE Spec => []AnsweredBeforeOnline
<1>1. Init => UtcInv
  BY ThreadAssumption DEF Init, UtcInv, AnsweredBeforeOnline, AskingUtc, Threads
<1>2. TypeOK /\ SubscriptionInv /\ UtcInv /\ [Next]_vars => UtcInv'
  BY SvcKeepsUtc, OtherKeepsUtc DEF Next, Halted
<1>3. UtcInv => AnsweredBeforeOnline
  BY DEF UtcInv
<1> QED
  BY <1>1, <1>2, <1>3, SubscriptionAlways, TypeCorrect, PTL DEF Spec

-----------------------------------------------------------------------------
(* ReportOrder: the session's task implements WanSession.                  *)

\* What the last report can be in each state of the session.
Told(st) ==
    CASE st \in {"INIT", "MQTT_CONNECTD"}                  -> {"none"}
      [] st \in {"SUBSCRIBED", "REQ_UTC", "REP_ACTIVITY"}  -> {"MQTT_CONNECTED"}
      [] st = "REP_ONLINE"                                 -> {"MQTT_CONNECTED", "ACTIVITY"}
      [] st = "ONLINE_CHECK"                               -> {"ONLINE"}
      [] OTHER                                             -> {"none"} \cup Reporting!Failures

\* Inside a turn the service task knows what was reported: nothing when it starts, a
\* connection while it subscribes and asks, and why it tears down; after it has reported
\* a disconnection, it only ends.
TurnReports(s, last) ==
    /\ pc[s] = "new" => last = "none" /\ service_state = "INVAILD"
    /\ pc[s] \in InTeardown => why[s] \in Reporting!Follows(last)
    /\ pc[s] \in Subscribing \cup AskingUtc \cup {"sub_timer"} => last = "MQTT_CONNECTED"
    /\ last = "MQTT_DISCONNECT" => pc[s] = "none" \/ (pc[s] \in {"loop", "exit"} /\ ~task_run)

ReportInv ==
    handle # NoHandle =>
       /\ Reporting!LastReport \in Told(service_state)
       /\ \A s \in Sessions : TurnReports(s, Reporting!LastReport)

Reports == Causes \cup {"MQTT_CONNECTED", "ACTIVITY", "ONLINE"}
TypeReports == reports \in Seq(Reports)

\* A report that is appended becomes the last one.
LEMMA AppendReport ==
    ASSUME TypeReports, NEW e \in Reports,
           reports' = Append(reports, e)
    PROVE  TypeReports' /\ Reporting!LastReport' = e
BY DEF TypeReports, Reporting!LastReport

\* A step of session s: only what its own turn knows afterwards is to be shown.
LEMMA TurnStep ==
    ASSUME TypeOK, SubscriptionInv, NEW s \in Sessions, pc[s] # "none",
           NEW l \in Labels, Goto(s, l), handle' = handle,
           handle # NoHandle => (Reporting!LastReport \in Told(service_state))',
           handle # NoHandle => TurnReports(s, Reporting!LastReport)'
    PROVE  ReportInv'
<1> SUFFICES ASSUME handle # NoHandle PROVE ReportInv'
  BY DEF ReportInv
<1>1. ASSUME NEW r \in Sessions PROVE TurnReports(r, Reporting!LastReport)'
  <2>1. CASE r = s
    BY <2>1
  <2>2. CASE r # s
    <3>1. pc'[r] = "none"
      BY <2>2, OtherSessions
    <3> QED
      BY <3>1 DEF TurnReports, InTeardown, Subscribing, AskingUtc
  <2> QED
    BY <2>1, <2>2
<1> QED
  BY <1>1 DEF ReportInv

\* The steps that report nothing keep what the session knows about the last report.
LEMMA SilentSteps ==
    ASSUME TypeOK, SubscriptionInv, ReportInv, NEW s \in Sessions,
           SvcStep(s), ~SvcConnected(s), ~SvcActivity(s), ~SvcOnline(s), ~SvcTorn(s), ~SvcExit(s)
    PROVE  ReportInv' /\ reports' = reports
<1> DEFINE last == Reporting!LastReport
<1>0. reports' = reports /\ handle' = handle /\ last' = last
  BY DEF SvcStep, SvcStart, SvcLoop, SvcInit, SvcSubscribed, SvcSubscribe, SvcSubCall, SvcSubId,
     SvcSubEvent, SvcSubTimer, SvcReqUtc, SvcUtcPublish, SvcUtcTest, SvcOnlineCheck, SvcCheck,
     Teardown, MqttStop, MqttWait, MqttDestroy, MqttClear, SvcUnchanged, historyVars, serviceVars,
     Reporting!LastReport
<1>1. pc \in [Threads -> Labels] /\ s \in Threads /\ why \in [Sessions -> Causes]
  BY DEF TypeOK, TypePc, TypeLocals, Threads
<1>2. /\ handle # NoHandle => last \in Told(service_state) /\ TurnReports(s, last)
      /\ handle # NoHandle /\ pc[s] \in AskingUtc => service_state = "REQ_UTC"
  BY DEF ReportInv, SubscriptionInv
<1> HIDE DEF last
<1> DEFINE Turn(l) == /\ pc[s] # "none" /\ l \in Labels /\ Goto(s, l)
                      /\ handle # NoHandle => last \in Told(service_state') /\ TurnReports(s, last)'
<1>3. SUFFICES \E l \in Labels : Turn(l)
  BY <1>0, <1>3, TurnStep DEF last
<1> USE DEF At, InState, Goto, Labels, TurnReports, Told, InTeardown, Subscribing, AskingUtc, Reporting!Follows, Reporting!Failures
<1>4. CASE SvcStart(s)
  <2>1. Turn("loop")
    BY <1>0, <1>1, <1>2, <1>4 DEF SvcStart
  <2> QED BY <2>1
<1>5. CASE SvcLoop(s)
  <2>1. Turn("body") \/ Turn("exit")
    BY <1>0, <1>1, <1>2, <1>5 DEF SvcLoop, handleVars
  <2> QED BY <2>1
<1>6. CASE SvcInit(s)
  <2>1. Turn("check") \/ Turn("torn") \/ Turn("stop")
    BY <1>0, <1>1, <1>2, <1>6 DEF SvcInit, TeardownEntry
  <2> QED BY <2>1
<1>7. CASE SvcSubscribed(s) \/ SvcSubscribe(s)
  <2>1. Turn("sub") \/ Turn("sub_timer")
    BY <1>0, <1>1, <1>2, <1>7 DEF SvcSubscribed, SvcSubscribe
  <2> QED BY <2>1
<1>8. CASE SvcSubCall(s) \/ SvcSubId(s) \/ SvcSubEvent(s)
  <2>1. Turn("sub_id") \/ Turn("sub_event") \/ Turn("sub_timer")
    BY <1>0, <1>1, <1>2, <1>8 DEF SvcSubCall, SvcSubId, SvcSubEvent, handleVars
  <2> QED BY <2>1
<1>9. CASE SvcSubTimer(s)
  <2>1. Turn("check") \/ Turn("torn") \/ Turn("stop")
    BY <1>0, <1>1, <1>2, <1>9 DEF SvcSubTimer, TeardownEntry, handleVars
  <2> QED BY <2>1
<1>10. CASE SvcReqUtc(s) \/ SvcUtcPublish(s)
  <2>1. Turn("utc_publish") \/ Turn("utc_test")
    BY <1>0, <1>1, <1>2, <1>10 DEF SvcReqUtc, SvcUtcPublish, handleVars
  <2> QED BY <2>1
<1>11. CASE SvcUtcTest(s)
  <2>1. Turn("check") \/ Turn("torn") \/ Turn("stop")
    BY <1>0, <1>1, <1>2, <1>11 DEF SvcUtcTest, TeardownEntry
  <2> QED BY <2>1
<1>12. CASE SvcOnlineCheck(s)
  <2>1. Turn("check")
    BY <1>0, <1>1, <1>2, <1>12 DEF SvcOnlineCheck
  <2> QED BY <2>1
<1>13. CASE SvcCheck(s)
  <2>1. Turn("loop") \/ Turn("torn") \/ Turn("stop")
    BY <1>0, <1>1, <1>2, <1>13 DEF SvcCheck, TeardownEntry
  <2> QED BY <2>1
<1>14. CASE Teardown(s)
  <2>1. Turn("wait") \/ Turn("destroy") \/ Turn("clear") \/ Turn("torn")
    BY <1>0, <1>1, <1>2, <1>14 DEF Teardown, MqttStop, MqttWait, MqttDestroy, MqttClear, handleVars
  <2> QED BY <2>1
<1> QED
  BY <1>4, <1>5, <1>6, <1>7, <1>8, <1>9, <1>10, <1>11, <1>12, <1>13, <1>14 DEF SvcStep

\* The four steps that report: what they report may follow what was reported last.
LEMMA SpeakingSteps ==
    ASSUME TypeOK, SubscriptionInv, ReportInv, TypeReports, NEW s \in Sessions,
           SvcConnected(s) \/ SvcActivity(s) \/ SvcOnline(s) \/ SvcTorn(s)
    PROVE  ReportInv' /\ TypeReports' /\ (Reporting!Report \/ reports' = reports)
<1> DEFINE last == Reporting!LastReport
<1>0. handle' = handle /\ handle # NoHandle
  BY DEF SvcConnected, SvcActivity, SvcOnline, SvcTorn, SvcUnchanged, InState
<1>1. pc \in [Threads -> Labels] /\ s \in Threads /\ why \in [Sessions -> Causes]
  BY DEF TypeOK, TypePc, TypeLocals, Threads
<1>2. last \in Told(service_state) /\ TurnReports(s, last)
  BY <1>0 DEF ReportInv
<1>3. ASSUME NEW e \in Reports, reports' = Append(reports, e), e \in Reporting!Follows(last)
      PROVE  TypeReports' /\ last' = e /\ Reporting!Report
  <2>1. TypeReports' /\ last' = e
    BY <1>3, AppendReport
  <2> QED
    BY <1>3, <2>1 DEF Reporting!Report
<1>4. ASSUME reports' = reports PROVE TypeReports' /\ last' = last
  BY <1>4 DEF TypeReports, Reporting!LastReport
<1> HIDE DEF last
<1> DEFINE Turn(l) == /\ pc[s] # "none" /\ l \in Labels /\ Goto(s, l)
                      /\ (last \in Told(service_state))' /\ TurnReports(s, last)'
           Spoken  == TypeReports' /\ (Reporting!Report \/ reports' = reports)
<1>5. SUFFICES Spoken /\ \E l \in Labels : Turn(l)
  BY <1>0, <1>5, TurnStep DEF last
<1> USE DEF At, InState, Goto, Labels, TurnReports, Told, InTeardown, Subscribing, AskingUtc, Reports,
            Causes, Reporting!Follows, Reporting!Failures
<1>6. CASE SvcConnected(s)
  <2>1. last = "none" /\ reports' = Append(reports, "MQTT_CONNECTED")
    BY <1>2, <1>6 DEF SvcConnected
  <2>2. last' = "MQTT_CONNECTED" /\ Spoken
    BY <1>3, <2>1
  <2>3. Turn("check")
    BY <1>1, <1>6, <2>2 DEF SvcConnected
  <2> QED BY <2>2, <2>3
<1>7. CASE SvcActivity(s) /\ ~activity
  <2>1. last = "MQTT_CONNECTED" /\ reports' = Append(reports, "ACTIVITY")
    BY <1>2, <1>7 DEF SvcActivity
  <2>2. last' = "ACTIVITY" /\ Spoken
    BY <1>3, <2>1
  <2>3. Turn("check")
    BY <1>1, <1>7, <2>2 DEF SvcActivity
  <2> QED BY <2>2, <2>3
<1>8. CASE SvcActivity(s) /\ activity
  <2>1. last = "MQTT_CONNECTED" /\ reports' = reports
    BY <1>2, <1>8 DEF SvcActivity
  <2>2. last' = last /\ Spoken
    BY <1>4, <2>1
  <2>3. Turn("check")
    BY <1>1, <1>8, <2>1, <2>2 DEF SvcActivity
  <2> QED BY <2>2, <2>3
<1>9. CASE SvcOnline(s)
  <2>1. last \in {"MQTT_CONNECTED", "ACTIVITY"} /\ reports' = Append(reports, "ONLINE")
    BY <1>2, <1>9 DEF SvcOnline
  <2>2. last' = "ONLINE" /\ Spoken
    BY <1>3, <2>1
  <2>3. Turn("check")
    BY <1>1, <1>9, <2>2 DEF SvcOnline
  <2> QED BY <2>2, <2>3
<1>10. CASE SvcTorn(s)
  <2>1. why[s] \in Reporting!Follows(last) /\ reports' = Append(reports, why[s])
    BY <1>2, <1>10 DEF SvcTorn
  <2>2. why[s] \in Causes \ {"none"}
    BY <1>1, <2>1
  <2>3. last' = why[s] /\ Spoken
    BY <1>3, <2>1, <2>2
  <2>4. Turn("loop") \/ Turn("check")
    BY <1>1, <1>10, <2>2, <2>3 DEF SvcTorn, StopSelf
  <2> QED BY <2>3, <2>4
<1> QED
  BY <1>6, <1>7, <1>8, <1>9, <1>10

\* The other threads report nothing; a new or destroyed session starts over.
LEMMA OtherReportSteps ==
    ASSUME InitWaits, TypeOK, ReportInv, TypeReports,
           \/ AppStep \/ MqttStep \/ (\E s \in Sessions : Tick(s) \/ SvcExit(s))
           \/ NullHandle \/ FreedClient \/ UNCHANGED vars
    PROVE  ReportInv' /\ TypeReports' /\ (Reporting!Launch \/ reports' = reports)
<1>1. /\ pc \in [Threads -> Labels] /\ Sessions \subseteq Threads /\ App \notin Sessions
      /\ App \in Threads
  BY ThreadAssumption DEF TypeOK, TypePc, Threads
<1>2. ASSUME reports' = <<>>
      PROVE  TypeReports' /\ Reporting!LastReport' = "none" /\ Reporting!Launch
  BY <1>2 DEF TypeReports, Reporting!LastReport, Reporting!Launch
<1>3. ASSUME reports' = reports PROVE TypeReports' /\ Reporting!LastReport' = Reporting!LastReport
  BY <1>3 DEF TypeReports, Reporting!LastReport
<1> USE DEF At, Goto, handleVars, serviceVars, historyVars
<1>4. CASE InitMqttFails \/ (\E s \in Sessions : SvcExit(s)) \/ (UserInitFails /\ ~service_init)
  <2>1. reports' = <<>> /\ handle' = NoHandle
    BY <1>4 DEF InitMqttFails, SvcExit, UserInitFails, Destroy, NoFields
  <2> QED
    BY <1>2, <2>1 DEF ReportInv
<1>5. ASSUME NEW s \in Sessions, NEW act \in ActivityFlags, UserInit(s, act)
      PROVE  ReportInv' /\ TypeReports' /\ Reporting!Launch
  <2>1. reports' = <<>> /\ service_state' = "INVAILD"
    BY <1>5 DEF UserInit, NoFields
  <2>2. \A r \in Sessions : pc'[r] \in {"none", "new"}
    BY <1>1, <1>5 DEF UserInit
  <2> QED
    BY <1>2, <2>1, <2>2 DEF ReportInv, Told, TurnReports, InTeardown, Subscribing, AskingUtc
<1>6. CASE \/ (UserInitFails /\ service_init) \/ InitMqtt \/ UserDeinitRefused \/ UserDeinit
           \/ UserDeinitDone \/ Teardown(App) \/ MqttStep \/ (\E s \in Sessions : Tick(s))
           \/ NullHandle \/ FreedClient \/ UNCHANGED vars
  <2>1. /\ reports' = reports /\ handle' = handle /\ service_state' = service_state
        /\ why' = why /\ (UserDeinit \/ task_run' = task_run)
    BY <1>6 DEF UserInitFails, InitMqtt, UserDeinitRefused, UserDeinit, UserDeinitDone,
         Teardown, MqttStop, MqttWait, MqttDestroy, MqttClear, MqttStep, MqttBoot, MqttDispatch,
         MqttLoseSuback, MqttDeliver, DeliverConnected, DeliverDisconnected, DeliverSubscribed,
         DeliverUtc, MqttClearInit, MqttExit, MqttUnchanged, Tick, NullHandle, FreedClient,
         FaultUnchanged, vars
  <2>2. \A s \in Sessions : pc'[s] = pc[s]
    BY <1>1, <1>6 DEF UserInitFails, InitMqtt, UserDeinitRefused, UserDeinit, UserDeinitDone,
         Teardown, MqttStop, MqttWait, MqttDestroy, MqttClear, MqttStep, MqttBoot, MqttDispatch,
         MqttLoseSuback, MqttDeliver, MqttClearInit, MqttExit, MqttUnchanged, Tick, NullHandle,
         FreedClient, FaultUnchanged, vars
  <2>3. task_run' => task_run
    BY <2>1, Zenon DEF UserDeinit
  <2> QED
    BY <1>3, <2>1, <2>2, <2>3 DEF ReportInv, TurnReports
<1> QED
  BY <1>4, <1>5, <1>6 DEF AppStep

\* The service implements WanSession: every step of the session, of the mqtt task and of the
\* application launches a session, makes a report that may follow the last one, or leaves
\* the reports alone, when the application lets a session end before the next one.
THEOREM ReportOrderCorrect == ASSUME InitWaits PROVE Spec => ReportOrder
<1>1. Init => ReportInv /\ TypeReports /\ Reporting!Init
  BY DEF Init, ReportInv, TypeReports, Reporting!Init
<1>2. TypeOK /\ SubscriptionInv /\ ReportInv /\ TypeReports /\ [Next]_vars
        => ReportInv' /\ TypeReports' /\ [Reporting!Next]_reports
  <2> SUFFICES ASSUME TypeOK, SubscriptionInv, ReportInv, TypeReports, [Next]_vars
               PROVE  ReportInv' /\ TypeReports' /\ [Reporting!Next]_reports
    OBVIOUS
  <2> USE DEF Reporting!Next
  <2>1. ASSUME NEW s \in Sessions, SvcStep(s), ~SvcExit(s)
        PROVE  ReportInv' /\ TypeReports' /\ [Reporting!Next]_reports
    <3>1. CASE SvcConnected(s) \/ SvcActivity(s) \/ SvcOnline(s) \/ SvcTorn(s)
      BY <3>1, SpeakingSteps
    <3>2. CASE ~(SvcConnected(s) \/ SvcActivity(s) \/ SvcOnline(s) \/ SvcTorn(s))
      BY <2>1, <3>2, SilentSteps DEF TypeReports
    <3> QED
      BY <3>1, <3>2
  <2>2. CASE \/ AppStep \/ MqttStep \/ (\E s \in Sessions : Tick(s) \/ SvcExit(s))
             \/ NullHandle \/ FreedClient \/ UNCHANGED vars
    BY <2>2, OtherReportSteps
  <2> QED
    BY <2>1, <2>2 DEF Next, Halted
<1> QED
  BY <1>1, <1>2, SubscriptionAlways, TypeCorrect, PTL DEF Spec, ReportOrder, Reporting!Spec

-----------------------------------------------------------------------------
(* SafeAlone: a session that is left alone tears itself down safely.       *)

\* Whoever holds what: an event is handed over by a running mqtt task with its client, a
\* freed client is about to be cleared, and the application has made no client yet
\* while it configures.
ClientUse ==
    /\ mqtt_event # "none" => mqtt_client = "live" /\ mqtt_task \in {"down", "up"}
    /\ \A t \in Threads : pc[t] = "clear" => mqtt_client # "live"
    /\ mqtt_client = "freed" => \E t \in Threads : pc[t] = "clear"
    /\ client_run => mqtt_task \in {"down", "up"}
    /\ \A s \in Sessions : pc[s] = "none" => ~elapsed[s]
    /\ pc[App] = "config" => ~disturbed /\ mqtt_task \in {"none", "stopped"}

\* Until the mqtt task has started, the session waits in INIT and no time passes for it.
Waiting ==
    /\ status_bits = {}
    /\ \E s \in Sessions : pc[s] # "none"
    /\ \A s \in Sessions :
          /\ ~elapsed[s]
          /\ pc[s] \in {"none", "new", "loop", "body", "check"}
          /\ pc[s] \in {"loop", "body", "check"} => task_run /\ service_state = "INIT"

\* What holds of a session that is left alone: its client lives as long as its mqtt task,
\* which is only told to stop by a session that then waits for it, and the session ends
\* after its client.
Alone ==
    /\ fault = "none" /\ pc[App] \in {"idle", "config"}
    /\ (\E s \in Sessions : pc[s] # "none") => handle # NoHandle
    /\ (\A s \in Sessions : pc[s] = "none") => mqtt_client = "null"
    /\ mqtt_task \in {"boot", "down", "up"} => mqtt_client = "live"
    /\ mqtt_task \in {"down", "up"} /\ ~client_run => \E s \in Sessions : pc[s] = "wait"
    /\ \A s \in Sessions :
          pc[s] \in {"torn", "exit"} \/ (pc[s] \notin {"none", "new"} /\ ~task_run)
             => mqtt_client = "null"
    /\ pc[App] = "config" \/ mqtt_task = "boot" => Waiting

AloneInv == ClientUse /\ (~disturbed => Alone)

\* What the steps of one session may rely on.
LEMMA SessionTypes ==
    ASSUME TypeOK, SubscriptionInv, NEW s \in Sessions, pc[s] # "none"
    PROVE  /\ pc \in [Threads -> Labels] /\ s \in Threads /\ Sessions \subseteq Threads
           /\ App \in Threads /\ App \notin Sessions /\ Threads = Sessions \cup {App}
           /\ elapsed \in [Sessions -> BOOLEAN] /\ client_run \in BOOLEAN /\ task_run \in BOOLEAN
           /\ \A r \in Sessions : r # s => pc[r] = "none"
           /\ disturbed \in BOOLEAN
BY ThreadAssumption
   DEF TypeOK, TypeFlags, TypeTimers, TypePc, Threads, SubscriptionInv, OneSession

\* A step of the session, its teardown included.
LEMMA SvcKeepsAlone ==
    ASSUME TypeOK, SubscriptionInv, AloneInv, NEW s \in Sessions, SvcStep(s)
    PROVE  AloneInv'
<1> USE DEF At, InState, Goto, SvcUnchanged
<1>0. pc[s] # "none"
  BY DEF SvcStep, SvcStart, SvcLoop, SvcInit, SvcConnected, SvcSubscribed, SvcSubscribe,
     SvcSubCall, SvcSubId, SvcSubEvent, SvcSubTimer, SvcReqUtc, SvcUtcPublish, SvcUtcTest, SvcActivity,
     SvcOnline, SvcOnlineCheck, SvcCheck, SvcTorn, SvcExit, Teardown, MqttStop, MqttWait,
     MqttDestroy, MqttClear
<1>1. /\ pc \in [Threads -> Labels] /\ s \in Threads /\ Sessions \subseteq Threads
      /\ App \in Threads /\ App \notin Sessions /\ Threads = Sessions \cup {App}
      /\ elapsed \in [Sessions -> BOOLEAN] /\ client_run \in BOOLEAN /\ task_run \in BOOLEAN
      /\ \A r \in Sessions : r # s => pc[r] = "none"
      /\ disturbed \in BOOLEAN
  BY <1>0, SessionTypes
<1> USE DEF AloneInv, ClientUse, Alone, Waiting
<1>2. CASE SvcStart(s) \/ SvcLoop(s)
  BY <1>1, <1>2 DEF SvcStart, SvcLoop, handleVars, taskVars
<1>3. CASE SvcInit(s)
  BY <1>1, <1>3 DEF SvcInit, TeardownEntry, StartTimer, Expired
<1>4. CASE SvcConnected(s)
  BY <1>1, <1>4 DEF SvcConnected
<1>5. CASE SvcSubscribed(s) \/ SvcSubscribe(s)
  BY <1>1, <1>5 DEF SvcSubscribed, SvcSubscribe, StartTimer
<1>6. CASE SvcSubCall(s) \/ SvcSubId(s) \/ SvcSubEvent(s)
  BY <1>1, <1>6 DEF SvcSubCall, SvcSubId, SvcSubEvent, handleVars, taskVars
<1>7. CASE SvcSubTimer(s)
  BY <1>1, <1>7 DEF SvcSubTimer, TeardownEntry, handleVars, taskVars
<1>8. CASE SvcReqUtc(s)
  BY <1>1, <1>8 DEF SvcReqUtc, StartTimer
<1>9. CASE SvcUtcPublish(s)
  BY <1>1, <1>9 DEF SvcUtcPublish, handleVars, taskVars
<1>10. CASE SvcUtcTest(s)
  BY <1>1, <1>10 DEF SvcUtcTest, TeardownEntry
<1>11. CASE SvcActivity(s) \/ SvcOnline(s)
  BY <1>1, <1>11 DEF SvcActivity, SvcOnline
<1>12. CASE SvcOnlineCheck(s)
  BY <1>1, <1>12 DEF SvcOnlineCheck
<1>13. CASE SvcCheck(s) \/ SvcTorn(s)
  BY <1>1, <1>13 DEF SvcCheck, SvcTorn, StopSelf, TeardownEntry, taskVars
<1>14. CASE SvcExit(s)
  BY <1>1, <1>14 DEF SvcExit, Destroy, NoFields, mqttVars
<1>15. CASE MqttStop(s)
  BY <1>1, <1>15 DEF MqttStop, StopWaits, LockFree, handleVars, taskVars, historyVars, serviceVars
<1>16. CASE MqttWait(s)
  BY <1>1, <1>16 DEF MqttWait, mqttVars, handleVars, taskVars, historyVars, serviceVars
<1>17. CASE MqttDestroy(s)
  BY <1>1, <1>17 DEF MqttDestroy, LockFree, handleVars, taskVars, historyVars, serviceVars
<1>18. CASE MqttClear(s)
  BY <1>1, <1>18 DEF MqttClear, handleVars, taskVars, historyVars, serviceVars
<1> QED
  BY <1>2, <1>3, <1>4, <1>5, <1>6, <1>7, <1>8, <1>9, <1>10, <1>11, <1>12, <1>13, <1>14, <1>15,
     <1>16, <1>17, <1>18 DEF SvcStep, Teardown

\* A new session is alone from its first step on; any other call of the application that
\* touches a session disturbs it.
LEMMA AppKeepsAlone ==
    ASSUME InitWaits, TypeOK, SubscriptionInv, AloneInv, AppStep
    PROVE  AloneInv'
<1>1. /\ pc \in [Threads -> Labels] /\ Sessions \subseteq Threads
      /\ App \in Threads /\ App \notin Sessions /\ Threads = Sessions \cup {App}
      /\ elapsed \in [Sessions -> BOOLEAN] /\ client_run \in BOOLEAN /\ task_run \in BOOLEAN
      /\ disturbed \in BOOLEAN
  BY ThreadAssumption DEF TypeOK, TypeFlags, TypeTimers, TypePc, Threads
<1> USE DEF At, Goto, AloneInv, ClientUse, Alone, Waiting
<1>2. CASE UserInitFails
  BY <1>1, <1>2 DEF UserInitFails, Destroy, NoFields, serviceVars, handleVars, historyVars, mqttVars, taskVars
<1>3. ASSUME NEW s \in Sessions, NEW act \in ActivityFlags, UserInit(s, act)
      PROVE  AloneInv'
  BY <1>1, <1>3, ThreadAssumption DEF UserInit, NoFields, mqttVars, taskVars
<1>4. CASE InitMqtt
  BY <1>1, <1>4 DEF InitMqtt, MqttInit, serviceVars, handleVars, historyVars, taskVars
<1>5. CASE InitMqttFails
  BY <1>1, <1>5 DEF InitMqttFails, MqttInit, Destroy, mqttVars, taskVars
<1>6. CASE UserDeinitRefused \/ UserDeinit \/ UserDeinitDone
  BY <1>1, <1>6 DEF UserDeinitRefused, UserDeinit, UserDeinitDone, TeardownEntry, serviceVars,
                    handleVars, historyVars, mqttVars, taskVars
<1>7. CASE Teardown(App)
  BY <1>1, <1>7 DEF Teardown, MqttStop, MqttWait, MqttDestroy, MqttClear, LockFree, StopWaits,
                    serviceVars, handleVars, historyVars, mqttVars, taskVars
<1> QED
  BY <1>2, <1>3, <1>4, <1>5, <1>6, <1>7 DEF AppStep

\* The mqtt task runs and hands over events only while its client lives.
LEMMA MqttKeepsAlone ==
    ASSUME TypeOK, AloneInv, MqttStep
    PROVE  AloneInv'
<1>1. /\ Threads = Sessions \cup {App} /\ client_run \in BOOLEAN /\ task_run \in BOOLEAN
  BY DEF TypeOK, TypeFlags, Threads
<1> USE DEF AloneInv, ClientUse, Alone, Waiting, MqttUnchanged, LockFree, taskVars, handleVars
<1>2. CASE MqttBoot
  BY <1>1, <1>2 DEF MqttBoot
<1>3. CASE MqttDispatch
  <2>1. mqtt_task \in {"down", "up"} /\ mqtt_task' \in {"down", "up"}
    BY <1>3 DEF MqttDispatch, MqttEvents
  <2> QED
    BY <1>1, <1>3, <2>1 DEF MqttDispatch
<1>4. CASE MqttLoseSuback
  BY <1>1, <1>4 DEF MqttLoseSuback
<1>5. CASE MqttDeliver
  BY <1>1, <1>5 DEF MqttDeliver, DeliverConnected, DeliverDisconnected, DeliverSubscribed, DeliverUtc
<1>6. CASE MqttClearInit \/ MqttExit
  BY <1>1, <1>6 DEF MqttClearInit, MqttExit
<1> QED
  BY <1>2, <1>3, <1>4, <1>5, <1>6 DEF MqttStep

\* Neither undefined behaviour can occur.
LEMMA OtherKeepsAlone ==
    ASSUME TypeOK, SubscriptionInv, AloneInv,
           (\E s \in Sessions : Tick(s)) \/ NullHandle \/ FreedClient \/ UNCHANGED vars
    PROVE  AloneInv'
<1>1. Threads = Sessions \cup {App} /\ elapsed \in [Sessions -> BOOLEAN]
  BY DEF TypeOK, TypeTimers, Threads
<1> USE DEF AloneInv
<1>2. CASE (\E s \in Sessions : Tick(s)) \/ UNCHANGED vars
  BY <1>1, <1>2 DEF ClientUse, Alone, Waiting, Tick, vars, serviceVars, mqttVars, taskVars, handleVars,
                    historyVars
<1>3. ASSUME NullHandle, Alone, ClientUse PROVE FALSE
  BY <1>3 DEF NullHandle, Alone, ClientUse, UsesHandle
<1>4. ASSUME FreedClient, Alone, ClientUse PROVE FALSE
  <2>1. mqtt_client = "freed" /\ \E t \in Threads : CallsClient(t)
    BY <1>4 DEF FreedClient, Alone
  <2>2. PICK t \in Threads : CallsClient(t)
    BY <2>1
  <2>3. PICK r \in Threads : pc[r] = "clear"
    BY <1>4, <2>1 DEF ClientUse
  <2>4. r \in Sessions /\ t \in Sessions
    BY <1>1, <1>4, <2>2, <2>3 DEF Alone, CallsClient
  <2>5. r = t
    BY <2>2, <2>3, <2>4 DEF SubscriptionInv, OneSession, CallsClient
  <2> QED
    BY <2>2, <2>3, <2>5 DEF CallsClient
<1>5. CASE NullHandle \/ FreedClient
  BY <1>3, <1>4, <1>5 DEF NullHandle, FreedClient, FaultUnchanged, ClientUse, mqttVars, taskVars
<1> QED
  BY <1>2, <1>5

\* When the application lets a session end before the next one and leaves it alone, the
\* teardown the session starts itself (LANCH_FAIL, SUBSCRIBE_TIMEOUT, MQTT_DISCONNECT) never
\* frees the handle or the client under the mqtt task or the service task.
THEOREM SafeAloneCorrect ==
    ASSUME InitWaits PROVE Spec => []SafeAlone
<1>1. Init => AloneInv
  <2> SUFFICES ASSUME Init PROVE AloneInv
    OBVIOUS
  <2>1. ClientUse
    BY ThreadAssumption DEF Init, ClientUse, Threads
  <2>2. Alone
    BY ThreadAssumption DEF Init, Alone, Threads
  <2> QED
    BY <2>1, <2>2 DEF AloneInv
<1>2. TypeOK /\ SubscriptionInv /\ AloneInv /\ [Next]_vars => AloneInv'
  BY AppKeepsAlone, MqttKeepsAlone, SvcKeepsAlone, OtherKeepsAlone DEF Next, Halted
<1>3. AloneInv => SafeAlone
  BY DEF AloneInv, Alone, SafeAlone
<1> QED
  BY <1>1, <1>2, <1>3, SubscriptionAlways, TypeCorrect, PTL DEF Spec

-----------------------------------------------------------------------------
(* The timers.                                                             *)
\* The counter, so many ticks after it was start.
CounterAfter(max, start, ticks) ==
    IF start + ticks <= max THEN start + ticks ELSE start + ticks - (max + 1)

\* No timer of the service task runs out early, and none is more than a tick late, which it
\* is when the counter wrapped between the two readings that diffTimeTick compares.
THEOREM TimersNeverEarly ==
    ASSUME NEW max \in Nat, NEW start \in 0..max, NEW ticks \in 0..max
    PROVE  LET end  == CounterAfter(max, start, ticks)
               diff == diffTimeTick(max, start, end)
           IN  /\ end \in 0..max /\ diff \in 0..ticks
               /\ diff = IF start + ticks <= max THEN ticks ELSE ticks - 1
<1>1. CASE start + ticks <= max
  BY <1>1 DEF CounterAfter, diffTimeTick
<1>2. CASE start + ticks > max
  <2>1. CounterAfter(max, start, ticks) = start + ticks - (max + 1)
    BY <1>2 DEF CounterAfter
  <2>2. start + ticks - (max + 1) < start
    OBVIOUS
  <2> QED
    BY <1>2, <2>1, <2>2 DEF diffTimeTick
<1> QED
  BY <1>1, <1>2

=============================================================================
