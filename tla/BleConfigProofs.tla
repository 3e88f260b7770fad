--------------------------- MODULE BleConfigProofs ---------------------------
(***************************************************************************)
(* Theorems about BleConfig, for any names of runs and length of a queue.  *)
(***************************************************************************)
EXTENDS BleConfig, SequenceTheorems, TLAPS

-----------------------------------------------------------------------------
(* Types.                                                                  *)

\* One queue that changes to a sequence of messages that is not too long keeps the type.
LEMMA QueueUpdate ==
    ASSUME TypeQueues, NEW q \in Runs, NEW s \in Seq(Messages), Len(s) <= QueueMax,
           queue' = [queue EXCEPT ![q] = s]
    PROVE  TypeQueues'
BY DEF TypeQueues

LEMMA EmptyFits == <<>> \in Seq(Messages) /\ Len(<<>>) <= QueueMax
BY EmptySeq, QueueAssumption

LEMMA TypeQueuesStep == TypeOK /\ [Next]_vars => TypeQueues'
<1> SUFFICES ASSUME TypeOK, [Next]_vars PROVE TypeQueues'
  OBVIOUS
<1> USE DEF TypeOK
<1>1. TypeQueues
  OBVIOUS
<1>2. ASSUME queue' = queue PROVE TypeQueues'
  BY <1>1, <1>2 DEF TypeQueues
<1>3. ASSUME NEW r \in Runs, Start(r) \/ StartFails(r) PROVE TypeQueues'
  BY <1>1, <1>2, <1>3, EmptyFits, QueueUpdate DEF Start, StartFails, queueVars
<1>4. CASE Advertise \/ AdvertiseFails \/ Started \/ Stop \/ Stopped
  BY <1>2, <1>4 DEF Advertise, AdvertiseFails, Started, Stop, Stopped, LeaveQueue, queueVars
<1>5. ASSUME NEW w \in Runs, Work(w) PROVE TypeQueues'
  <2>1. CASE Receive(w)
    <3> DEFINE q == recv_from[w]
    <3>1. q \in Runs /\ queue[q] # <<>> /\ queue' = [queue EXCEPT ![q] = Tail(queue[q])]
      BY <2>1 DEF Receive, Exists
    <3>2. queue[q] \in Seq(Messages) /\ Len(queue[q]) <= QueueMax
      BY <3>1, <1>1 DEF TypeQueues
    <3>3. Tail(queue[q]) \in Seq(Messages) /\ Len(Tail(queue[q])) <= QueueMax
      BY <3>1, <3>2, HeadTailProperties, LenProperties, QueueAssumption
    <3> QED
      BY <1>1, <3>1, <3>3, QueueUpdate
  <2>2. CASE Delete(w)
    BY <1>1, <2>2, EmptyFits DEF Delete, TypeQueues
  <2>3. CASE Begin(w) \/ Test(w) \/ TimesOut(w) \/ Handle(w) \/ Report(w) \/ Clear(w) \/ End(w)
    BY <1>2, <2>3 DEF Begin, Test, TimesOut, Handle, Report, Clear, End, queueVars
  <2> QED
    BY <1>5, <2>1, <2>2, <2>3 DEF Work
<1>6. CASE Send
  <2> DEFINE q == ble_config_queue_handle
  <2>1. CASE queue' = queue
    BY <1>2, <2>1
  <2>2. CASE Exists(q) /\ Room(q) /\ queue' = [queue EXCEPT ![q] = Append(queue[q], host_msg)]
    <3>1. q \in Runs /\ queue[q] \in Seq(Messages) /\ Len(queue[q]) < QueueMax
      BY <1>1, <2>2 DEF Exists, Room, TypeQueues
    <3>2. host_msg \in Messages
      BY <1>6 DEF Send, TypeThreads
    <3>3. Append(queue[q], host_msg) \in Seq(Messages) /\ Len(Append(queue[q], host_msg)) = Len(queue[q]) + 1
      BY <3>1, <3>2, AppendProperties
    <3>4. Len(Append(queue[q], host_msg)) <= QueueMax
      BY <3>1, <3>3, LenProperties, QueueAssumption
    <3> QED
      BY <1>1, <2>2, <3>1, <3>3, <3>4, QueueUpdate
  <2> QED
    BY <1>6, <2>1, <2>2 DEF Send, Forget
<1>7. CASE PhoneLinks \/ (\E m \in {"DATA", "LEFT"} : PhoneDoes(m)) \/ Check \/ UNCHANGED vars
  BY <1>2, <1>7 DEF PhoneLinks, PhoneDoes, Check, Forget, vars, queueVars
<1> QED
  BY <1>3, <1>4, <1>5, <1>6, <1>7 DEF Next, Supervisor, Host

\* The worker's steps leave the supervisor's and the host's state alone.
LEMMA WorkFrame ==
    ASSUME NEW w \in Runs, Work(w) PROVE UNCHANGED <<ble_config_init, callback, app, hostVars>>
BY DEF Work, Begin, Test, Receive, TimesOut, Handle, Report, Delete, Clear, End, OnlyWorks

LEMMA SupervisorFrame ==
    Supervisor => UNCHANGED <<host, host_msg, msg, recv_from>>
BY DEF Supervisor, Start, StartFails, Advertise, AdvertiseFails, Started, Stop, Stopped, workerVars,
   hostVars

LEMMA HostFrame ==
    Host => UNCHANGED <<flags, handles, callback, app, workerVars, alive, said_left>>
BY DEF Host, PhoneLinks, PhoneDoes, Check, Send, HostOnly

\* Flags and history are only ever set to truth values.
LEMMA TypeFlagsStep == TypeOK /\ [Next]_vars => TypeFlags'
<1> SUFFICES ASSUME TypeFlags, [Next]_vars PROVE TypeFlags'
  BY DEF TypeOK
<1> USE DEF TypeFlags
<1>1. CASE Supervisor
  BY <1>1 DEF Supervisor, Start, StartFails, Advertise, AdvertiseFails, Started, Stop, Stopped,
     ClearFlags, flags, history
<1>2. ASSUME NEW w \in Runs, Work(w) PROVE TypeFlags'
  BY <1>2 DEF Work, Begin, FirstTurn, Test, Receive, TimesOut, Handle, Report, Delete, Clear, End,
     OnlyWorks, history
<1>3. CASE Host
  BY <1>3 DEF Host, PhoneLinks, PhoneDoes, Check, Send, Forget, HostOnly, flags
<1>4. CASE UNCHANGED vars
  BY <1>4 DEF vars, flags, history
<1> QED
  BY <1>1, <1>2, <1>3, <1>4 DEF Next

LEMMA TypeThreadsStep == TypeOK /\ [Next]_vars => TypeThreads'
<1> SUFFICES ASSUME TypeThreads, [Next]_vars PROVE TypeThreads'
  BY DEF TypeOK
<1> USE DEF TypeThreads, Messages
<1>1. CASE Supervisor
  BY <1>1 DEF Supervisor, Start, StartFails, Advertise, AdvertiseFails, Started, Stop, Stopped,
     AdvStart, RadioOff, hostVars
<1>2. ASSUME NEW w \in Runs, Work(w) PROVE TypeThreads'
  BY <1>2, WorkFrame DEF hostVars
<1>3. CASE Host
  BY <1>3 DEF Host, PhoneLinks, PhoneDoes, Connected, Written, Disconnected, Check, Send, Forget,
     HostOnly
<1>4. CASE UNCHANGED vars
  BY <1>4 DEF vars, hostVars
<1> QED
  BY <1>1, <1>2, <1>3, <1>4 DEF Next

LEMMA TypeWorkersStep == TypeOK /\ [Next]_vars => TypeWorkers'
<1> SUFFICES ASSUME TypeWorkers, TypeQueues, [Next]_vars PROVE TypeWorkers'
  BY DEF TypeOK
<1> USE DEF TypeWorkers, Places, Serving
<1>1. ASSUME NEW r \in Runs, Start(r) \/ StartFails(r) PROVE TypeWorkers'
  BY <1>1 DEF Start, StartFails, workerVars
<1>2. CASE Advertise \/ AdvertiseFails \/ Started \/ Stop \/ Stopped
  BY <1>2 DEF Advertise, AdvertiseFails, Started, Stop, Stopped, handles, workerVars
<1>3. ASSUME NEW w \in Runs, Work(w) PROVE TypeWorkers'
  <2>1. CASE Begin(w) \/ Test(w) \/ TimesOut(w) \/ Handle(w) \/ Report(w)
    BY <2>1 DEF Begin, Test, TimesOut, Handle, Report, Goto, handles
  <2>2. CASE Receive(w)
    <3>1. recv_from[w] \in Runs /\ queue[recv_from[w]] \in Seq(Messages) /\ queue[recv_from[w]] # <<>>
      BY <2>2 DEF Receive, Exists, TypeQueues
    <3>2. Head(queue[recv_from[w]]) \in Messages
      BY <3>1, HeadTailProperties
    <3> QED
      BY <2>2, <3>2 DEF Receive, Goto, handles
  <2>3. CASE Delete(w) \/ Clear(w)
    BY <2>3 DEF Delete, Clear, Goto, handles
  <2>4. CASE End(w)
    BY <2>4 DEF End, handles
  <2> QED
    BY <1>3, <2>1, <2>2, <2>3, <2>4 DEF Work
<1>4. CASE Host \/ UNCHANGED vars
  BY <1>4, HostFrame DEF vars, handles, workerVars
<1> QED
  BY <1>1, <1>2, <1>3, <1>4 DEF Next, Supervisor

LEMMA TypeAliveStep == TypeOK /\ [Next]_vars => TypeAlive'
<1> SUFFICES ASSUME TypeAlive, [Next]_vars PROVE TypeAlive'
  BY DEF TypeOK
<1> USE DEF TypeAlive
<1>1. CASE Supervisor
  BY <1>1 DEF Supervisor, Start, StartFails, Advertise, AdvertiseFails, Started, Stop, Stopped,
     LeaveQueue, queueVars
<1>2. ASSUME NEW w \in Runs, Work(w) PROVE TypeAlive'
  BY <1>2 DEF Work, Begin, Test, Receive, TimesOut, Handle, Report, Delete, Clear, End, queueVars
<1>3. CASE Host \/ UNCHANGED vars
  BY <1>3, HostFrame DEF vars, queueVars
<1> QED
  BY <1>1, <1>2, <1>3 DEF Next

\* Whatever the threads do to one another's handles, every variable stays in its domain
\* and no queue is longer than its length.
THEOREM TypeCorrect == Spec => []TypeOK
<1>1. Init => TypeOK
  BY EmptyFits DEF Init, TypeOK, TypeFlags, TypeThreads, TypeWorkers, TypeQueues, TypeAlive, Places,
     Messages
<1>2. TypeOK /\ [Next]_vars => TypeOK'
  BY TypeFlagsStep, TypeThreadsStep, TypeWorkersStep, TypeQueuesStep, TypeAliveStep DEF TypeOK
<1> QED
  BY <1>1, <1>2, PTL DEF Spec

-----------------------------------------------------------------------------
(* One worker, when a start waits for the last.                            *)

\* The worker there is belongs to the last start, and no thread returned from its function.
Alone == \A w \in Runs : worker[w] # "none" => w = ble_config_task_handle /\ worker[w] # "fault"

\* Until it deletes it, its queue exists and is the one that the handle names.
Owns == \A w \in Runs :
    /\ worker[w] \in Serving \cup {"created", "delete"} => w = ble_config_queue_handle /\ alive[w]
    /\ worker[w] = "recv" => recv_from[w] = w
    /\ recv_from[w] \in {w, NoRun}

\* The flag is that of a worker that had its first turn.  While BLE is on, or coming on, the
\* worker is neither ending nor told to.
Running ==
    /\ app = "stopping" => ble_config_init
    /\ app \in {"starting", "advertising"} => ~ble_config_init
    /\ ble_config_task_run => \E w \in Runs : worker[w] \in Serving
    /\ ble_config_init \/ app \in {"starting", "advertising"} =>
         \E w \in Runs : /\ worker[w] \in Serving \cup {"created"}
                         /\ worker[w] \in Serving => ble_config_task_run

\* The host's thread is in the callback only while the radio is on, and posts only where a
\* worker has begun.
HostOn ==
    /\ host # "idle" => radio \in {"linked", "silent"}
    /\ radio # "off" => ble_config_init \/ app = "advertising"
    /\ host = "send" => ble_config_task_run

OneWorker == Alone /\ Owns /\ Running /\ HostOn

\* So the one worker there is serves, or is about to, while BLE is on or coming on.
LEMMA ServedBy ==
    ASSUME Alone, Running, ble_config_init \/ app \in {"starting", "advertising"},
           NEW w \in Runs, worker[w] # "none"
    PROVE  /\ worker[w] \in Serving \cup {"created"}
           /\ worker[w] \in Serving => ble_config_task_run
<1>1. PICK v \in Runs : /\ worker[v] \in Serving \cup {"created"}
                        /\ worker[v] \in Serving => ble_config_task_run
  BY DEF Running
<1>2. worker[v] # "none"
  BY <1>1 DEF Serving
<1>3. v = w
  BY <1>2 DEF Alone
<1> QED
  BY <1>1, <1>3

LEMMA SupervisorStep ==
    ASSUME StartWaits, TypeOK, OneWorker, Supervisor PROVE OneWorker'
<1> USE DEF OneWorker
<1>1. ASSUME NEW r \in Runs, Start(r) PROVE OneWorker'
  <2>1. \A w \in Runs : worker[w] = "none"
    BY <1>1 DEF Start, MayStart
  <2>2. worker' = [worker EXCEPT ![r] = "created"] /\ worker \in [Runs -> Places]
    BY <1>1 DEF Start, TypeOK, TypeWorkers
  <2>3. Alone' /\ Owns'
    BY <1>1, <2>1, <2>2 DEF Start, Alone, Owns, Serving, TypeOK, TypeAlive
  <2>4. Running'
    BY <1>1, <2>1, <2>2 DEF Start, MayStart, Running, Serving, flags
  <2>5. HostOn'
    BY <1>1 DEF Start, MayStart, HostOn, flags, hostVars
  <2> QED
    BY <2>3, <2>4, <2>5
<1>2. ASSUME NEW r \in Runs, StartFails(r) PROVE OneWorker'
  <2>1. \A w \in Runs : worker[w] = "none"
    BY <1>2 DEF StartFails, MayStart
  <2>2. Alone' /\ Owns'
    BY <1>2, <2>1 DEF StartFails, Alone, Owns, Serving, workerVars
  <2>3. Running' /\ HostOn'
    BY <1>2 DEF StartFails, MayStart, Running, HostOn, flags, hostVars, workerVars
  <2> QED
    BY <2>2, <2>3
<1>3. CASE Advertise
  <2>1. Alone' /\ Owns'
    BY <1>3 DEF Advertise, Alone, Owns, handles, workerVars, queueVars
  <2>2. Running'
    BY <1>3 DEF Advertise, Running, flags, workerVars
  <2>3. HostOn'
    BY <1>3 DEF Advertise, Running, HostOn, flags
  <2> QED
    BY <2>1, <2>2, <2>3
<1>4. CASE AdvertiseFails \/ Started \/ Stop \/ Stopped
  <2>1. Alone' /\ Owns'
    BY <1>4 DEF AdvertiseFails, Started, Stop, Stopped, LeaveQueue, Alone, Owns, handles, workerVars,
       queueVars
  <2>2. Running'
    BY <1>4 DEF AdvertiseFails, Started, Stop, Stopped, ClearFlags, Running, flags, workerVars
  <2>3. HostOn'
    BY <1>4 DEF AdvertiseFails, Started, Stop, Stopped, ClearFlags, RadioOff, Running, HostOn, flags,
       hostVars
  <2> QED
    BY <2>1, <2>2, <2>3
<1> QED
  BY <1>1, <1>2, <1>3, <1>4 DEF Supervisor

LEMMA WorkStep ==
    ASSUME TypeOK, OneWorker, NEW w \in Runs, Work(w) PROVE OneWorker'
<1> USE DEF OneWorker
<1>1. UNCHANGED <<ble_config_init, callback, app, hostVars>>
  BY WorkFrame
<1>2. HostOn'
  <2>1. ble_config_task_run' \in {ble_config_task_run, TRUE}
    BY DEF Work, Begin, FirstTurn, Test, Receive, TimesOut, Handle, Report, Delete, Clear, End
  <2> QED
    BY <1>1, <2>1 DEF HostOn, hostVars
<1>3. worker[w] # "none" /\ w = ble_config_task_handle /\ worker \in [Runs -> Places]
      /\ \A v \in Runs \ {w} : worker[v] = "none"
  BY DEF Work, Begin, Test, Receive, TimesOut, Handle, Report, Delete, Clear, End, Alone, TypeOK,
     TypeWorkers
<1>4. CASE Begin(w)
  <2>1. worker[w] = "created" /\ worker' = [worker EXCEPT ![w] = "test"] /\ ble_config_task_run' = TRUE
    BY <1>4 DEF Begin, FirstTurn, Goto
  <2>2. Alone' /\ Owns'
    BY <1>3, <1>4, <2>1 DEF Begin, Alone, Owns, Serving, handles, queueVars
  <2>3. Running'
    BY <1>1, <1>3, <2>1 DEF Running, Serving
  <2> QED
    BY <1>2, <2>2, <2>3
<1>5. CASE Test(w)
  <2>1. CASE ble_config_task_run
    <3>1. worker' = [worker EXCEPT ![w] = "recv"] /\ recv_from' = [recv_from EXCEPT ![w] = w]
      BY <1>5, <2>1 DEF Test, Goto, Owns, Serving
    <3>2. Alone' /\ Owns'
      BY <1>3, <1>5, <3>1 DEF Test, Alone, Owns, Serving, handles, queueVars, TypeOK, TypeWorkers
    <3>3. Running'
      BY <1>1, <1>3, <1>5, <2>1, <3>1 DEF Test, Running, Serving
    <3> QED
      BY <1>2, <3>2, <3>3
  <2>2. CASE ~ble_config_task_run
    <3>1. worker[w] = "test" /\ worker' = [worker EXCEPT ![w] = "delete"] /\ UNCHANGED recv_from
      BY <1>5, <2>2 DEF Test, Goto
    <3>2. Alone' /\ Owns'
      BY <1>3, <1>5, <3>1 DEF Test, Alone, Owns, Serving, handles, queueVars
    <3>3. app \notin {"starting", "advertising"} /\ ~ble_config_init
      BY <1>3, <2>2, <3>1, ServedBy DEF Serving
    <3>4. Running'
      BY <1>1, <1>5, <2>2, <3>3 DEF Test, Running
    <3> QED
      BY <1>2, <3>2, <3>4
  <2> QED
    BY <2>1, <2>2
<1>6. CASE Receive(w) \/ TimesOut(w) \/ Handle(w) \/ Report(w)
  <2>1. PICK l \in {"test", "handle", "report"} : worker' = [worker EXCEPT ![w] = l]
    BY <1>6 DEF Receive, TimesOut, Handle, Report, Goto
  <2>2. worker[w] \in Serving
    BY <1>6 DEF Receive, TimesOut, Handle, Report, Serving
  <2>3. UNCHANGED <<handles, recv_from, alive, ble_config_task_run>>
    BY <1>6 DEF Receive, TimesOut, Handle, Report, queueVars
  <2>4. Alone' /\ Owns'
    BY <1>3, <2>1, <2>2, <2>3 DEF Alone, Owns, Serving, handles
  <2>5. Running'
    BY <1>1, <1>3, <2>1, <2>2, <2>3 DEF Running, Serving
  <2> QED
    BY <1>2, <2>4, <2>5
<1>7. CASE Delete(w) \/ Clear(w) \/ End(w)
  <2>1. worker[w] \in {"delete", "clear", "end"} /\ ble_config_task_run' = ble_config_task_run
    BY <1>7 DEF Delete, Clear, End
  <2>2. app # "starting" /\ ~ble_config_init /\ app # "advertising"
    BY <1>3, <2>1, ServedBy DEF Serving
  <2>7. ~ble_config_task_run
    BY <1>3, <2>1 DEF Running, Serving
  <2>3. Running'
    BY <1>1, <2>1, <2>2, <2>7 DEF Running
  <2>4. CASE Delete(w)
    <3>1. Exists(ble_config_queue_handle)
      BY <2>4 DEF Delete, Owns, Exists
    <3>2. worker' = [worker EXCEPT ![w] = "clear"] /\ UNCHANGED <<handles, recv_from>>
      BY <2>4, <3>1 DEF Delete, Goto
    <3> QED
      BY <1>2, <1>3, <2>3, <3>2 DEF Alone, Owns, Serving, handles
  <2>5. CASE Clear(w)
    <3>1. worker' = [worker EXCEPT ![w] = "end"] /\ UNCHANGED <<ble_config_task_handle, recv_from>>
      BY <2>5 DEF Clear, Goto
    <3> QED
      BY <1>2, <1>3, <2>3, <3>1 DEF Alone, Owns, Serving
  <2>6. CASE End(w)
    <3>1. \A v \in Runs : worker'[v] = "none"
      BY <1>3, <2>6 DEF End
    <3> QED
      BY <1>2, <2>3, <2>6, <3>1 DEF End, Alone, Owns, Serving
  <2> QED
    BY <1>7, <2>4, <2>5, <2>6
<1> QED
  BY <1>4, <1>5, <1>6, <1>7 DEF Work

LEMMA HostStep ==
    ASSUME OneWorker, Host \/ UNCHANGED vars PROVE OneWorker'
<1>1. UNCHANGED <<flags, handles, app, workerVars, alive>>
  BY HostFrame DEF vars, queueVars
<1>2. Alone' /\ Owns' /\ Running'
  BY <1>1 DEF OneWorker, Alone, Owns, Running, flags, handles, workerVars
<1>3. HostOn'
  BY <1>1 DEF OneWorker, HostOn, Host, PhoneLinks, PhoneDoes, Connected, Written, Disconnected, Check,
     Send, flags, vars, hostVars
<1> QED
  BY <1>2, <1>3 DEF OneWorker

LEMMA OneWorkerCorrect == StartWaits => (Spec => []OneWorker)
<1> SUFFICES ASSUME StartWaits PROVE Spec => []OneWorker
  OBVIOUS
<1>1. Init => OneWorker
  BY RunAssumption DEF Init, OneWorker, Alone, Owns, Running, HostOn, Serving
<1>2. TypeOK /\ OneWorker /\ [Next]_vars => OneWorker'
  BY SupervisorStep, WorkStep, HostStep DEF Next
<1> QED
  BY <1>1, <1>2, TypeCorrect, PTL DEF Spec

\* As long as a start finds no worker left, no thread uses a queue that is gone, deletes
\* one twice or ends another thread, however a stop interrupts the worker and the host.
THEOREM QueueInUseExistsCorrect == StartWaits => (Spec => []QueueInUseExists)
<1>1. OneWorker => QueueInUseExists
  BY DEF OneWorker, Alone, Owns, Running, HostOn, Serving, Exists, QueueInUseExists
<1> QED
  BY <1>1, OneWorkerCorrect, PTL

\* ... and while BLE is initialised a worker reads the queue that the phone's events go to.
THEOREM ServedWhileOnCorrect == StartWaits => (Spec => []ServedWhileOn)
<1> SUFFICES ASSUME StartWaits PROVE Spec => []ServedWhileOn
  OBVIOUS
<1>1. ASSUME OneWorker, TypeOK, ble_config_init PROVE ServedWhileOn
  <2>1. PICK w \in Runs : worker[w] \in Serving \cup {"created"}
    BY <1>1 DEF OneWorker, Running
  <2>2. w = ble_config_queue_handle /\ alive[w] /\ recv_from[w] \in {w, NoRun}
    BY <1>1, <2>1 DEF OneWorker, Owns
  <2>3. worker[w] \in Serving => ble_config_task_run
    BY <1>1, <2>1, ServedBy DEF OneWorker, Serving
  <2>4. ble_config_task_run => worker[w] \in Serving
    <3>1. SUFFICES ASSUME ble_config_task_run PROVE worker[w] \in Serving
      OBVIOUS
    <3>2. PICK v \in Runs : worker[v] \in Serving
      BY <1>1, <3>1 DEF OneWorker, Running
    <3> QED
      BY <1>1, <2>1, <3>2 DEF OneWorker, Alone, Serving
  <2>5. ble_config_task_run <=> worker[w] # "created"
    BY <2>1, <2>3, <2>4 DEF Serving
  <2> QED
    BY <2>1, <2>2, <2>5 DEF Exists, ServedWhileOn
<1>2. OneWorker /\ TypeOK => ServedWhileOn
  <2>1. ~ble_config_init => ServedWhileOn
    BY DEF ServedWhileOn
  <2> QED
    BY <1>1, <2>1
<1> QED
  BY <1>2, OneWorkerCorrect, TypeCorrect, PTL

-----------------------------------------------------------------------------
(* LeftIsLast: the disconnection among the messages.                       *)

\* The link is gone, and nothing that the phone sent is on its way to the worker.
Gone    == radio \in {"silent", "off"}
Silence == Gone /\ host = "idle" /\ \A q \in Runs : queue[q] = <<>>
Handling(w) == worker[w] \in {"handle", "report"}

\* A disconnection is posted last, once the link is gone, and handled alone.
LeftInQueues == \A q \in Runs :
    /\ queue[q] # <<>> => worker[q] \in Serving \cup {"delete"}
    /\ \A i \in 1 .. Len(queue[q]) :
         queue[q][i] = "LEFT" => i = Len(queue[q]) /\ host = "idle" /\ Gone
LeftInThreads ==
    /\ host # "idle" /\ host_msg = "LEFT" => Gone
    /\ \A w \in Runs : Handling(w) /\ msg[w] = "LEFT" => Silence
    /\ said_left => Silence /\ \A w \in Runs : ~Handling(w)
\* A start finds nothing left of the last run.
StartsEmpty ==
    app = "starting" => ~said_left /\ \A w \in Runs : queue[w] = <<>> /\ ~Handling(w)
LeftInv == LeftInQueues /\ LeftInThreads /\ StartsEmpty

\* A start finds every queue empty, and the radio off until it advertises.
LEMMA LeftSupervisor ==
    ASSUME StartWaits, TypeOK, OneWorker, LeftInv, Supervisor PROVE LeftInv'
<1> USE DEF LeftInv, LeftInQueues, LeftInThreads, StartsEmpty, Silence, Gone, Handling
<1>1. ASSUME NEW r \in Runs, Start(r) \/ StartFails(r) PROVE LeftInv'
  <2>1. \A w \in Runs : worker[w] = "none" /\ queue[w] = <<>>
    BY <1>1 DEF Start, StartFails, MayStart, Serving
  <2>2. \A w \in Runs : queue'[w] = <<>> /\ worker'[w] \in {"none", "created"}
    BY <1>1, <2>1 DEF Start, StartFails, TypeOK, TypeWorkers, TypeQueues, workerVars, queueVars
  <2>3. \/ said_left' = FALSE
        \/ said_left' = said_left /\ app' = "idle"
    BY <1>1 DEF Start, StartFails, MayStart, history
  <2>4. UNCHANGED hostVars
    BY <1>1 DEF Start, StartFails
  <2> QED
    BY <2>1, <2>2, <2>3, <2>4, EmptyFits DEF hostVars
<1>2. CASE Advertise
  <2>1. app = "starting" /\ radio = "off" /\ host = "idle"
    BY <1>2 DEF Advertise, OneWorker, Running, HostOn
  <2> QED
    BY <1>2, <2>1 DEF Advertise, history, workerVars, queueVars
<1>3. CASE AdvertiseFails \/ Started \/ Stop \/ Stopped
  BY <1>3 DEF AdvertiseFails, Started, Stop, Stopped, RadioOff, LeaveQueue, history, workerVars, queueVars,
              hostVars
<1> QED
  BY <1>1, <1>2, <1>3 DEF Supervisor

\* Once the link is gone the phone does nothing: what is posted for that comes last.
LEMMA LeftHost ==
    ASSUME TypeOK, OneWorker, LeftInv, Host PROVE LeftInv'
<1> USE DEF LeftInv, LeftInQueues, LeftInThreads, StartsEmpty, Silence, Gone, Handling
<1>1. UNCHANGED <<flags, app, workerVars, said_left>>
  BY HostFrame
<1>2. CASE PhoneLinks
  BY <1>1, <1>2 DEF PhoneLinks, Connected, workerVars
<1>3. ASSUME NEW m \in {"DATA", "LEFT"}, PhoneDoes(m) PROVE LeftInv'
  BY <1>1, <1>3 DEF PhoneDoes, Written, Disconnected, workerVars
<1>4. CASE Check
  BY <1>1, <1>4 DEF Check, Forget, workerVars
<1>5. CASE Send
  <2> DEFINE q == ble_config_queue_handle
             s == queue[q]
  <2>1. host = "send" /\ host' = "idle" /\ UNCHANGED <<radio, host_msg>> /\ app # "starting"
    BY <1>5 DEF Send, OneWorker, HostOn, Running
  <2>2. CASE queue' = queue
    BY <1>1, <2>1, <2>2 DEF workerVars
  <2>3. CASE Exists(q) /\ queue' = [queue EXCEPT ![q] = Append(s, host_msg)]
    <3>1. q \in Runs /\ worker[q] \in Serving
      BY <2>1, <2>3 DEF Exists, OneWorker, HostOn, Running, Owns
    <3>2. s \in Seq(Messages) /\ host_msg \in Messages
      BY <2>1, <3>1 DEF TypeOK, TypeQueues, TypeThreads
    <3>3. /\ Len(Append(s, host_msg)) = Len(s) + 1 /\ Len(s) \in Nat
          /\ \A i \in 1 .. Len(s) : Append(s, host_msg)[i] = s[i]
          /\ Append(s, host_msg)[Len(s) + 1] = host_msg
      BY <3>2, AppendProperties, LenProperties
    <3>4. queue'[q] = Append(s, host_msg) /\ \A r \in Runs \ {q} : queue'[r] = queue[r]
      BY <2>3, <3>1 DEF TypeOK, TypeQueues
    <3>5. \A i \in 1 .. Len(s) : s[i] # "LEFT"
      BY <2>1, <3>1
    <3>6. LeftInQueues'
      <4>1. \A i \in 1 .. Len(queue'[q]) :
               queue'[q][i] = "LEFT" => i = Len(queue'[q]) /\ host' = "idle" /\ Gone'
        BY <2>1, <3>3, <3>4, <3>5
      <4> QED
        BY <1>1, <2>1, <3>1, <3>4, <4>1 DEF workerVars
    <3>7. LeftInThreads' /\ StartsEmpty'
      BY <1>1, <2>1 DEF workerVars
    <3> QED
      BY <3>6, <3>7
  <2> QED
    BY <1>5, <2>2, <2>3 DEF Send, Forget
<1> QED
  BY <1>2, <1>3, <1>4, <1>5 DEF Host

\* The worker takes it out of a queue that is empty then.
LEMMA LeftWork ==
    ASSUME TypeOK, OneWorker, LeftInv, NEW w \in Runs, Work(w) PROVE LeftInv'
<1> USE DEF LeftInv, LeftInQueues, LeftInThreads, StartsEmpty, Silence, Gone, Handling
<1>1. UNCHANGED <<app, hostVars>>
  BY WorkFrame
<1>2. /\ worker[w] # "none" /\ worker \in [Runs -> Places]
      /\ \A v \in Runs \ {w} : worker[v] = "none" /\ queue[v] = <<>>
  BY DEF Work, Begin, Test, Receive, TimesOut, Handle, Report, Delete, Clear, End, OneWorker, Alone, TypeOK,
     TypeWorkers, Serving
<1>3. CASE Begin(w) \/ Test(w) \/ TimesOut(w) \/ Handle(w) \/ Clear(w)
  <2>1. UNCHANGED <<queue, msg, said_left>>
    BY <1>3 DEF Begin, Test, TimesOut, Handle, Clear, queueVars, history
  <2>2. /\ \A v \in Runs \ {w} : worker'[v] = worker[v]
        /\ worker'[w] \in Serving \cup {"delete"} \/ queue[w] = <<>>
        /\ worker'[w] \in {"handle", "report"} => worker[w] = "handle"
    BY <1>2, <1>3 DEF Begin, Test, TimesOut, Handle, Clear, Goto, Serving
  <2> QED
    BY <1>1, <1>2, <2>1, <2>2 DEF hostVars
<1>4. CASE Receive(w)
  <2>1. recv_from[w] = w /\ worker[w] = "recv"
    BY <1>4 DEF Receive, OneWorker, Owns
  <2> DEFINE s == queue[w]
  <2>2. s \in Seq(Messages) /\ s # <<>>
    BY <1>4, <2>1 DEF Receive, TypeOK, TypeQueues
  <2>3. /\ Len(s) \in Nat \ {0} /\ Head(s) = s[1] /\ Len(Tail(s)) = Len(s) - 1
        /\ \A i \in 1 .. Len(Tail(s)) : Tail(s)[i] = s[i + 1]
        /\ Tail(s) \in Seq(Messages)
    BY <2>2, HeadTailProperties, LenProperties, EmptySeq
  <2>9. \A i \in 1 .. Len(s) : s[i] = "LEFT" => i = Len(s) /\ host = "idle" /\ Gone
    OBVIOUS
  <2>4. /\ queue'[w] = Tail(s) /\ msg'[w] = s[1] /\ worker'[w] = "handle"
        /\ \A v \in Runs \ {w} : queue'[v] = queue[v] /\ worker'[v] = worker[v]
        /\ said_left' = said_left
    BY <1>2, <1>4, <2>1, <2>3 DEF Receive, Goto, TypeOK, TypeQueues, TypeWorkers, history
  <2>5. ~said_left /\ app # "starting"
    BY <2>2
  <2>6. LeftInQueues'
    <3>1. \A i \in 1 .. Len(queue'[w]) :
             queue'[w][i] = "LEFT" => i = Len(queue'[w]) /\ host' = "idle" /\ Gone'
      BY <1>1, <2>3, <2>4 DEF hostVars
    <3>2. \A v \in Runs \ {w} : queue'[v] = <<>> /\ 1 .. Len(queue'[v]) = {}
      BY <1>2, <2>4, EmptyFits
    <3>3. ASSUME NEW v \in Runs
          PROVE  /\ queue'[v] # <<>> => worker'[v] \in Serving \cup {"delete"}
                 /\ \A i \in 1 .. Len(queue'[v]) :
                      queue'[v][i] = "LEFT" => i = Len(queue'[v]) /\ host' = "idle" /\ Gone'
      <4>1. CASE v = w
        BY <2>4, <3>1, <4>1 DEF Serving
      <4>2. CASE v # w
        BY <3>2, <4>2
      <4> QED
        BY <4>1, <4>2
    <3> QED
      BY <3>3
  <2>7. ASSUME s[1] = "LEFT" PROVE Silence'
    <3>1. Len(s) = 1 /\ host = "idle" /\ Gone
      <4> HIDE DEF s
      <4>1. 1 \in 1 .. Len(s)
        BY <2>3
      <4> QED
        BY <2>9, <2>7, <4>1
    <3>2. Tail(s) = <<>>
      <4>1. Tail(s) \in Seq(Messages) /\ Len(Tail(s)) = 0
        BY <2>3, <3>1
      <4> QED
        BY <4>1, EmptySeq
    <3> QED
      BY <1>1, <1>2, <2>4, <3>1, <3>2 DEF hostVars
  <2>8. LeftInThreads' /\ StartsEmpty'
    BY <1>1, <1>2, <2>4, <2>5, <2>7 DEF hostVars
  <2> QED
    BY <2>6, <2>8
<1>5. CASE Report(w)
  <2>1. worker'[w] = "test" /\ \A v \in Runs \ {w} : worker'[v] = worker[v]
    BY <1>2, <1>5 DEF Report, Goto
  <2>2. UNCHANGED <<queue, msg>> /\ said_left' = (said_left \/ msg[w] = "LEFT") /\ worker[w] = "report"
    BY <1>5 DEF Report, queueVars
  <2>3. said_left' => Silence
    BY <2>2
  <2> QED
    BY <1>1, <1>2, <2>1, <2>2, <2>3 DEF hostVars, Serving
<1>6. CASE Delete(w) \/ End(w)
  <2>1. CASE Delete(w)
    <3>1. w = ble_config_queue_handle /\ Exists(w)
      BY <2>1 DEF Delete, OneWorker, Owns, Exists
    <3>2. \A v \in Runs : queue'[v] = <<>> /\ worker'[v] \in {"none", "clear"}
      BY <1>2, <2>1, <3>1 DEF Delete, Goto
    <3> QED
      BY <1>1, <2>1, <3>2, EmptyFits DEF Delete, hostVars, history
  <2>2. CASE End(w)
    <3>1. \A v \in Runs : queue[v] = <<>> /\ worker'[v] = "none"
      BY <1>2, <2>2 DEF End, OneWorker, Alone, Serving
    <3> QED
      BY <1>1, <2>2, <3>1, EmptyFits DEF End, hostVars, history, queueVars
  <2> QED
    BY <1>6, <2>1, <2>2
<1> QED
  BY <1>3, <1>4, <1>5, <1>6 DEF Work

\* As long as a start finds no worker left, the report that the phone left is the last of
\* its run: what the phone sent before was handled or dropped by then, for any length of
\* the queue, and nothing comes after it until the next start advertises.
THEOREM LeftIsLastCorrect == StartWaits => (Spec => []LeftIsLast)
<1> SUFFICES ASSUME StartWaits PROVE Spec => []LeftIsLast
  OBVIOUS
<1>1. Init => LeftInv
  BY EmptyFits DEF Init, LeftInv, LeftInQueues, LeftInThreads, StartsEmpty, Silence, Gone, Handling
<1>2. LeftInv /\ UNCHANGED vars => LeftInv'
  BY DEF LeftInv, LeftInQueues, LeftInThreads, StartsEmpty, Silence, Gone, Handling, vars, flags,
     hostVars, workerVars, queueVars, history
<1>3. TypeOK /\ OneWorker /\ LeftInv /\ [Next]_vars => LeftInv'
  BY <1>2, LeftSupervisor, LeftWork, LeftHost DEF Next
<1>4. LeftInv => LeftIsLast
  BY DEF LeftInv, LeftInThreads, Silence, Handling, LeftIsLast
<1> QED
  BY <1>1, <1>3, <1>4, OneWorkerCorrect, TypeCorrect, PTL DEF Spec

=============================================================================
