------------------------------ MODULE BleConfig ------------------------------
(***************************************************************************)
(* The BLE provisioning task (src/aiTinkerCloud_SDK/protocol/              *)
(* aiio_ble_config.c): every start makes a queue and a worker that reads   *)
(* it; stopping clears a flag, and the worker deletes the queue and itself *)
(* when it next looks.  The handles are globals that a start overwrites.   *)
(* The supervisor starts and stops, the worker reports to its callback,    *)
(* and the BLE host's thread posts what the phone does.                    *)
(*                                                                         *)
(* A run is what one start made, its worker and its queue; the name of a   *)
(* run that has gone is used again.                                        *)
(***************************************************************************)
EXTENDS Naturals, Sequences

CONSTANTS
    Runs,           \* names of runs
    NoRun,          \* a NULL handle
    QueueMax,       \* QUEUE_MAX_SIZE (5)
    StartWaits,     \* the supervisor starts only when no worker is left; the code does not
    MemoryFails     \* the allocations of a start may fail

ASSUME RunAssumption == NoRun \notin Runs
ASSUME QueueAssumption == QueueMax \in Nat \ {0}
ASSUME SwitchAssumption == StartWaits \in BOOLEAN /\ MemoryFails \in BOOLEAN

VARIABLES
    ble_config_init, ble_config_task_run,
    ble_config_queue_handle, ble_config_task_handle,    \* the runs they belong to
    callback,       \* ble_iot_config.aiio_ble_iot_config_cb is set
    app,            \* where the supervisor is: idle, starting, advertising or stopping
    radio,          \* off, adv, linked or silent
    host, host_msg, \* where aiio_ble_cb is in the host's thread, and what it posts
    worker,         \* where the worker of a run is
    msg,            \* what it handles
    recv_from,      \* the queue it waits on
    queue, alive,   \* the queue of a run, and whether it exists
    said_left,      \* history: the callback was told that the phone left
    dropped         \* history: ... or that was not queued

handles    == <<ble_config_queue_handle, ble_config_task_handle>>
flags      == <<ble_config_init, ble_config_task_run>>
hostVars   == <<radio, host, host_msg>>
workerVars == <<worker, msg, recv_from>>
queueVars  == <<queue, alive>>
history    == <<said_left, dropped>>
vars == <<flags, handles, callback, app, hostVars, workerVars, queueVars, history>>

Init ==
    /\ ble_config_init = FALSE /\ ble_config_task_run = FALSE
    /\ ble_config_queue_handle = NoRun /\ ble_config_task_handle = NoRun
    /\ callback = FALSE /\ app = "idle"
    /\ radio = "off" /\ host = "idle" /\ host_msg = "none"
    /\ worker = [r \in Runs |-> "none"] /\ msg = [r \in Runs |-> "none"]
    /\ recv_from = [r \in Runs |-> NoRun]
    /\ queue = [r \in Runs |-> <<>>] /\ alive = [r \in Runs |-> FALSE]
    /\ said_left = FALSE /\ dropped = FALSE

-----------------------------------------------------------------------------
(* The radio: driver/aiio_ble.c.  An advertisement is for one link; when   *)
(* that is gone, nothing is advertised until the next start.               *)

\* aiio_ble_adv_start: its caller does not look whether it failed.
AdvStart == radio' \in {"adv", "silent"}

Connected == radio = "adv" /\ radio' = "linked"

\* The write handlers of both services, with a link.
Written == radio = "linked" /\ UNCHANGED radio

AdvertisesAgain == radio = "linked" /\ radio' = "adv"       \* mutant
Disconnected == radio = "linked" /\ radio' = "silent"

\* aiio_ble_deinit: links are ended, and waited for five seconds at most.
RadioOff == radio' = "off"

-----------------------------------------------------------------------------
(* The supervisor: aiio_ble_config_init.                                   *)

\* A queue that nobody knows of any more has leaked; its name is used again.
Known(q) == q = ble_config_queue_handle \/ \E w \in Runs : worker[w] # "none" /\ recv_from[w] = q

MayStart(r) ==
    /\ app = "idle" /\ ~ble_config_init
    /\ worker[r] = "none" /\ ~Known(r)
    /\ StartWaits => \A v \in Runs : worker[v] = "none"

\* Queue and worker are made; then the supervisor waits for the radio.
Start(r) ==
    /\ MayStart(r)
    /\ callback' = TRUE
    /\ ble_config_queue_handle' = r /\ ble_config_task_handle' = r
    /\ queue' = [queue EXCEPT ![r] = <<>>] /\ alive' = [alive EXCEPT ![r] = TRUE]
    /\ worker' = [worker EXCEPT ![r] = "created"]
    /\ app' = "starting"
    /\ said_left' = FALSE /\ dropped' = FALSE
    /\ UNCHANGED <<flags, hostVars, msg, recv_from>>

\* A buffer, the queue or the worker cannot be made; a queue that was made stays.
StartFails(r) ==
    /\ MemoryFails /\ MayStart(r)
    /\ callback' = FALSE
    /\ \/ UNCHANGED <<ble_config_queue_handle, queueVars>>
       \/ ble_config_queue_handle' = NoRun /\ UNCHANGED queueVars
       \/ /\ ble_config_queue_handle' = r
          /\ queue' = [queue EXCEPT ![r] = <<>>] /\ alive' = [alive EXCEPT ![r] = TRUE]
    /\ UNCHANGED <<flags, ble_config_task_handle, app, hostVars, workerVars, history>>

\* The worker may have had its first turn by now, or not.
Advertise ==
    /\ app = "starting"
    /\ AdvStart /\ app' = "advertising"
    /\ UNCHANGED <<flags, handles, callback, host, host_msg, workerVars, queueVars, history>>

\* There is no memory for the advertisement: the worker is left running.
AdvertiseFails ==
    /\ MemoryFails /\ app = "starting"
    /\ callback' = FALSE /\ app' = "idle"
    /\ UNCHANGED <<flags, handles, hostVars, workerVars, queueVars, history>>

Started ==
    /\ app = "advertising" /\ app' = "idle"
    /\ ble_config_init' = TRUE
    /\ UNCHANGED <<ble_config_task_run, handles, callback, hostVars, workerVars, queueVars, history>>

(* aiio_ble_config_deinit: the callback is cleared first, then the         *)
(* supervisor waits for the radio; disabling it ends the host's thread.    *)
Stop ==
    /\ app = "idle" /\ ble_config_init
    /\ callback' = FALSE /\ app' = "stopping"
    /\ UNCHANGED <<flags, handles, hostVars, workerVars, queueVars, history>>

KeepsRunning == ble_config_init' = FALSE /\ UNCHANGED ble_config_task_run       \* mutant
ClearFlags == ble_config_init' = FALSE /\ ble_config_task_run' = FALSE

DeleteNow ==                                                                    \* mutant
    alive' = [alive EXCEPT ![ble_config_queue_handle] = FALSE] /\ UNCHANGED queue
LeaveQueue == UNCHANGED queueVars

Stopped ==
    /\ app = "stopping" /\ host = "idle"
    /\ app' = "idle" /\ RadioOff
    /\ ClearFlags /\ LeaveQueue
    /\ UNCHANGED <<handles, callback, host, host_msg, workerVars, history>>

Supervisor == (\E r \in Runs : Start(r) \/ StartFails(r)) \/ Advertise \/ AdvertiseFails
              \/ Started \/ Stop \/ Stopped

-----------------------------------------------------------------------------
(* The worker of run w: aiio_ble_config_task.                              *)
Goto(w, l) == worker' = [worker EXCEPT ![w] = l]

OnlyWorks == UNCHANGED <<ble_config_init, callback, app, hostVars>>

NoFirstTurn == UNCHANGED ble_config_task_run        \* mutant
FirstTurn == ble_config_task_run' = TRUE

Begin(w) ==
    /\ worker[w] = "created" /\ Goto(w, "test")
    /\ FirstTurn
    /\ OnlyWorks /\ UNCHANGED <<handles, msg, recv_from, queueVars, history>>

Test(w) ==
    /\ worker[w] = "test"
    /\ IF ble_config_task_run
         THEN Goto(w, "recv") /\ recv_from' = [recv_from EXCEPT ![w] = ble_config_queue_handle]
         ELSE Goto(w, "delete") /\ UNCHANGED recv_from
    /\ OnlyWorks /\ UNCHANGED <<ble_config_task_run, handles, msg, queueVars, history>>

Exists(q) == q \in Runs /\ alive[q]

Receive(w) ==
    LET q == recv_from[w]
    IN  /\ worker[w] = "recv" /\ Exists(q) /\ queue[q] # <<>>
        /\ msg' = [msg EXCEPT ![w] = Head(queue[q])]
        /\ queue' = [queue EXCEPT ![q] = Tail(@)]
        /\ Goto(w, "handle")
        /\ OnlyWorks /\ UNCHANGED <<ble_config_task_run, handles, recv_from, alive, history>>

TimesOut(w) ==
    /\ worker[w] = "recv" /\ Exists(recv_from[w]) /\ queue[recv_from[w]] = <<>>
    /\ Goto(w, "test")
    /\ OnlyWorks /\ UNCHANGED <<ble_config_task_run, handles, msg, recv_from, queueVars, history>>

\* A disconnection is always reported; data only when a message is complete or cannot be
\* parsed, and otherwise acknowledged.  The callback is tested here and called in Report.
ReportsDataOnly(w) == msg[w] # "LEFT"           \* mutant
Reports(w) == callback

Handle(w) ==
    /\ worker[w] = "handle"
    /\ \/ Reports(w) /\ Goto(w, "report")
       \/ (~Reports(w) \/ msg[w] = "DATA") /\ Goto(w, "test")
    /\ OnlyWorks /\ UNCHANGED <<ble_config_task_run, handles, msg, recv_from, queueVars, history>>

Report(w) ==
    /\ worker[w] = "report" /\ Goto(w, "test")
    /\ said_left' = (said_left \/ msg[w] = "LEFT")
    /\ OnlyWorks
    /\ UNCHANGED <<ble_config_task_run, handles, msg, recv_from, queueVars, dropped>>

\* The end of the worker: the queue the handle names, the handle, the thread it names.
Delete(w) ==
    LET q == ble_config_queue_handle
    IN  /\ worker[w] = "delete"
        /\ IF Exists(q)
             THEN alive' = [alive EXCEPT ![q] = FALSE] /\ Goto(w, "clear")
             ELSE UNCHANGED alive /\ Goto(w, "fault")
        /\ queue' = [r \in Runs |-> IF r = q THEN <<>> ELSE queue[r]]
        /\ OnlyWorks
        /\ UNCHANGED <<ble_config_task_run, handles, msg, recv_from, history>>

Clear(w) ==
    /\ worker[w] = "clear" /\ Goto(w, "end")
    /\ ble_config_queue_handle' = NoRun
    /\ OnlyWorks
    /\ UNCHANGED <<ble_config_task_run, ble_config_task_handle, msg, recv_from, queueVars, history>>

\* The worker of another run is deleted instead, and this one returns from its function.
End(w) ==
    LET t == ble_config_task_handle
    IN  /\ worker[w] = "end"
        /\ worker' = [r \in Runs |-> IF r = t THEN "none"
                                     ELSE IF r = w THEN "fault" ELSE worker[r]]
        /\ OnlyWorks /\ UNCHANGED <<ble_config_task_run, handles, msg, recv_from, queueVars, history>>

Work(w) == Begin(w) \/ Test(w) \/ Receive(w) \/ TimesOut(w) \/ Handle(w) \/ Report(w)
           \/ Delete(w) \/ Clear(w) \/ End(w)

-----------------------------------------------------------------------------
(* The phone, and aiio_ble_cb in the thread of the BLE host.               *)
HostOnly == UNCHANGED <<flags, handles, callback, app, workerVars, alive, said_left>>

PhoneLinks ==
    /\ Connected
    /\ HostOnly /\ UNCHANGED <<host, host_msg, queue, dropped>>

PhoneDoes(m) ==
    /\ host = "idle"
    /\ IF m = "LEFT" THEN Disconnected ELSE Written
    /\ host' = "check" /\ host_msg' = m
    /\ HostOnly /\ UNCHANGED <<queue, dropped>>

\* A copy of data that is not posted is freed, or could not be made; a disconnection that
\* is not posted is forgotten.
Forget == dropped' = (dropped \/ host_msg = "LEFT") /\ UNCHANGED queue

Check ==
    /\ host = "check" /\ UNCHANGED <<radio, host_msg>>
    /\ \/ /\ ble_config_queue_handle # NoRun /\ ble_config_task_run
          /\ host' = "send" /\ UNCHANGED <<queue, dropped>>
       \/ /\ \/ ~(ble_config_queue_handle # NoRun /\ ble_config_task_run)
             \/ MemoryFails /\ host_msg = "DATA"
          /\ host' = "idle" /\ Forget
    /\ HostOnly

SendsOneMore(q) == Len(queue[q]) <= QueueMax    \* mutant
Room(q) == Len(queue[q]) < QueueMax

Send ==
    LET q == ble_config_queue_handle
    IN  /\ host = "send" /\ host' = "idle" /\ UNCHANGED <<radio, host_msg>>
        /\ IF Exists(q) /\ Room(q)
             THEN queue' = [queue EXCEPT ![q] = Append(@, host_msg)] /\ UNCHANGED dropped
             ELSE Forget
        /\ HostOnly

Host == PhoneLinks \/ (\E m \in {"DATA", "LEFT"} : PhoneDoes(m)) \/ Check \/ Send

-----------------------------------------------------------------------------
Next == Supervisor \/ Host \/ \E w \in Runs : Work(w)

Spec == Init /\ [][Next]_vars

(* Every thread finishes what it has begun; the supervisor and the phone   *)
(* need not begin anything.  Disabling the radio ends the host's thread    *)
(* between two calls of aiio_ble_cb, however many the phone provokes.      *)
Fairness ==
    /\ WF_vars(Advertise \/ AdvertiseFails) /\ WF_vars(Started) /\ SF_vars(Stopped)
    /\ WF_vars(Check \/ Send)
    /\ \A w \in Runs : WF_vars(Work(w))

FairSpec == Spec /\ Fairness

-----------------------------------------------------------------------------
Serving == {"test", "recv", "handle", "report"}
Places == Serving \cup {"none", "created", "delete", "clear", "end", "fault"}
Messages == {"DATA", "LEFT"}

TypeFlags ==
    /\ ble_config_init \in BOOLEAN /\ ble_config_task_run \in BOOLEAN /\ callback \in BOOLEAN
    /\ said_left \in BOOLEAN /\ dropped \in BOOLEAN
TypeThreads ==
    /\ app \in {"idle", "starting", "advertising", "stopping"}
    /\ radio \in {"off", "adv", "linked", "silent"}
    /\ host \in {"idle", "check", "send"} /\ host_msg \in Messages \cup {"none"}
    /\ host # "idle" => host_msg \in Messages
TypeWorkers ==
    /\ ble_config_queue_handle \in Runs \cup {NoRun} /\ ble_config_task_handle \in Runs \cup {NoRun}
    /\ worker \in [Runs -> Places] /\ msg \in [Runs -> Messages \cup {"none"}]
    /\ recv_from \in [Runs -> Runs \cup {NoRun}]
TypeQueues ==
    /\ queue \in [Runs -> Seq(Messages)] /\ \A r \in Runs : Len(queue[r]) <= QueueMax
TypeAlive == alive \in [Runs -> BOOLEAN]

\* Every variable stays in its domain; no queue holds more than its length.
TypeOK == TypeFlags /\ TypeThreads /\ TypeWorkers /\ TypeQueues /\ TypeAlive

\* Nobody uses a queue that is gone, and no thread ends another: neither the worker that
\* waits, nor the host's thread between its test of the handle and its post, nor a worker
\* that deletes, as long as a start finds no worker left.
QueueInUseExists ==
    /\ host = "send" => Exists(ble_config_queue_handle)
    /\ \A w \in Runs :
         /\ worker[w] = "recv" => Exists(recv_from[w])
         /\ worker[w] = "delete" => Exists(ble_config_queue_handle)
         /\ worker[w] # "fault"

\* While BLE is initialised, one worker reads the queue to which the phone's events go, or
\* is about to, and from its first turn on the flag by which they are posted is set: a
\* stop that another start follows never leaves a device that advertises and does not listen.
ServedWhileOn ==
    ble_config_init =>
        /\ Exists(ble_config_queue_handle)
        /\ worker[ble_config_queue_handle] \in Serving \cup {"created"}
        /\ ble_config_task_run <=> worker[ble_config_queue_handle] # "created"
        /\ recv_from[ble_config_queue_handle] \in {ble_config_queue_handle, NoRun}

\* The report that the phone left is the last of its run: what the phone sent before is
\* neither in the queue any more nor being handled.
LeftIsLast ==
    said_left => /\ host = "idle"
                 /\ \A w \in Runs : worker[w] \notin {"handle", "report"} /\ queue[w] = <<>>

\* A stop is followed by the end of the worker, whatever it was doing; but one that comes
\* before the worker's first turn is undone by that turn.
StopEndsWorker == app = "stopping" /\ ble_config_task_run ~> \A w \in Runs : worker[w] = "none"

\* When the phone leaves, the callback is told, unless the queue was full or BLE is
\* stopped: the supervisor waits for it to advertise again.
LeftIsReported ==
    host = "send" /\ host_msg = "LEFT" ~> said_left \/ dropped \/ ~ble_config_init \/ app = "stopping"
=============================================================================
