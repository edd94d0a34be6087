----------------------------- MODULE SdkLifecycle -----------------------------
(***************************************************************************)
(* LivoxLidarSdkInit and LivoxLidarSdkUninit: the order in which a session *)
(* acquires its managers, threads and sockets, what a failure at each of   *)
(* these steps releases again, and what the threads that are already       *)
(* running do meanwhile.                                                   *)
(*                                                                         *)
(* Init and Uninit are sequences of steps of one thread; the I/O threads   *)
(* handle datagrams at any time between them.  What a handler does is      *)
(* reduced to its effect on the managers' tables and threads (Discovery,   *)
(* CommandTable and CallbackGate look inside), a loop to its thread and    *)
(* its request to quit (IoLoop shows that the thread then ends).           *)
(***************************************************************************)
EXTENDS Naturals, Sequences

CONSTANTS
  Devices,                   \* handles of devices
  Detection, Data, Command,  \* the I/O threads
  Control                    \* the application's control thread

IoThreads == {Detection, Data, Command}

\* The sender of search requests, the CycleDelete thread of LoggerManager, the
\* writers of LoggerHandler and those of DebugPointCloudHandler.
Workers == IoThreads \cup {"sender", "cleaner", "writer", "recorder"}

\* The packet codec, the session state of GeneralCommandHandler and
\* DataHandler, the sockets, and per I/O thread its loop.
Resources == {"codec", "managers", "broadcast", "search", "channels"} \cup IoThreads

ASSUME LifecycleAssumption ==
  /\ Detection # Data /\ Detection # Command /\ Data # Command
  /\ IoThreads \cap {"sender", "cleaner", "writer", "recorder", "codec", "managers",
                     "broadcast", "search", "channels", "logs", "devices"} = {}
  /\ Control \notin IoThreads

VARIABLES
  initialized, \* is_initialized
  op,          \* what the API call in progress does
  at,          \* the position in Startup or Teardown it has reached
  caller,      \* the thread that makes it
  role,        \* "view", "master" or "receiver"
  want,        \* the configuration asks for device logs
  have,        \* resources acquired
  running,     \* threads started and not ended
  quit,        \* threads asked to end
  busy,        \* I/O threads inside a handler
  known,       \* devices_ of GeneralCommandHandler
  logged,      \* devices_info_ of LoggerManager
  recordable,  \* devices_info_ of DebugPointCloudManager
  logging,     \* log_enable_
  recording,   \* enable_ of DebugPointCloudManager
  destroyed,   \* is_destroy_ of LoggerManager
  told         \* history: devices this session told to stop collecting logs

call == <<initialized, op, at, caller, role, want>>
threads == <<running, quit, busy>>
tables == <<known, logged, recordable>>
logs == <<logging, recording, destroyed, told>>
vars == <<call, have, threads, tables, logs>>

-----------------------------------------------------------------------------
\* The order of the steps

\* DeviceManager::Init, after the configuration was read.
Startup ==
  <<"codec", "logs", "managers", Detection, Command, Data,
    "broadcast", "search", "channels", "sender">>

\* Mutant: the sockets are closed before the log collection is stopped.
Teardown_LogsLast ==
  <<"sender", Detection, Data, Command, "cleaner", "writer",
    "recorder", "devices", "logs", "managers">>

\* Mutant: the log manager is destroyed while the I/O threads still run.
Teardown_LogsFirst ==
  <<"cleaner", "writer", "logs", "sender", Detection, Data, Command,
    "recorder", "devices", "managers">>

\* DestroySdkState: StopIOThreads, then the managers one by one.
Teardown ==
  <<"sender", Detection, Data, Command, "cleaner", "writer", "logs",
    "recorder", "devices", "managers">>

Steps == 1..11

TypeOK ==
  /\ initialized \in BOOLEAN
  /\ op \in {"none", "init", "failing", "uninit"}
  /\ at \in Steps
  /\ caller \in {Control} \cup IoThreads
  /\ role \in {"view", "master", "receiver"}
  /\ want \in BOOLEAN
  /\ have \subseteq Resources
  /\ running \subseteq Workers /\ quit \subseteq Workers
  /\ busy \subseteq IoThreads
  /\ known \subseteq Devices /\ logged \subseteq Devices
  /\ recordable \subseteq Devices /\ told \subseteq Devices
  /\ logging \in BOOLEAN /\ recording \in BOOLEAN /\ destroyed \in BOOLEAN

-----------------------------------------------------------------------------
\* LivoxLidarSdkInit

\* Every initialisation takes its role from its own arguments.
BeginInit ==
  /\ op = "none" /\ ~initialized
  /\ op' = "init" /\ at' = 1 /\ caller' = Control
  /\ role' \in {"view", "master", "receiver"} /\ want' \in BOOLEAN
  /\ told' = {}
  /\ UNCHANGED <<initialized, have, threads, tables, logging, recording, destroyed>>

Starting == op = "init" /\ at <= Len(Startup)

\* The thread a step of Init starts.
Started(s) ==
  IF s = "logs" THEN (IF want THEN {"cleaner"} ELSE {})
  ELSE {s} \cap (IoThreads \cup {"sender"})

\* View mode opens its channels when it has learnt a device's addresses.
Acquired(s) ==
  IF s = "channels" /\ role = "view" THEN {} ELSE {s} \cap Resources

Acquire ==
  /\ Starting
  /\ LET s == Startup[at]
     IN  /\ have' = have \cup Acquired(s)
         /\ running' = running \cup Started(s)
         /\ quit' = quit \ Started(s)
         /\ IF s = "logs" THEN logging' = want /\ destroyed' = FALSE
            ELSE UNCHANGED <<logging, destroyed>>
  /\ at' = at + 1
  /\ UNCHANGED <<initialized, op, caller, role, want, busy, tables, recording, told>>

\* Reading the configuration, the log directory, a poll, a socket.
MayFail(s) ==
  /\ s \notin {"managers", "sender"}
  /\ s = "logs" => want
  /\ s = "channels" => role # "view"

(***************************************************************************)
(* A failed step may leave a part of what it does: a codec, a loop without *)
(* its thread, some of the channels, a log manager without its cleaner.    *)
(***************************************************************************)
Fail(next) ==
  /\ Starting
  /\ LET s == Startup[at]
     IN  /\ MayFail(s)
         /\ have' \in {have, have \cup (Acquired(s) \ {"broadcast", "search"})}
         /\ IF s = "logs" THEN logging' = want /\ destroyed' = FALSE
            ELSE UNCHANGED <<logging, destroyed>>
  /\ op' = next /\ at' = 1
  /\ UNCHANGED <<initialized, caller, role, want, threads, tables, recording, told>>

\* Mutant: Init returns without releasing anything.
Abort_Return == Fail("none")

\* Init goes on with DestroySdkState.
Abort == Fail("failing")

EndInit ==
  /\ op = "init" /\ at > Len(Startup)
  /\ initialized' = TRUE
  /\ op' = "none" /\ at' = 1
  /\ UNCHANGED <<caller, role, want, have, threads, tables, logs>>

-----------------------------------------------------------------------------
\* LivoxLidarSdkUninit and the failure path of Init

\* Mutant: Uninit does not ask which thread it is called on.
IsIOThread_Never(t) == FALSE

IsIOThread(t) == t \in IoThreads

\* The application calls it on its control thread, or from a callback.
BeginUninit(t) ==
  /\ op = "none" /\ initialized
  /\ t = Control \/ t \in busy
  /\ ~IsIOThread(t)
  /\ op' = "uninit" /\ at' = 1 /\ caller' = t
  /\ UNCHANGED <<initialized, role, want, have, threads, tables, logs>>

Ending == op \in {"failing", "uninit"} /\ at <= Len(Teardown)
Step == Teardown[at]

\* A thread is asked to end ...
RequestQuit ==
  /\ Ending
  /\ Step \in Workers \cap running /\ Step \notin quit
  /\ quit' = quit \cup {Step}
  /\ recording' = (recording /\ Step # "recorder")
  /\ UNCHANGED <<call, have, running, busy, tables, logging, destroyed, told>>

\* ... and joined, if it was ever started.
Join ==
  /\ Ending
  /\ Step \in Workers \ running
  /\ at' = at + 1
  /\ IF Step = "recorder" THEN recordable' = {} /\ recording' = FALSE
     ELSE UNCHANGED <<recordable, recording>>
  /\ UNCHANGED <<initialized, op, caller, role, want, have, threads, known, logged,
                 logging, destroyed, told>>

(***************************************************************************)
(* LoggerManager::Destory after its joins: StopAllLogger tells every       *)
(* device it knows to stop, through the search socket if no other leads    *)
(* there.  A manager that is already destroyed does nothing.               *)
(***************************************************************************)
StopLogging ==
  /\ Ending /\ Step = "logs"
  /\ at' = at + 1
  /\ IF destroyed THEN UNCHANGED <<logging, logged, destroyed, told>>
     ELSE /\ told' = IF logging /\ {"search", "managers"} \subseteq have
                     THEN told \cup (logged \cap known) ELSE told
          /\ logging' = FALSE /\ logged' = {} /\ destroyed' = TRUE
  /\ UNCHANGED <<initialized, op, caller, role, want, have, threads, known, recordable,
                 recording>>

\* DeviceManager::Destory closes the sockets and drops the loops.
ReleaseDevices ==
  /\ Ending /\ Step = "devices"
  /\ at' = at + 1
  /\ have' = have \cap {"managers"}
  /\ UNCHANGED <<initialized, op, caller, role, want, threads, tables, logs>>

\* DataHandler and GeneralCommandHandler forget their state.
ReleaseManagers ==
  /\ Ending /\ Step = "managers"
  /\ at' = at + 1
  /\ have' = have \ {"managers"}
  /\ known' = {}
  /\ UNCHANGED <<initialized, op, caller, role, want, threads, logged, recordable, logs>>

EndTeardown ==
  /\ op \in {"failing", "uninit"} /\ at > Len(Teardown)
  /\ initialized' = FALSE
  /\ op' = "none" /\ at' = 1
  /\ UNCHANGED <<caller, role, want, have, threads, tables, logs>>

-----------------------------------------------------------------------------
\* The threads

\* The sockets on the loop of an I/O thread.
Sockets(t) == IF t = Detection THEN {"broadcast", "search"} ELSE {"channels"}

\* A datagram or a timer round; each needs a socket on the loop.
EnterHandler(t) ==
  /\ t \in running \ busy
  /\ Sockets(t) \cap have # {}
  /\ busy' = busy \cup {t}
  /\ UNCHANGED <<call, have, running, quit, tables, logs>>

(***************************************************************************)
(* A search reply: the device enters the tables, on another network        *)
(* segment only those of the diagnostics, and channels are opened for it   *)
(* now or, in view mode, when its addresses are known.                     *)
(***************************************************************************)
Discover(d) ==
  /\ Detection \in busy
  /\ known' \in {known, known \cup {d}}
  /\ logged' = IF destroyed THEN logged ELSE logged \cup {d}
  /\ recordable' = recordable \cup {d}
  /\ have' \in {have, have \cup {"channels"}}
  /\ UNCHANGED <<call, threads, logs>>

\* A log file pushed by the device, or StartLogger: the device gets a writer.
StartWriter ==
  /\ busy # {} \/ (op = "none" /\ initialized)
  /\ logging /\ logged # {}
  /\ running' = running \cup {"writer"}
  /\ quit' = IF "writer" \in running THEN quit ELSE quit \ {"writer"}
  /\ UNCHANGED <<call, have, busy, tables, logs>>

\* Debug point-cloud data of a known device.
StartRecorder ==
  /\ busy # {}
  /\ recording /\ recordable # {}
  /\ running' = running \cup {"recorder"}
  /\ quit' = IF "recorder" \in running THEN quit ELSE quit \ {"recorder"}
  /\ UNCHANGED <<call, have, busy, tables, logs>>

\* SetLivoxLidarDebugPointCloud; switching off joins the writers.
SetRecording(on) ==
  /\ op = "none" /\ initialized
  /\ recording' = on
  /\ running' = IF on THEN running ELSE running \ {"recorder"}
  /\ UNCHANGED <<call, have, quit, busy, tables, logging, destroyed, told>>

\* The handler returns, unless the call it made has not.
LeaveHandler(t) ==
  /\ t \in busy
  /\ caller = t => op = "none"
  /\ busy' = busy \ {t}
  /\ UNCHANGED <<call, have, running, quit, tables, logs>>

Exit(w) ==
  /\ w \in (running \cap quit) \ busy
  /\ running' = running \ {w}
  /\ UNCHANGED <<call, have, quit, busy, tables, logs>>

-----------------------------------------------------------------------------

Init ==
  /\ initialized = FALSE
  /\ op = "none" /\ at = 1 /\ caller = Control
  /\ role = "view" /\ want = FALSE
  /\ have = {} /\ running = {} /\ quit = {} /\ busy = {}
  /\ known = {} /\ logged = {} /\ recordable = {} /\ told = {}
  /\ logging = FALSE /\ recording = FALSE /\ destroyed = FALSE

\* The API call in progress goes on.
Proceed ==
  \/ Acquire \/ Abort \/ EndInit
  \/ RequestQuit \/ Join \/ StopLogging \/ ReleaseDevices \/ ReleaseManagers \/ EndTeardown

Next ==
  \/ BeginInit \/ Proceed
  \/ \E t \in {Control} \cup IoThreads : BeginUninit(t)
  \/ \E t \in IoThreads : EnterHandler(t) \/ LeaveHandler(t)
  \/ \E d \in Devices : Discover(d)
  \/ StartWriter \/ StartRecorder
  \/ \E on \in BOOLEAN : SetRecording(on)
  \/ \E w \in Workers : Exit(w)

Spec == Init /\ [][Next]_vars

(***************************************************************************)
(* The API call's thread runs, handlers return and threads that were asked *)
(* to end do (IoLoop shows it of an I/O thread).  Between handlers a loop  *)
(* looks at its request to quit, however busy its sockets are; one thread  *)
(* at a time is asked.                                                     *)
(***************************************************************************)
FairSpec ==
  /\ Spec
  /\ WF_vars(Proceed)
  /\ \A t \in IoThreads : WF_vars(LeaveHandler(t))
  /\ SF_vars(\E w \in IoThreads : Exit(w))
  /\ WF_vars(\E w \in Workers \ IoThreads : Exit(w))

-----------------------------------------------------------------------------
\* Properties

(***************************************************************************)
(* "Failed initialization also releases partially created resources":      *)
(* outside a session nothing is left, wherever Init failed and whatever    *)
(* the threads that already ran had done by then.                          *)
(***************************************************************************)
CleanWhenDown ==
  ~initialized /\ op = "none" =>
    /\ have = {} /\ running = {} /\ busy = {}
    /\ known = {} /\ logged = {} /\ recordable = {}
    /\ ~logging /\ ~recording

(***************************************************************************)
(* "Uninitialization joins discovery, command, and data I/O work before    *)
(* clearing manager state": while a handler runs, the codec, the managers, *)
(* its loop and the log manager are there, and while the sender runs, its  *)
(* socket and the codec are.                                               *)
(***************************************************************************)
StateOutlivesUsers ==
  /\ busy # {} => {"codec", "managers"} \cup busy \subseteq have /\ ~destroyed
  /\ "sender" \in running => {"codec", "search"} \subseteq have

(***************************************************************************)
(* "Close sockets and finish logger sends": Uninit forgets a device whose  *)
(* logs it could collect only after telling it to stop.                    *)
(***************************************************************************)
CollectionStopped ==
  [][initialized /\ logging => logged \cap known \subseteq logged' \cup told']_vars

\* Init and Uninit return, in a callback too.
CallsReturn == op # "none" ~> op = "none"

(***************************************************************************)
(* "Receiving instances are intended to receive point-cloud data without   *)
(* controlling the device": the SDK sends a device no command of its own.  *)
(***************************************************************************)
ReceiverIsPassive == role = "receiver" => told = {}

=============================================================================
