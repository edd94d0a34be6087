# Livox-SDK2 in TLA+

Specifications, model-checking configurations and machine-checked proofs for
the SDK core (`src/sdk_core`): the library that discovers lidars on the
network, sends them commands, receives their data and shuts everything down
again. The reference is the Linux build (epoll, the UNIX pipe). Paths below
are relative to `src/sdk_core` unless they start with `src/`.

- Model-check a configuration: `tlc -workers 2 -config SdkLifecycle.cfg SdkLifecycle.tla`
  (`MCCommandTable*.cfg` belong to `MCCommandTable.tla`, `MCChannels*.cfg` to
  `MCChannels.tla`, `MCIoLoop.cfg` to `MCIoLoop.tla`, the others to the module they are named after).
- Check the proofs of a module: `tlapm SdkLifecycle_proofs.tla`.
- `PROJECT.json` lists components, runs, mutants, theorems, findings, hazards
  and, for every definition that models code, the lines it stands for.

## 1. The system

### Threads

| Thread | Started by | Runs |
| --- | --- | --- |
| control thread | the application | `LivoxLidarSdkInit`, `LivoxLidarSdkUninit` |
| application threads | the application | the command and registration functions of the public API |
| detection sender | `DeviceManager::Init` | broadcasts a search request every second |
| detection, command, data I/O threads | `DeviceManager::CreateIOThread` | one `IOLoop` each: poll, wake-up, timer, posted tasks, `OnData`/`OnTimer` |
| CycleDelete | `LoggerManager::Init` | deletes old log files |
| log writer per device | `LoggerHandler::Init` | writes pushed log blocks |
| debug writer per device | `DebugPointCloudHandler::Enable` | writes raw debug packets |

Callbacks of the application run on the I/O threads, and may call the API.

### Components

For each: its state, its operations, whom it talks to, what is hard, and what
makes it correct.

**Pending commands** (`command_handler/general_command_handler.cpp`,
`comm/generate_seq.cpp`, the family handlers). State: the map `commands_`
from a sequence number to a command with its deadline, the 16-bit counter
`GenerateSeq`. Operations: `SendCommand` (number, register, send, undo),
`TakeCommandAck`, `CommandsHandle` (timeouts), `Destory`. Callers: API
functions, discovery, device logs, the upgrader; called by `OnData` and
`OnTimer`. Hard: ACK, timeout and failing send race on different threads;
ACKs are lost, repeated, late and forged; callbacks submit commands; numbers
wrap. Correct when each command completes exactly once, by the right event.

**Callback registrations** (`GeneralCommandHandler`). State: the info-change,
info and observer callbacks, `callback_operations_stopped_`,
`active_callback_operations_`. Operations: the setters, the observer's
removal, `Handler`/`CommandsHandle` with their guard, the notifications,
`ClearCallbackRegistrations`. Hard: a callback may be running, or be about to
run, when the session ends, and changes registrations itself. Correct when
nothing runs and nothing stays registered once the clear has returned.

**Device discovery** (`DeviceManager::OnData`, `HandleDetectionData`,
`GeneralCommandHandler::HandleAcceptedDetectionData`, `QueryFwType`,
`LivoxLidarInfoChange`). State: `devices_` with its flags, the configuration
maps, view-mode tables, a static counter of failed queries. Hard: three
threads use this state without a lock that spans a handler; queries and
configurations are lost or refused. Correct when every device is announced,
once, and only when usable, and when a receiving instance stays silent.

**I/O loops and threads** (`base/io_loop.cpp`, `base/io_thread.cpp`,
`base/thread_base.cpp`, `base/multiple_io`, `base/wake_up`). State: pending
tasks, poll set, wake-up pipe, quit flag. Operations: `PostTask`, `Loop`,
`Stop`, delegates. Hard: lost wake-ups, tasks posted while others run, the
order of the stops, the limit of the poll set. Correct when a posted task runs
once and in order, and a stop returns.

**SDK lifecycle** (`livox_lidar_sdk.cpp`, `DeviceManager::Init/Destory`).
State: `is_initialized`, and everything the managers own. Hard: `Init` can
fail after any of its steps while threads it started already handle datagrams;
`Uninit` can be called from a callback; the managers are destroyed one by one.
Correct when nothing is left outside a session and nothing is used after it
was released.

**Configuration** (`parse_cfg_file.cpp`, `params_check.cpp`). No state of its
own: it turns the JSON file into the list of configurations `DeviceManager`
works from. Two forms of a section, host entries for all devices of a type or
for named ones, ports that are replaced.

**Channels and routing, sockets** (`DeviceManager::Create*Channel`, `OnData`,
`GetCmdChannel`, `BuildRequest::BuildUpdate*`, `network_util.cpp`). State:
sockets by host address and port, what each loop polls, which socket leads to
which device. Hard: where a device sends its streams, which sockets are
opened, what the sockets receive and what `OnData` makes of a source port are
computed in four places; a socket can fail to open; the poll set has a limit.
Correct when every stream a device was told to send, and every answer, reaches
the handler it is for.

**Commands of the public API** (`command_impl.cpp`, `build_request.cpp`) and
**state-info parsing** (`parse_lidar_state_info.cpp`). No state in the SDK: a
parameter is written with a key, a length and a value, is kept by the device,
and comes back in a push that is parsed into a struct and printed as JSON.
Hard: some sixty keys, each with its width, its sign and its struct, written
once when it is set and again, elsewhere, when it is shown; packets of other
firmware versions. Correct when a parameter is shown as it was set, and nothing
is shown that did not arrive.

**Device logs, log file management** (`logger_handler`). State: the devices,
files per device and type, blocks queued for the writer, the cleaner's
condition. Hard: blocks are acknowledged before they are written, are sent
again when the acknowledgement is lost, files change while blocks are queued,
the cleaner removes files while they are written, shutdown against a
ten-minute wait. Correct when acknowledged blocks reach their file in order,
the oldest file goes first, and shutdown does not wait.

**Firmware upgrade** (`upgrade`, `upgrade_manager.cpp`). State: the open file,
and for each device a state machine, a transfer offset and a retry counter.
Hard: each step waits for a command's completion; retries; a step that sends
nothing waits for ever. Correct when it ends, the device got the whole image,
success means that it was installed, and no command outlives its upgrader.

**Point and IMU data** (`data_handler/data_handler.cpp`), **debug point cloud**
(`debug_point_cloud_handler`), **packet framing and admission** (`comm`,
`command_handler/detail`), GPS sentence validation, SDK logging, other
platforms: not modelled, for the reasons in section 7.

### Interaction

```
 application ── API ──► SdkLifecycle ── starts, stops ──► IoLoop (3 loops)
      ▲  │                   │                                 │ datagrams, timer
      │  └ commands ─► CommandTable ◄── ACKs, timeouts ────────┤
      │                   │  ▲ queries, configuration          │
      │        completion │  └──────────── Discovery ◄─────────┤ search replies
      │                   │                    │ new device    │
      │  ┌ setters ─► Parameters ◄─ pushes     └► Channels ◄───┤ OnData: source port
      │  └ upgrade ─► Upgrader       DeviceLogs ◄── log blocks ┤
      └── callbacks ◄─ CallbackGate ◄───────── all handlers ◄──┘
```

`Channels` decides which handler gets a datagram. `Upgrader` relies on the
promise of `CommandCompletion` (a registered command completes once),
`SdkLifecycle` on that of `IoLoop` (a stop returns) and of `DeviceLogs`
(`StopReturns`).

## 2. Plan

In the order of importance to the system.

1. `CommandTable` and its abstract specification `CommandCompletion`; its
   invariants and the refinement proved.
2. `CallbackGate`; proved.
3. `Discovery`; its invariants proved.
4. `TaskQueue`, the promise of `IOLoop::PostTask`, and `IoLoop`; its invariants
   and the refinement proved.
5. `SdkLifecycle`; proved.
6. `Channels`, from the configuration file to `OnData`; proved for the files,
   addresses and reports that `GoodInputs` describes.
7. `Upgrader`; its invariants proved.
8. `DeviceLogs`; its invariants proved.
9. `Parameters`; proved.

What a next step could take up: the hazards without a property in `PROJECT.json`,
most of them data races on containers, and the parts of section 7.

A component has one run that checks its safety and its liveness together, under
the fair specification.

## 3. Modules

Common conventions: an action is named after the function whose critical
section or call it is; a thread's position inside a function is a program
counter or a call stack; sockets and datagrams are not modelled as objects
unless the property needs them. Operators with a suffix (`Abort_Return`) and
the comment "Mutant" are faulty variants of the operator below them: they are
used by no specification, and each shows that one property notices that fault.

### CommandCompletion, CommandTable, MCCommandTable

`CommandCompletion` is the promise: a registered command is claimed once by
its ACK, timeout or send failure, calls back once, and is discarded only by the
end of the session.

`CommandTable` is the code. `table` is `commands_`, `seq` the counter
`GenerateSeq`, `seqOf` the number a command got, `due` the commands whose
deadline has passed.
`stack[t]` is the call stack of a thread, because a completion callback runs on
the stack of the thread that claimed the command and may submit again:
`Submit`, `AddCommand` and `SendOk`/`SendFails`, `FailSend`, `CleanUp` are the
steps of `SendCommand` with its two ways of undoing a failed send;
`TakeAck` is `TakeCommandAck` with its validation of control ACKs; `Collect`
and `CallTimedOut` are the two halves of `CommandsHandle`; `Uninit`, `Destory`
and `Reinit` end and restart the session while the counter goes on. `fate` and
`calls` are history. `AnswerIsAwaited` is about the order inside `SendCommand`,
which the completion alone would not notice: a command registered only after it
was sent would still complete, by its timeout.

`MCCommandTable` gives three commands of two devices, and stray ACKs from a
wrong device, for a wrong command and too short.

### CallbackGate

`stopped`, `active`, `reg` are the fields of `GeneralCommandHandler`; a
registration is the number of the session that made it. `BeginHandler` and
`EndHandler` bracket an operation of an I/O thread; `BeginNotify`, `Capture`
(the copy under the mutex), `EndNotify` a notification inside it; `StartClear`
and `FinishClear` are `ClearCallbackRegistrations` up to its wait and after
it; `Enable` is the next `Init`.

### Discovery

`known`, `gotMode`, `loader`, `updated` are `devices_` and the flags of
`DeviceInfo`; `listed` is the configuration; `queries`, `infos`, `configs`
count the commands under way. A search reply is `Register`, `Discover` or
`Recognise`; `QueryDone` and the steps `LoadCount` to `ResetCount` are
`QueryFwTypeCallback` with its unlocked static counter; `InfoDone`,
`InfoFails`, `ConfigDone`, `ConfigRefused`, `ConfigTimesOut` are completion
callbacks; `Mark`, `Flag`, `Notify` are `LivoxLidarInfoChange`, which can run
on two threads only for a device in loader mode under a JSON configuration; `Coordinate`
is the configuration a query's end triggers; `Restart` the next session.

### TaskQueue, IoLoop

`TaskQueue` is the promise of `PostTask`: a queue of tasks per loop, which runs
it from the front; dropping the loops drops what they hold.

`IoLoop` is the code. `pending` and `taken` are the queue and the vector `Loop` swaps it into,
`readable` the pipe, `reported` that a poll saw it, `quit` and the program
counter the thread. `Push` and `Wakeup` are the two halves of `PostTask`;
`RequestQuit`, `StopWakeup`, `Join` those of `IOThread::Stop`, for the loops in
`StopOrder`. `Waiting`, what a loop took and what was queued since, is the queue of
`TaskQueue` (`TaskQueueSpec`).

`MCIoLoop` gives the bound on the tasks.

### SdkLifecycle

`Startup` and `Teardown` are the sequences of steps of `DeviceManager::Init`
and `DestroySdkState`, and `at` the position in the one under way (`op`).
`have` are the resources, `running`/`quit` the threads, `busy` the I/O threads
inside a handler, `known`, `logged`, `recordable` the device tables of the
three managers. `Acquire` is a step of `Init` that succeeds, `Abort` one that
fails, perhaps leaving a part of it, and goes on to the teardown. `RequestQuit`
and `Join` stop a thread of the teardown; `StopLogging`, `ReleaseDevices` and
`ReleaseManagers` are the managers' `Destory`. Meanwhile I/O threads enter and
leave handlers, discover devices and start writers. What a handler does in
detail is left to the other modules.

### Channels, MCChannels

The first part has no state: `Parse` is `ParseCfgFile`, from a section to the
sequence of configurations; `Check` and `CheckPort` are `ParamsCheck`;
`Config` is both. `net` are the tables of `DeviceManager` (`channel_info_`,
`cmd_channel_info_`) and the sockets with the poll set they are in;
`CreateDataChannel`, `CreateCommandChannel` with `StatusGroup` and
`BroadcastSocket`, `CreateDetectionChannel` and `CreateViewDataChannel` take a
`net` to the next. `Bound` says what address a socket is bound to, and `Heard`
what Linux delivers to it. `Request` and `ViewRequest` are the addresses a
device is told, `Route` what `OnData` makes of a source port, `CommandSocket`
and `LoggerSocket` the way out of `GetCmdChannel`. The actions are the two
`Init`s, `Register` (a search reply of a device that is not listed), `Configure`
and `ConfigureView`, `AddViewLidar` and `Destory`. An action has the number of
the socket creation that fails in it; `broken` is the time from a failure to
the next registration, which goes through all devices again.
`GoodInputs` and `SocketsFit` are the hypotheses under which the two properties
are proved (section 5); they constrain no action. A PA can be in neither table:
no section of the file is for it, and without a family handler (`HandledTypes`)
it is never asked for its ports in view mode.

`MCChannels` gives the files: the old form of a host, families on one host
with and without a group, a receiving instance, listed devices on two
interfaces, and four files that are refused. It assumes `GoodInputs`, so TLC
evaluates it on these files.

### Parameters

`Layout` is the packed struct of each key, field by field, with width, sign
and the JSON writer. The groups of calls (`SendingCalls` to `BootCalls`) are the
setters of `CommandImpl`, each with the key and the value it writes; `Accepted`
and `IpToU8` check and convert addresses as `BuildRequest` does (300 is not an
octet, 256 is let through and becomes 0), `Value` puts fields and length
together. `QueryKeys` are the keys a query asks of each family. `store` is what
the device holds, `asked` what the application last asked it to hold, `packet` a
push under way, whole or in one of the `Shapes` of other firmware. `Readable` and `Sound` are the checks of
`ParseStateInfo`, `CopyValue` and `Assign` its `memcpy` into the struct,
`KeyMask` the keys it saw, `LivoxLidarStateInfoToJson` the JSON, `Publication`
what the callback gets.

### Upgrader

`stream`, `header`, `data` are the fields of `Firmware`, which the application
sets with `SetFirmwarePath` as often as it likes. `EventTable` is
`upgrade_event_table` and `FsmEventHandler` its interpreter, with `Sends` for
the request a state sends. `Response` is a response handler that gets an answer
(`XferResponse` moves the offset), `NoResponse` one that gets none and tries
again or gives up (`Limit`, `Exhausted`). `UpgradeLivoxLidars` starts the call
and `Destroy` is the wait of a destructor: `waitingAt` goes through the devices
in turn. The device is external: it stores blocks, verifies, refuses, asks to
wait.

### DeviceLogs

`Push`, `LoseBlock` and `PushLate` are what the command thread handles, with
the acknowledgement that comes first; `StoreLogBag` the queue. `Take` and
`Process` are the writer thread: `CreateFile`, `WriteFile`, `StopFile`,
`IsStale`. `GetFileNames`, `RemoveOldest`, `NextDir`, `EndRound` are a round of
`CycleDelete`, which holds its mutex from `Wake` to `EndRound`; `QuitStep`,
`JoinCleaner`, `StopWriter`, `JoinWriter`, `EndDestory` are `Destory`. `disk` holds
every file there was, so that a removed one can be compared with those left.
`AckedIsKept` is about the blocks of a file whose first block the handler saw.

`TypeOK` of CommandTable is in one of its two runs; that of IoLoop, SdkLifecycle,
Upgrader, Parameters and DeviceLogs is in none, and is proved. Each `*_proofs` module
extends the module it is named after, `GeneralCommandHandler_proofs` both
`CommandTable` and `CallbackGate` (whose `Init`, `Next`, `Spec` and `TypeOK` are
`GateInit` and so on for that reason); section 5 describes them.

## 4. Runs

| Run | Shows |
| --- | --- |
| `command_table` | `AckedWasSent`: only a command that was sent can be acknowledged, against late, repeated and stray ACKs. `CompletionSpec`: without reuse of a number the table implements `CommandCompletion`. `EventuallyCompletes`: a registered command completes unless the session ends. |
| `command_wrap` | The counter wraps and overwrites pending entries: a command whose number is its own still completes once (`OnceUnlessReused`) and is not forgotten (`PendingUnlessReused`); when it can be answered it is in the table, unless it was taken from there already (`AnswerIsAwaited`). |
| `callback_gate` | When the clear returns nothing runs (`QuiescentWhenCleared`); no callback starts after the gate closed, nor with another session's registration; the clear always returns (`ClearReturns`). |
| `discovery` | A receiving instance's discovery is silent, a device is announced once (a loader that two threads can reach, at most once by each: `AnnouncedOnce`), and only when ready. Every device of a controlling instance gets a type, although all queries may fail and updates of the counter are lost (`EventuallyTyped`); one that keeps answering is announced in the end (`EventuallyAnnounced`). |
| `io_loop` | No lost wake-up, tasks in order and once, no post to a stopped loop; the loops implement `TaskQueue` (`TaskQueueSpec`); a stop returns and a posted task runs, without the poll's timeout. |
| `lifecycle` | Nothing is left outside a session wherever `Init` fails; no handler or sender outlives what it uses; the log manager forgets no device before telling it to stop; `Init` and `Uninit` return, in a callback too. |
| `receiver_passive` | Violated: see Findings. |
| `upgrader` | The checksum is asked for only when every byte was accepted (`WholeImage`); success means an installed image (`SuccessIsInstalled`), also of a cut file, which no device installs; no command refers to an upgrader that is gone (`NoOrphan`); the call returns (`UpgradeReturns`). |
| `parameters` | What is shown of a parameter is what was set, through address conversion, struct, length and JSON (`ShownAsSet`); of a packet that is cut, or holds a short address, nothing is shown, and no key that was not in it (`OnlyWhatArrived`). |
| `device_logs` | A file holds its own blocks, in order (`InOrder`); an acknowledged block is queued or written unless the file system failed (`AckedIsKept`); the cleaner removes the oldest first; shutdown does not wait for the cleaner's ten minutes (`StopReturns`). |
| `channels` | Every stream a device was told to send is received by a socket that is read and handed to the right handler (`ToldIsHeard`); so is the answer to a command or a logger command (`CommandsAnswered`), also after sockets failed to open. |
| `poll_full` | Violated: see Findings. |

### Bounds

- CommandTable: in `command_table` two commands of two devices, a query and a
  control command, one application thread, two I/O threads and three sequence
  numbers, so that no number is reused while a command expires, is acknowledged
  and calls back on different threads. In `command_wrap` three commands must
  share two numbers; one I/O thread suffices there, because callbacks nest.
- CallbackGate: two I/O threads and two slots, one of them the removable
  observer; three sessions, so that a registration could leak over two ends.
- Discovery: two devices, listed and unlisted, loader or not, HAP or not.
  `RetryLimit` is 1 (10 in the code): the counter passes its limit, is reset
  by one device and raised by another. `MaxPending` 2 bounds the repeated
  configurations of one device: two may be accepted, and a loader can be reached
  by two threads. The
  counter itself is not bounded: each query that was out when it reached its
  limit raises it once more, as in the code.
- IoLoop: three loops; the command loop, which two threads post to, gets two
  tasks in a session, so that the second is queued while the first is taken or
  run, the others one (`MCMaxTasks`).
- SdkLifecycle: two devices, any number of sessions.
- Upgrader: two devices, which the destructors wait for in turn; an image of
  three units read two at a time, so that the last read is shorter; two tries
  (10 in the code) and three for the progress (30), so that a retry succeeds, a
  retry is the last, and the two limits differ; one "not yet" of each device.
- Parameters: one call that changes a parameter (setters do not touch each
  other's keys) and one push, of every key alone and in company; octets 0, 255
  and 300; a HAP, which shares no push port with the others, and a Mid-360,
  which stands for those that do.
- DeviceLogs: one device and one type, two files of blocks 0 to 3 (creation,
  two data blocks, end), a quota of two blocks, so that the first file is over
  it while the second is written; one fault or repetition; one session.
- Channels: four devices, two of the Mid-360 families on one or two hosts, a
  HAP and a PA, which gets nothing; two socket creations that fail, at any of the first fourteen of
  a call. `PollSize` is the code's: 49 descriptors, one of them the wake-up pipe.

Any number of sessions (but in DeviceLogs), datagrams and timer rounds is
explored: only the names above are bounded. `device_logs` does not check
deadlock, because a model whose device has sent its last file and whose session
is over stops.

### Fairness

Every fairness condition is one the scheduling gives. Calls inside the SDK
and application callbacks end (weak fairness of a thread's next step): a
callback that blocks for ever stops its I/O thread by design. A loop round
ends with the timer, so expired commands are collected, and time passes.
In IoLoop only a readable pipe makes a poll return. A query times out if it is
not answered (strong fairness, because other completions of the same device
disable it for a moment). Only the specification of `discovery` assumes a device
that answers again and again, and of its properties only `EventuallyAnnounced`
needs it: `EventuallyTyped` holds under `Progress` alone. No other run assumes
that anything arrives. In SdkLifecycle a thread that was asked to quit ends,
which is what `io_loop` shows of an I/O thread (strong fairness: between handlers a
loop looks at its quit flag, however busy its sockets are).

In Upgrader the upgrade threads run, a pending command completes
(`EventuallyCompletes` of CommandTable), and nothing is assumed of the device:
it may never answer. In DeviceLogs the writers, the cleaner and `Destory` run;
that `wait_for` ends after ten minutes is not assumed, so a missed notification
would be noticed. Channels and Parameters have no liveness: each handler is a
step that ends by itself.

## 5. Proofs

TLAPS proves these for every value of the constants (all threads, commands,
devices, files, tasks), under the assumptions named in the modules and
evaluated by TLC (`ConstantsAssumption`, `GateAssumption`, `DiscoveryAssumption`,
`IoLoopAssumption`, `LifecycleAssumption`, `UpgraderAssumption`,
`DeviceLogsAssumption`, `ParametersAssumption`, `ChannelsAssumption`): names are distinct, the gate's
set of threads is finite, limits are numbers, and positive where the code's are,
more than one sequence number exists, the two log types are 0 and 1, the
families are those with a push port, and an array of the configuration file is a
sequence. `ImplementsBeforeWrap`, `AckedSent`, `Implements`, `ShowsWhatWasSet` and the
three theorems about Channels have hypotheses of their own, given with them.

- `GeneralCommandHandler_proofs`, about CommandTable: `TypeCorrect`, `CompletesOnce` (`OnceUnlessReused`),
  `NotForgotten` (`PendingUnlessReused`). "Called at most once" is not
  inductive: whatever may still call back must not have done so. The
  strengthening `Core` says where a command can be: an entry is filed under its
  own number (`KeyOK`), a command not yet registered is nowhere
  (`NumberOK`, `UntouchedOK`), a collected one has left the table (`LeftOK`),
  and the history agrees with it (`OnceOK`, `FateOK`). `TimerOK` adds that a
  collected command lies with the `CommandsHandle` that will call it back.
  `Implements` is the refinement: every behaviour in which no number is given
  out again while a command that has it is in use (`Separate`) is one of
  `CommandCompletion`. The abstract status is taken from `fate`; what makes each
  step map to a step is `WhereOK`, which ties `fate` to the table and to what the
  timer holds. The hypothesis is needed, not a convenience: a registration
  overwrites the entry of a command with the same number, and that command is
  never completed, which `command_wrap` explores. `ImplementsBeforeWrap`
  discharges it for a process that submits no more commands than there are
  numbers (`FewCommands`): until then the counter is the number of commands that
  have a number (`CounterOK`, a cardinality), so the next one is new (`Distinct`).
  `AckedSent` (`AckedWasSent`) needs that too, and that no answer of another
  process passes the validation of `TakeCommandAck` for a command of this one
  (`ForeignStrays`). The instance of `command_table` satisfies both.
  `AnswersAwaited` (`AnswerIsAwaited`) needs neither: a command that was sent has
  left the part of `SendCommand` in which it can be unregistered or undone
  (`SentOK`), and its own number keeps other commands from its entry.
- `GeneralCommandHandler_proofs`, about CallbackGate: `GateTypeCorrect`, `ClearedIsQuiescent`,
  `RegistrationsScoped`, `NoLateCallback`. The counter must count exactly the
  operations in progress (`CountOK`, with the cardinality lemmas of the
  library), the gate is closed and empty while the session is down
  (`GateOK`), a notification lies inside its operation (`NoticeOK`).
- `Discovery_proofs`: `TypeCorrect`, `ReceiverIsSilent`, `AnnouncesOnce`,
  `AnnouncesReady`. A handler reads the flags of a device in one step and acts on
  them in a later one, while the other threads go on, so the invariant says what
  holds in between. A device is asked for its type once at a time (`OneQuery`) and
  configured only when its type is decided (`DecidedOK`, `ConfigOK`); a device about
  to be announced is ready (`MarkOK`). `OnceOK` is the argument for a single
  announcement: apart from loaders outside view mode, only the thread of the ACKs
  announces, and it reads `is_callback` and sets it before it does (`SingleOK`).
  Such a loader is announced by the detection thread, too; each of the two owes at
  most one announcement that is not made yet (`Owes`, `TwiceOK`). `ReceiverOK`
  says that a receiving instance has nothing under way that a query or a
  configuration could come from.
- `IoLoop_proofs`: `TypeCorrect`, `WakesUp`, `NoLatePost`, `InOrder`. A loop
  in its poll with a task or a quit request has a byte or is owed one; the
  detection thread is the only I/O thread that posts (`PosterOK`), and is
  joined before the others are asked to quit (`OrderOK`). `ImplementsQueue` is the
  refinement of `TaskQueue`: a `Push` is a `PostTask`, a `RunTask` that finds a task
  is a `Run`, a `Reset` drops the loops, and all else is a stutter. The swap of the
  queues is one because a loop that swaps holds no task any more (`TakenOK`); that
  a task gets the next number rests on `RunInOrder` (`SizeOfTasks`).
- `SdkLifecycle_proofs`: `TypeCorrect`, `LeavesNothing` (`CleanWhenDown`),
  `UsersHaveState` (`StateOutlivesUsers`), `StopsCollection`
  (`CollectionStopped`). The invariant says, for each position in `Startup` and
  `Teardown`, what has been acquired (`StartOK`) and released (`StopOK`) so
  far; that a running thread's state is there (`UsersOK`) follows the order of
  the steps, which is the point of the module.

- `Upgrader_proofs`: `TypeCorrect`, `WholeImageSent` (`WholeImage`),
  `SuccessMeansInstalled` (`SuccessIsInstalled`), `NoOrphanedCommand`
  (`NoOrphan`), for any number of devices and any length of image and block. The
  invariant `Protocol` ties three things that the code keeps apart: the state of
  the machine, the command that is out, and what the device has. A command that
  is out is the one the present state sends (`RequestOK`), hence an answer is
  never taken for that of another step; in the transfer the device has every
  byte before the block that is out (`TransferOK`), and behind it all of them
  (`StageOK`); a destructor that is through left a machine that has ended
  (`EndedOK`), and a command never belongs to such a machine. `TableFacts` is the
  lemma about `upgrade_event_table`: a state and an event have one row.
- `DeviceLogs_proofs`: `TypeCorrect`, `FilesInOrder` (`InOrder`), `RemovesOldest`
  (`OldestFirst`), `AckedKept` (`AckedIsKept`), for any number of devices, files
  and blocks. `InOrder` needs that the writer's open entry leads to a file of its own
  device and type whose last block is not behind the entry (`EntryOK`).
  `OldestFirst` is about a list of names that the cleaner took some steps
  ago, while the writer went on creating files: a file is never
  given an earlier second than one before it (`TimeOK`), so what is not on the
  list is no older than what is (`ListOK`).
  `AckedIsKept` is the long one (`Kept`): without faults the blocks that wait, in the
  writer's batch and then in its queue, are in the order in which the device
  sent them (`Ordered`), behind what the entries have written and ahead of what
  the device sends next, so each acknowledged block is written, waits, or
  was the last of its file, which the code does not write (`Good`). Each way through
  `WriteFile` is a lemma (`Skipped`, `NotMade`, `Unopened`, `Ended`, `Stored`).
- `Parameters_proofs`: `TypeCorrect`, `ShowsWhatArrived` (`OnlyWhatArrived`),
  `ShowsWhatWasSet` (`ShownAsSet`), for every family, key and value. A packet under
  way carries what the device holds, each key once and in full, unless its last
  one was deformed (`PacketOK`); the device holds what was asked, written as is
  (`AskedOK`, `CallForms`). The loops of the code are recursive functions, `End`
  over the offset of a key and `ParseStateInfo` over the rest of a packet. That
  these are defined at every length (`EndExists`, `ParseExists`), and that parsing
  gives back what was put into a whole packet (`ParseReads`), is shown by
  induction. `ShowsWhatWasSet` has two hypotheses, `NegativeCoordinates = FALSE`
  and `256 \notin Octets`: these are the two inputs that the code changes on the
  way (section 6), and the property is false with them. `Parameters.cfg` satisfies both.
- `Channels_proofs`: `StreamsHeard` (`ToldIsHeard`), `AnswersReturn`
  (`CommandsAnswered`) and the invariant they follow from, `ChannelsInvariant`, for
  any number of devices, files, entries and failing sockets. Neither property holds
  for every file the code accepts, so hypotheses say for which it does.
  `GoodInputs` is about the files, addresses and reports: an address and port is
  not used with two multicast groups, or with one and without (`OneGroup`; the
  table of channels would hand out the socket of the first); data ports are given
  and are not that of the search replies (`PortsGiven`); HAP and Avia 2 have their
  real ports (`RealPorts`); a device is listed under its own type (`OwnType`); the
  address of a host is neither a group nor a device's (`HostAddress`: `OnData`
  drops what comes from the host's own address); and a device in view mode does not stream from the
  port it answers commands from (`GoodReport`). The code checks none of this.
  `SocketsFit` is about the state: no loop has more sockets open than its poll
  set takes, which `poll_full` breaks. None of them mentions where a
  stream goes, which socket is read or what `OnData` does, which is what the
  properties are about; the instance of `channels` satisfies them all.
  The invariant (`IInv`) says, for each phase, where the entries come from (the
  file, perhaps given to a device that turned up: `Entries`); that a socket in a
  table has the address, port and group of its key, or the group that an entry
  asked for there (`TableOK`); that all sockets are polled if they fit (`NetOK`);
  that the sockets of every listed entry are there, unless a channel failed and
  was not tried again (`Ready`); and that a device was told what its entry asks
  for. A call that opens channels keeps what earlier ones opened (`Grows`), so those
  of a list follow by induction over it (`ChannelsOK`); `FlattenExists` and
  `AfterExists` show that the recursive functions are defined at every length.

Induction over data is out of reach as the library states it, because its
theorems take an operator. `Parameters_proofs` and `Channels_proofs` do it with a set of
numbers and its least element (`Induction`, from `WFMin`), which is enough for
functions on natural numbers; nothing else here needs it.

Only model-checked: liveness, which rests on fairness and ENABLED
(`EventuallyCompletes`, `ClearReturns`, `EventuallyTyped`, `EventuallyAnnounced`,
`TaskRuns`, `StopReturns`, `CallsReturn`, `UpgradeReturns`). Every invariant and
every refinement a passing run checks is proved.

## 6. Findings

**`receiver_passive`.** A receiving instance (`master_sdk` false) is documented to receive data
"without controlling the device" (`src/docs/sdk/configuration.md:63-64`).
Discovery keeps to it (`SilentReceiver`), the shutdown does not: with logs
enabled, `LoggerManager::StopAllLogger` sends "collection log off" to every
device that answered a search, whatever the role: on a shared network it tells
the devices of the controlling instance to stop, too.
`ReceiverIsPassive` in run `receiver_passive` is violated by: initialise as
receiver with logs, discover a device, uninitialise.

**`poll_full`.** "Subscription errors fail channel creation instead of silently
leaving an unusable receiver" (`src/docs/sdk/configuration.md:44-45`). A poll set
takes 49 descriptors, and `IOLoop::AddDelegateAsync` (`base/io_loop.cpp:126`)
drops the answer of `PollSetAdd` when it is full. It fills up quickly, because the
registration of each new device runs `CreateCommandChannel` for all devices and
opens one more broadcast socket for each of the Mid-360 families
(`device_manager.cpp:344-355`): six listed devices make six, and four that are
discovered 7, 8, 9 and 10 more. The Avia 2 that comes next opens more before
its own and has its
group subscribed on a socket nobody reads, and is told to send there.

Observations made while modelling, which no document contradicts:

- `Firmware::Open` does not close the stream of an earlier path
  (`upgrade/firmware.cpp:51`). The second `open` fails, `is_open` is still true,
  and the call goes on to read the old file from where it is; setting a good
  file twice answers true with data that is no image. If the first file was refused for its
  size, header and length stay zero, the transfer sends nothing and
  `UpgradeLivoxLidars` never returns; the run leaves the kinds "short" and
  "corrupt" out of `Files` for that reason (with them `UpgradeReturns` fails).
- A negative `x`, `y` or `z` of the installation attitude is shown as a large
  positive number: the fields are `int32_t` and written with `Uint`
  (`command_handler/parse_lidar_state_info.cpp:574-579`). `NegativeCoordinates =
  TRUE` shows it.
- An octet 256 passes the address check and is sent as 0
  (`command_handler/build_request.cpp:598`): the parameter is shown as another
  address. With 256 in `Octets`, `ShownAsSet` is violated.
- A push that is rejected is still published, as an empty string.
- The key of a data channel has no multicast group (`device_manager.cpp:416`):
  with two groups on one host and port the second is not joined.
- `ParamsCheck::CheckPort` leaves the ports of HAP and Avia 2 as written, while
  the requests to those devices use the fixed ones; a file that writes others
  makes `OnData` drop what the devices send. The files of the runs have the fixed ones.
- A HAP that refuses its configuration is announced all the same.
- The data of a log file's last block is acknowledged and not written; blocks
  queued when `Destory` stops a writer are lost although they were acknowledged; a
  block sent again after a lost acknowledgement is written twice; a late last
  block closes the file that is open now; the cleaner removes files a writer
  has open.

## 7. Not modelled

- Data races themselves. `devices_`, `custom_lidars_cfg_map_` and
  `custom_lidars_cfg_ptr_` are containers that one thread changes and others
  read without a lock; the models treat each access as atomic and explore
  the orders of accesses only. `PROJECT.json` lists them as hazards.
- Time as numbers: a timeout may happen at any moment after the registration.
- `epoll_wait` errors, exhaustion of memory, and the pipe's capacity.
- The syntax of the configuration file, Winsock, and API calls of other
  application threads during `Init` and `Uninit`.
- The end of an upgrade in detail: a destructor can see the state machine idle
  and free it while the I/O thread is still in the handler that made it so. The
  model lets the handler finish. The first look at the state machine comes 100 ms
  after its thread was started; the model assumes that the thread ran by then.
- Point and IMU data: copies of the callbacks under one mutex, then the calls.
  The one hazard left, a 16-bit observer id that wraps, is listed without a
  property.
- The debug point cloud: the queue and writer of the device logs without
  acknowledgements or a cleaner; its threads are part of `SdkLifecycle`.
- Packet framing and admission, GPS sentence validation: functions from bytes
  to a verdict, covered by unit tests; the modules start from packets that were
  admitted.
- Of log file management the creation of directories and hidden files; SDK
  logging (a wrapper of spdlog); kqueue, poll, select and the Windows sources (the
  Linux build is the reference).
