------------------------------ MODULE Discovery ------------------------------
(***************************************************************************)
(* From a search reply to the announcement of a device: the device tables  *)
(* of GeneralCommandHandler and DeviceManager, the firmware-type query     *)
(* with its retries, the configuration command of the family handler and   *)
(* LivoxLidarInfoChange.  None of these tables is protected by a mutex     *)
(* that spans a handler, so a step is one access to data that another      *)
(* thread also reads or writes.                                            *)
(*                                                                         *)
(* Search replies arrive on the detection thread; in view mode the command *)
(* ACKs arrive there too, otherwise on the command thread; a command times *)
(* out on any I/O thread.  Commands are counted per device: CommandTable   *)
(* shows that each of them completes once.                                 *)
(***************************************************************************)
EXTENDS Naturals

CONSTANTS
  Devices,     \* handles that answer the search
  Loaders,     \* devices that run their loader (fw_type 0)
  Haps,        \* devices of the HAP family
  Custom,      \* devices the configuration file lists by address
  Threads,     \* the I/O threads
  Detection, Command, \* two of them
  RetryLimit,  \* failed queries after which the SDK gives up (10)
  MaxPending   \* bound: outstanding commands of a known device that repeats
               \* its search reply

ASSUME DiscoveryAssumption ==
  /\ Loaders \subseteq Devices /\ Haps \subseteq Devices /\ Custom \subseteq Devices
  /\ {Detection, Command} \subseteq Threads
  /\ Detection # Command
  /\ RetryLimit \in Nat /\ MaxPending \in Nat \ {0}

VARIABLES
  role,       \* "view", "master" (JSON, controlling) or "receiver" (JSON)
  listed,     \* custom_lidars_cfg_map_ of DeviceManager
  known,      \* devices_ of GeneralCommandHandler
  gotMode,    \* DeviceInfo::is_get_loader_mode
  loader,     \* DeviceInfo::is_loader_mode
  updated,    \* DeviceInfo::is_update_cfg
  called,     \* DeviceInfo::is_callback
  accepted,   \* devices_ of the family handlers
  isGet,      \* ViewDevice::is_get
  isSet,      \* ViewDevice::is_set
  queries,    \* outstanding firmware-type queries
  infos,      \* outstanding internal-info queries (view mode)
  configs,    \* outstanding configuration commands
  count,      \* QueryFwTypeCallback's static counter
  pc,         \* what each I/O thread is doing, and for which device
  announced   \* history: calls of the info-change callback

tables == <<listed, known, accepted, isGet, isSet>>
flags == <<gotMode, loader, updated, called>>
pending == <<queries, infos, configs>>
vars == <<role, tables, flags, pending, count, pc, announced>>

Roles == {"view", "master", "receiver"}
Places == {"idle", "coordinate", "failed", "store", "requery", "answered",
           "got", "mode", "reset", "mark", "flag", "notify"}
NoDevice == "none"
ThreadStates == [at : Places, dev : Devices \cup {NoDevice}, val : Nat, bit : BOOLEAN]
Idle == [at |-> "idle", dev |-> NoDevice, val |-> 0, bit |-> FALSE]

\* Every variable has its type: at most one firmware query is outstanding per
\* device.  The counter has no bound here: a thread may store what it loaded
\* before another one reset the counter, so that it can pass its limit by more
\* the more devices are typed meanwhile.
TypeOK ==
  /\ role \in Roles
  /\ \A S \in {listed, known, accepted, isGet, isSet, gotMode, loader, updated, called} :
       S \subseteq Devices
  /\ queries \in [Devices -> 0..1]
  /\ \A f \in {infos, configs} : f \in [Devices -> 0..MaxPending]
  /\ count \in Nat
  /\ pc \in [Threads -> ThreadStates]
  /\ announced \in [Devices -> Nat]

-----------------------------------------------------------------------------
\* Helpers

AckThread == IF role = "view" THEN Detection ELSE Command

IsIdle(t) == pc[t].at = "idle"
At(t, place) == pc[t].at = place
Dev(t) == pc[t].dev

Goto(t, place) == pc' = [pc EXCEPT ![t].at = place]
Start(t, place, d) == pc' = [pc EXCEPT ![t] = [Idle EXCEPT !.at = place, !.dev = d]]
Return(t) == pc' = [pc EXCEPT ![t] = Idle]

Issue(f, d) == f' = [f EXCEPT ![d] = @ + 1]
Finish(f, d) == f[d] > 0 /\ f' = [f EXCEPT ![d] = @ - 1]

\* Mutant: the role is not consulted.
GetFirmwareType_AnyRole(d) == Issue(queries, d)

\* A receiver does not ask a new device for its firmware type.
GetFirmwareType(d) ==
  IF role = "receiver" THEN UNCHANGED queries ELSE Issue(queries, d)

\* Both UpdateLidarCfg overloads and the family handler behind them.
UpdateLidarCfg(d) ==
  IF role # "receiver" /\ d \notin accepted
  THEN Issue(configs, d) ELSE UNCHANGED configs

-----------------------------------------------------------------------------
\* A search reply on the detection thread

\* OnData without view mode: the first reply only makes the device listed.
Register(d) ==
  /\ IsIdle(Detection)
  /\ role # "view" /\ d \notin listed
  /\ listed' = listed \cup {d}
  /\ UNCHANGED <<role, known, accepted, isGet, isSet, flags, pending, count, pc, announced>>

Admitted(d) == IsIdle(Detection) /\ (role = "view" \/ d \in listed)

\* Mutant: a device counts as new until its firmware type is known.
Discover_Untyped(d) ==
  /\ Admitted(d)
  /\ d \notin gotMode
  /\ known' = known \cup {d}
  /\ gotMode' = gotMode \ {d}
  /\ updated' = updated \ {d}
  /\ called' = called \ {d}
  /\ GetFirmwareType(d)
  /\ UNCHANGED <<role, listed, accepted, isGet, isSet, loader, infos, configs,
                 count, pc, announced>>

\* HandleAcceptedDetectionData for a new device.
Discover(d) ==
  /\ Admitted(d)
  /\ d \notin known
  /\ known' = known \cup {d}
  /\ gotMode' = gotMode \ {d}
  /\ updated' = updated \ {d}
  /\ called' = called \ {d}
  /\ GetFirmwareType(d)
  /\ UNCHANGED <<role, listed, accepted, isGet, isSet, loader, infos, configs,
                 count, pc, announced>>

\* For a device it knows: configure it unless that is done, then go on.
Recognise(d) ==
  /\ Admitted(d)
  /\ d \in known
  /\ infos[d] + configs[d] < MaxPending
  /\ IF role # "view" /\ d \notin updated /\ d \in gotMode /\ d \notin loader
     THEN UpdateLidarCfg(d) ELSE UNCHANGED configs
  /\ Start(Detection, "coordinate", d)
  /\ UNCHANGED <<role, tables, flags, queries, infos, count, announced>>

\* DeviceManager::HandleDetectionData, after a second look at the flags.
Coordinate ==
  /\ At(Detection, "coordinate")
  /\ LET d == Dev(Detection)
         normal == d \in gotMode /\ d \notin loader
     IN  /\ IF d \in gotMode /\ d \in loader
            THEN Goto(Detection, "mark") ELSE Return(Detection)
         /\ IF role = "view" /\ normal /\ d \notin isGet
            THEN Issue(infos, d) ELSE UNCHANGED infos
         /\ IF role = "view" /\ normal /\ d \in isGet /\ d \notin isSet
            THEN UpdateLidarCfg(d) ELSE UNCHANGED configs
  /\ UNCHANGED <<role, tables, flags, queries, count, announced>>

-----------------------------------------------------------------------------
\* QueryFwTypeCallback

(***************************************************************************)
(* A query completes on thread t: "bad" is a timeout or an answer without  *)
(* a usable firmware type.  The counter is read first, whatever the        *)
(* outcome: beyond the limit even a good answer is given up.               *)
(***************************************************************************)
QueryDone(t, d, good) ==
  /\ IsIdle(t)
  /\ good => t = AckThread
  /\ Finish(queries, d)
  /\ Start(t, IF count > RetryLimit THEN "got"
              ELSE IF good THEN "answered" ELSE "failed", d)
  /\ UNCHANGED <<role, tables, flags, infos, configs, count, announced>>

\* "count += 1" on a plain int8_t that every I/O thread uses: a load ...
LoadCount(t) ==
  /\ At(t, "failed")
  /\ pc' = [pc EXCEPT ![t].at = "store", ![t].val = count]
  /\ UNCHANGED <<role, tables, flags, pending, count, announced>>

\* Mutant: the failures are not counted.
StoreCount_Forget(t) ==
  /\ At(t, "store")
  /\ Goto(t, "requery")
  /\ UNCHANGED <<role, tables, flags, pending, count, announced>>

\* ... and a store.
StoreCount(t) ==
  /\ At(t, "store")
  /\ count' = pc[t].val + 1
  /\ Goto(t, "requery")
  /\ UNCHANGED <<role, tables, flags, pending, announced>>

\* The query is repeated from inside its own callback.
Requery(t) ==
  /\ At(t, "requery")
  /\ Issue(queries, Dev(t))
  /\ Return(t)
  /\ UNCHANGED <<role, tables, flags, infos, configs, count, announced>>

\* A good answer clears the counter before it is used.
Answered(t) ==
  /\ At(t, "answered")
  /\ count' = 0
  /\ pc' = [pc EXCEPT ![t].at = "got", ![t].bit = TRUE]
  /\ UNCHANGED <<role, tables, flags, pending, announced>>

\* UpdateFwType: two atomic stores, is_get_loader_mode first.
StoreGot(t) ==
  /\ At(t, "got")
  /\ gotMode' = gotMode \cup {Dev(t)}
  /\ Goto(t, "mode")
  /\ UNCHANGED <<role, tables, loader, updated, called, pending, count, announced>>

\* A device whose query was given up counts as not in loader mode.
StoreMode(t) ==
  /\ At(t, "mode")
  /\ loader' = IF pc[t].bit /\ Dev(t) \in Loaders
               THEN loader \cup {Dev(t)} ELSE loader \ {Dev(t)}
  /\ IF pc[t].bit THEN Return(t) ELSE Goto(t, "reset")
  /\ UNCHANGED <<role, tables, gotMode, updated, called, pending, count, announced>>

\* After giving up the counter starts again.
ResetCount(t) ==
  /\ At(t, "reset")
  /\ count' = 0
  /\ Return(t)
  /\ UNCHANGED <<role, tables, flags, pending, announced>>

-----------------------------------------------------------------------------
\* The other completions

\* AddViewLidar on a good answer: data channels, is_get, configuration.
InfoDone(d) ==
  /\ IsIdle(AckThread)
  /\ Finish(infos, d)
  /\ IF d \in isGet THEN UNCHANGED <<isGet, configs>>
     ELSE isGet' = isGet \cup {d} /\ UpdateLidarCfg(d)
  /\ UNCHANGED <<role, listed, known, accepted, isSet, flags, queries, count, pc,
                 announced>>

\* Without one, the next search reply asks again.
InfoFails(t, d) ==
  /\ IsIdle(t)
  /\ Finish(infos, d)
  /\ UNCHANGED <<role, tables, flags, queries, configs, count, pc, announced>>

\* UpdateLidarCallback when the device accepted its configuration.
ConfigDone(d) ==
  /\ IsIdle(AckThread)
  /\ Finish(configs, d)
  /\ accepted' = accepted \cup {d}
  /\ Start(AckThread, "mark", d)
  /\ UNCHANGED <<role, listed, known, isGet, isSet, flags, queries, infos, count,
                 announced>>

\* Mutant: every family announces a device that refused its configuration.
ConfigRefused_Announce(d) ==
  /\ IsIdle(AckThread)
  /\ Finish(configs, d)
  /\ Start(AckThread, "mark", d)
  /\ UNCHANGED <<role, tables, flags, queries, infos, count, announced>>

\* The HAP handler announces the device also when it refused.
ConfigRefused(d) ==
  /\ IsIdle(AckThread)
  /\ Finish(configs, d)
  /\ IF d \in Haps THEN Start(AckThread, "mark", d) ELSE UNCHANGED pc
  /\ UNCHANGED <<role, tables, flags, queries, infos, count, announced>>

\* Mutant: a configuration that timed out counts as applied.
ConfigTimesOut_Forget(t, d) ==
  /\ IsIdle(t)
  /\ Finish(configs, d)
  /\ accepted' = accepted \cup {d}
  /\ UNCHANGED <<role, listed, known, isGet, isSet, flags, queries, infos, count, pc,
                 announced>>

ConfigTimesOut(t, d) ==
  /\ IsIdle(t)
  /\ Finish(configs, d)
  /\ UNCHANGED <<role, tables, flags, queries, infos, count, pc, announced>>

-----------------------------------------------------------------------------
\* LivoxLidarInfoChange

\* Mark the device configured and read whether it is in loader mode (val 1)
\* and whether it was announced before (bit).
Mark(t) ==
  /\ At(t, "mark")
  /\ updated' = updated \cup {Dev(t)}
  /\ pc' = [pc EXCEPT ![t].at = "flag", ![t].bit = Dev(t) \in called,
                      ![t].val = IF Dev(t) \in loader THEN 1 ELSE 0]
  /\ UNCHANGED <<role, tables, gotMode, loader, called, pending, count, announced>>

\* Mutant: the device is not marked as announced.
Flag_Forget(t) ==
  /\ At(t, "flag")
  /\ Goto(t, "notify")
  /\ UNCHANGED <<role, tables, flags, pending, count, announced>>

Flag(t) ==
  /\ At(t, "flag")
  /\ called' = called \cup {Dev(t)}
  /\ Goto(t, "notify")
  /\ UNCHANGED <<role, tables, gotMode, loader, updated, pending, count, announced>>

\* Tell DeviceManager in view mode, and the application the first time.
Notify(t) ==
  /\ At(t, "notify")
  /\ isSet' = IF role = "view" /\ pc[t].val = 0 THEN isSet \cup {Dev(t)} ELSE isSet
  /\ announced' = IF pc[t].bit THEN announced
                  ELSE [announced EXCEPT ![Dev(t)] = @ + 1]
  /\ Return(t)
  /\ UNCHANGED <<role, listed, known, accepted, isGet, flags, pending, count>>

-----------------------------------------------------------------------------

\* Uninit joins the I/O threads and clears the tables, but not the static
\* counter; the next session may have another role.
Restart ==
  /\ \A t \in Threads : IsIdle(t)
  /\ known # {}
  /\ role' \in Roles
  /\ listed' = Custom
  /\ known' = {} /\ accepted' = {} /\ isGet' = {} /\ isSet' = {}
  /\ gotMode' = {} /\ loader' = {} /\ updated' = {} /\ called' = {}
  /\ queries' = [d \in Devices |-> 0]
  /\ infos' = [d \in Devices |-> 0]
  /\ configs' = [d \in Devices |-> 0]
  /\ announced' = [d \in Devices |-> 0]
  /\ UNCHANGED <<count, pc>>

Init ==
  /\ role \in Roles
  /\ listed = Custom
  /\ known = {} /\ accepted = {} /\ isGet = {} /\ isSet = {}
  /\ gotMode = {} /\ loader = {} /\ updated = {} /\ called = {}
  /\ queries = [d \in Devices |-> 0]
  /\ infos = [d \in Devices |-> 0]
  /\ configs = [d \in Devices |-> 0]
  /\ announced = [d \in Devices |-> 0]
  /\ count = 0
  /\ pc = [t \in Threads |-> Idle]

SearchReply(d) == Register(d) \/ Discover(d) \/ Recognise(d)

\* A thread inside a handler goes on.
Step(t) ==
  \/ LoadCount(t) \/ StoreCount(t) \/ Requery(t) \/ Answered(t)
  \/ StoreGot(t) \/ StoreMode(t) \/ ResetCount(t)
  \/ Mark(t) \/ Flag(t) \/ Notify(t)

Next ==
  \/ \E d \in Devices : SearchReply(d) \/ InfoDone(d) \/ ConfigDone(d) \/ ConfigRefused(d)
  \/ \E t \in Threads, d \in Devices : \/ \E good \in BOOLEAN : QueryDone(t, d, good)
                                       \/ InfoFails(t, d) \/ ConfigTimesOut(t, d)
  \/ Coordinate
  \/ \E t \in Threads : Step(t)
  \/ Restart

Spec == Init /\ [][Next]_vars

(***************************************************************************)
(* Handlers return, and a query that is not answered times out.            *)
(***************************************************************************)
Progress ==
  /\ WF_vars(Coordinate)
  /\ \A t \in Threads : WF_vars(Step(t))
  /\ \A d \in Devices : SF_vars(\E t \in Threads, good \in BOOLEAN : QueryDone(t, d, good))

(***************************************************************************)
(* A device that is there answers the search, its internal-info query and  *)
(* its configuration again and again.                                      *)
(***************************************************************************)
Answers ==
  \A d \in Devices :
    SF_vars(SearchReply(d)) /\ SF_vars(InfoDone(d)) /\ SF_vars(ConfigDone(d))

FairSpec == Spec /\ Progress
AnsweringSpec == FairSpec /\ Answers

-----------------------------------------------------------------------------
\* Properties

(***************************************************************************)
(* "Receiving instances are intended to receive point-cloud data without   *)
(* controlling the device": in that role discovery sends no command.       *)
(***************************************************************************)
SilentReceiver ==
  role = "receiver" =>
    \A d \in Devices : queries[d] = 0 /\ infos[d] = 0 /\ configs[d] = 0

(***************************************************************************)
(* The info-change callback is called at most once per device and session, *)
(* although search replies and accepted configurations are repeated        *)
(* (is_callback of LivoxLidarInfoChange).  A device in loader mode under a *)
(* JSON configuration can be announced by two threads: from its search     *)
(* reply, and by the answer to a configuration that it was sent between    *)
(* the two stores of UpdateFwType.  Both may read is_callback before       *)
(* either sets it, but neither announces the device twice.                 *)
(***************************************************************************)
AnnouncedOnce ==
  \A d \in Devices :
    announced[d] <= IF d \in Loaders /\ role # "view" THEN 2 ELSE 1

(***************************************************************************)
(* The application hears of a device only when it can use it: its type is  *)
(* decided, and it accepted its configuration, or is in loader mode, or    *)
(* belongs to the family that is announced whatever it answered.           *)
(***************************************************************************)
AnnouncedIsReady ==
  \A d \in Devices : announced[d] > 0 =>
    /\ d \in known \cap gotMode \cap updated
    /\ d \in accepted \cup loader \cup Haps

(***************************************************************************)
(* Every discovered device of a controlling SDK gets a type in the end,    *)
(* although all its queries may fail, the threads lose updates of the      *)
(* counter and other devices clear it.                                     *)
(***************************************************************************)
EventuallyTyped ==
  \A d \in Devices :
    d \in known /\ role # "receiver" ~> d \in gotMode \/ d \notin known

(***************************************************************************)
(* A device that keeps answering is announced in the end: a configuration  *)
(* that is lost or refused is sent again with a later search reply.        *)
(***************************************************************************)
EventuallyAnnounced ==
  \A d \in Devices :
    d \in gotMode ~> announced[d] > 0 \/ d \notin known

=============================================================================
