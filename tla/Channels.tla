------------------------------- MODULE Channels -------------------------------
(***************************************************************************)
(* From the configuration file to the sockets: ParseCfgFile, ParamsCheck,  *)
(* the channels DeviceManager opens, the requests BuildRequest makes to    *)
(* tell a device where to send its streams, and OnData, which hands what a *)
(* socket receives to DataHandler or GeneralCommandHandler.                *)
(*                                                                         *)
(* All of it must agree: a stream arrives only if the address and port the *)
(* device was told, the address and group a socket is bound to, the poll   *)
(* set that socket is in and the source port OnData expects fit together,  *)
(* and each of them is computed in a different place.                      *)
(*                                                                         *)
(* The channel tables are changed by the detection thread (and by Init and *)
(* Destory, while no I/O thread uses them), so a handler is one step.      *)
(* Discovery models the firmware query that comes before a device is       *)
(* configured.  Sockets follow Linux: a datagram goes to the sockets bound *)
(* to its destination address and port, or to the port on any address.     *)
(***************************************************************************)
EXTENDS Naturals, Sequences, FiniteSets, SequencesExt, Functions

CONSTANTS
  Devices,   \* devices on the network, and those files list
  TypeOf,    \* their types
  Files,     \* configuration files
  Hosts,     \* addresses view mode is started with
  Reports,   \* data ports devices report in view mode
  PollSize,  \* sockets a poll set accepts (48, beside the wake-up pipe)
  MaxFaults, \* bound: socket creations that fail
  MaxCalls   \* bound: the last socket creation of a call that may fail

\* What a configuration entry or a file leaves out.
None == "none"

Mid360Family == {"Mid360", "Mid360s", "Avia2", "Mid360l"}

Ports(cmd, push, point, imu, log) ==
  [cmd |-> cmd, push |-> push, point |-> point, imu |-> imu, log |-> log]

\* The ports of the devices themselves.
LidarPorts ==
  [t \in Mid360Family \cup {"HAP", "PA"} |->
     CASE t = "HAP" -> Ports(56000, 56000, 57000, 58000, 59000)
       [] t = "PA" -> Ports(9347, 9347, 10000, 0, 1002)
       [] OTHER -> Ports(56100, 56200, 56300, 56400, 56500)]

DetectionPort == 56000
HostDebugPort == 44332
PaLidarFaultPort == 10001
PaHostFaultPort == 42867

IsSequence(s) == s \in Seq(Range(s))

\* A JSON array is a sequence.
ASSUME ChannelsAssumption ==
  /\ TypeOf \in [Devices -> DOMAIN LidarPorts] /\ None \notin Devices
  /\ \A f \in Files : \A t \in DOMAIN f.sections :
       /\ IsSequence(f.sections[t].hosts)
       /\ \A h \in Range(f.sections[t].hosts) : IsSequence(h.lidar_ip)
  /\ PollSize \in Nat /\ MaxFaults \in Nat /\ MaxCalls \in Nat

-------------------------------------------------------------------------------
(***************************************************************************)
(* The configuration file.  A section has the ports of the devices of a    *)
(* type and either one host entry ("object") or a sequence of them         *)
(* ("array"), which may name the devices they are for.                     *)
(***************************************************************************)
SectionOrder == <<"HAP", "Mid360", "Mid360s", "Avia2", "Mid360l">>

\* Ports are read as unsigned and stored in 16 bits.
ParseLidarNetInfo(ports) == [k \in DOMAIN ports |-> ports[k] % 65536]

\* The old name of the address is used unless the new one is there too.
ParseHostNetInfo(h) ==
  [ip |-> IF h.host_ip # None THEN h.host_ip ELSE h.cmd_data_ip,
   group |-> h.multicast_ip,
   port |-> [k \in DOMAIN h.port |-> h.port[k] % 65536]]

ParseTypeLidarCfg(type, section, h, d) ==
  [type |-> type, dev |-> d, lidar |-> ParseLidarNetInfo(section.lidar),
   host |-> ParseHostNetInfo(h)]

\* An entry without addresses, <<None>>, is for all devices of its type that
\* turn up.
ParseHost(type, section, h) ==
  IF section.form = "object"
  THEN << ParseTypeLidarCfg(type, section, h, None) >>
  ELSE [i \in DOMAIN h.lidar_ip |-> ParseTypeLidarCfg(type, section, h, h.lidar_ip[i])]

ParseLidarCfg(type, section) ==
  FlattenSeq([i \in DOMAIN section.hosts |-> ParseHost(type, section, section.hosts[i])])

Parse(f) ==
  LET Entries(t) == IF t \in DOMAIN f.sections THEN ParseLidarCfg(t, f.sections[t]) ELSE <<>>
  IN  FlattenSeq([i \in DOMAIN SectionOrder |-> Entries(SectionOrder[i])])

ParseSucceeds(f) ==
  /\ f.master_sdk \in {None, "true", "false"}
  /\ \A t \in DOMAIN f.sections :
       /\ f.sections[t].form \in {"object", "array"}
       /\ \A i \in DOMAIN f.sections[t].hosts :
            {f.sections[t].hosts[i].host_ip, f.sections[t].hosts[i].cmd_data_ip} # {None}

Master(f) == f.master_sdk # "false"

\* Mutant: device ports are taken as they are written.
CheckPort_AsWritten(cfg) == cfg

\* Three families get the ports their handlers use, whatever the file says.
CheckPort(cfg) ==
  IF cfg.type \in {"Mid360", "Mid360s", "Mid360l"}
  THEN [cfg EXCEPT !.lidar = LidarPorts[cfg.type]] ELSE cfg

\* The entries that name their device, and those that do not, in their order.
Addressed(cfgs) ==
  FlattenSeq([i \in DOMAIN cfgs |-> IF cfgs[i].dev # None THEN <<cfgs[i]>> ELSE <<>>])
Unaddressed(cfgs) ==
  FlattenSeq([i \in DOMAIN cfgs |-> IF cfgs[i].dev = None THEN <<cfgs[i]>> ELSE <<>>])

IsMulticast(group) == group \in {"239.0.0.1", "239.0.0.2"}

\* ParamsCheck::Check: no device is listed twice, a group is a group.
Check(cfgs) ==
  /\ cfgs # <<>>
  /\ \A i, j \in DOMAIN cfgs : i # j /\ cfgs[i].dev = cfgs[j].dev => cfgs[i].dev = None
  /\ \A c \in Range(cfgs) : c.host.group # None => IsMulticast(c.host.group)

Config(f) == LET cfgs == Parse(f) IN [i \in DOMAIN cfgs |-> CheckPort(cfgs[i])]

-------------------------------------------------------------------------------
VARIABLES
  phase,   \* "down", "json", "view", or "failed": Init must be undone
  master,  \* master_sdk
  logs,    \* LoggerManager's enable_
  host,    \* detection_host_ip_
  types,   \* type_lidars_cfg_map_
  customs, \* custom_lidars_cfg_ptr_
  listed,  \* custom_lidars_cfg_map_
  views,   \* view_lidars_info_
  net,     \* the channels: see NoNet
  told,    \* where each device was told to send its streams
  broken,  \* history: some channel was not opened, and not retried since
  faults   \* socket creations that failed so far

config == <<master, logs, host, types, customs, listed, views>>
vars == <<phase, config, net, told, broken, faults>>

Empty == [x \in {} |-> x]

\* The table f with v under x.
Put(f, x, v) == [y \in DOMAIN f \cup {x} |-> IF y = x THEN v ELSE f[y]]

(***************************************************************************)
(* The channels: channel_info_ and custom_command_channel_ by key, the     *)
(* open sockets and those in the poll sets.  tries counts the calls of     *)
(* CreateSocket, failing is the one that fails (0: none), ok tells whether *)
(* the caller goes on.                                                     *)
(***************************************************************************)
NoNet == [info |-> Empty, cmds |-> Empty, sockets |-> {}, polled |-> {},
          tries |-> 0, failing |-> 0, ok |-> TRUE]

Socket(ip, port, group, loop, n) ==
  [ip |-> ip, port |-> port, group |-> group, loop |-> loop, n |-> n]

Broadcast == "255.255.255.255"

\* The address a socket is bound to: a group's socket to the group.
Bound(s) == IF s.ip = "local" THEN "any" ELSE IF s.group # None THEN s.group ELSE s.ip

(***************************************************************************)
(* CreateSocket and AddDelegate.  The loop that adds the socket to its     *)
(* poll set tells nobody when the set is full.                             *)
(***************************************************************************)
Open(n, s) ==
  LET room == Cardinality({o \in n.polled : o.loop = s.loop}) < PollSize
  IN  IF n.tries + 1 = n.failing
      THEN [n EXCEPT !.tries = @ + 1, !.ok = FALSE]
      ELSE [n EXCEPT !.tries = @ + 1, !.sockets = @ \cup {s},
                     !.polled = IF room THEN @ \cup {s} ELSE @]

\* The socket is entered under its key unless CreateSocket failed.
EnterInfo(n, key, s) == IF n.ok THEN [n EXCEPT !.info = Put(@, key, s)] ELSE n
EnterCmd(n, key, s) == IF n.ok THEN [n EXCEPT !.cmds = Put(@, key, s)] ELSE n

CreateDataSocketAndAddDelegate(n, ip, port, group) ==
  LET key == <<ip, port, None>>
      s == Socket(ip, port, group, "data", 0)
  IN  IF ~n.ok \/ port \in {0, DetectionPort} \/ key \in DOMAIN n.info THEN n
      ELSE EnterInfo(Open(n, s), key, s)

CreateCmdSocketAndAddDelegate(n, ip, port, group) ==
  LET key == <<ip, port, group>>
      s == Socket(ip, port, group, "command", 0)
      opened == EnterInfo(Open(n, s), key, s)
  IN  CASE ~n.ok \/ port = 0 -> n
        [] n.ok /\ port # 0 /\ key \in DOMAIN n.info ->
             IF group # None \/ key \in DOMAIN n.cmds THEN n
             ELSE EnterCmd(n, key, n.info[key])
        [] OTHER -> IF group # None THEN opened ELSE EnterCmd(opened, key, s)

CreateDataChannel(n, h) ==
  LET Data(m, port) == CreateDataSocketAndAddDelegate(m, h.ip, port, h.group)
  IN  Data(Data(Data(n, h.port.point), h.port.imu), HostDebugPort)

\* Mutant: a group's status messages get no socket of their own.
StatusGroup_Unicast(n, type, h) == n

\* Status messages that go to the group need a socket bound to the group.
StatusGroup(n, type, h) ==
  IF h.group # None /\ type \in Mid360Family
  THEN CreateCmdSocketAndAddDelegate(n, h.ip, h.port.push, h.group) ELSE n

\* One more broadcast socket, each time, for each device.
BroadcastSocket(n, type, h) ==
  LET s == Socket(Broadcast, h.port.push, None, "command", Cardinality(n.sockets))
  IN  IF n.ok /\ type \in Mid360Family THEN Open(n, s) ELSE n

\* controls and keepsLogs: master_sdk and GetLogEnable.
CreateCommandChannel(n, type, h, controls, keepsLogs) ==
  LET Cmd(m, if, port) ==
        IF if THEN CreateCmdSocketAndAddDelegate(m, h.ip, port, None) ELSE m
      commands == Cmd(n, controls, h.port.cmd)
      status == StatusGroup(Cmd(commands, TRUE, h.port.push), type, h)
      fault == Cmd(status, type = "PA", PaHostFaultPort)
  IN  Cmd(BroadcastSocket(fault, type, h), keepsLogs, h.port.log)

\* For each device in turn, until a channel cannot be opened.
CreateChannels(n, cfgs, controls, keepsLogs) ==
  LET Channel(m, c) ==
        IF m.ok THEN CreateCommandChannel(CreateDataChannel(m, c.host), c.type, c.host,
                                          controls, keepsLogs)
        ELSE m
      after[i \in 0..Len(cfgs)] == IF i = 0 THEN n ELSE Channel(after[i - 1], cfgs[i])
  IN  after[Len(cfgs)]

CreateDetectionChannel(n, ip) ==
  LET all == Socket(Broadcast, DetectionPort, None, "detection", 0)
      own == Socket(ip, DetectionPort, None, "detection", 0)
      first == Open(n, all)
      second == IF first.ok THEN Open(first, own) ELSE first
      key == <<ip, DetectionPort, None>>
  IN  EnterCmd(EnterInfo(second, key, own), key, own)

Detector == Socket(host, DetectionPort, None, "detection", 0)

\* A failing view channel is logged; the imu channel comes after the point channel.
CreateViewDataChannel(n, ip, report) ==
  LET View(m, port) ==
        LET key == <<ip, port, None>>
            s == Socket(ip, port, None, "data", 0)
        IN  IF ~m.ok \/ key \in DOMAIN m.info THEN m ELSE EnterInfo(Open(m, s), key, s)
  IN  View(View(n, report.host_point), report.host_imu)

-------------------------------------------------------------------------------
\* What the devices are told, and where OnData sends what they send

Stream(what, ip, port, from) == [what |-> what, ip |-> ip, port |-> port, from |-> from]

IsAddress(ip) == ip \notin {None, "local"}

\* The group if there is one, for all streams; {}: no request is made.
Destination(h) == IF h.group # None THEN h.group ELSE h.ip

DataStreams(cfg) ==
  LET from == LidarPorts[cfg.type]
  IN  {Stream("point", Destination(cfg.host), cfg.host.port.point, from.point),
       Stream("imu", Destination(cfg.host), cfg.host.port.imu, from.imu)}

HapRequest(cfg) == IF IsAddress(Destination(cfg.host)) THEN DataStreams(cfg) ELSE {}

\* A host address is asked for even if there is a group.
Mid360Request(cfg) ==
  LET state == Stream("state", Destination(cfg.host), cfg.host.port.push,
                      LidarPorts[cfg.type].push)
  IN  IF IsAddress(cfg.host.ip) THEN DataStreams(cfg) \cup {state} ELSE {}

\* Copies of it with the ports of their family.
Mid360lRequest(cfg) == Mid360Request(cfg)
Avia2Request(cfg) == Mid360Request(cfg)

\* What the handler of the device's family asks for.
Request(cfg) ==
  CASE cfg.type \in {"Mid360", "Mid360s"} -> Mid360Request(cfg)
    [] cfg.type = "Mid360l" -> Mid360lRequest(cfg)
    [] cfg.type = "Avia2" -> Avia2Request(cfg)
    [] cfg.type = "HAP" -> HapRequest(cfg)
    [] OTHER -> {}

\* BuildUpdateViewLidarCfgRequest.
ViewRequest(v) ==
  {Stream("point", host, v.host_point, v.lidar_point)} \cup
  (IF v.type = "PA" THEN {} ELSE {Stream("imu", host, v.host_imu, v.lidar_imu)})

\* The types CreateCommandHandler makes a family handler for: to a device of
\* another type no command is sent.
HandledTypes == Mid360Family \cup {"HAP"}

\* The handler OnData calls for a datagram of device d from its port; what comes
\* from the host's own address is dropped.
Route(d, port) ==
  CASE d = host -> None
    [] d # host /\ phase = "view" ->
         IF d \in DOMAIN views /\ port \in {views[d].lidar_point, views[d].lidar_imu}
         THEN "data" ELSE "command"
    [] d # host /\ phase = "json" /\ d \in DOMAIN listed ->
         LET p == listed[d].lidar
         IN  IF port \in {p.imu, p.point} THEN "data"
             ELSE IF port \in {DetectionPort, p.cmd, p.push, p.log, PaLidarFaultPort}
             THEN "command" ELSE None
    [] OTHER -> None

\* The socket of the device's host with this port, or the detection socket.
SocketFor(d, port) ==
  LET key == <<listed[d].host.ip, listed[d].host.port[port], None>>
  IN  IF d \in DOMAIN listed /\ key \in DOMAIN net.cmds THEN net.cmds[key] ELSE Detector

\* SendCommand, and SendLoggerCommand, which addresses the log port.
CommandSocket(d) == SocketFor(d, "cmd")
LoggerSocket(d) == SocketFor(d, "log")

-------------------------------------------------------------------------------
\* Actions

\* GetLidarConfigMap: of two entries for a type the later one, and the entry of
\* each device (there is one: Check).
TypeConfigs(cfgs) ==
  [t \in {c.type : c \in Range(cfgs)} |->
     cfgs[CHOOSE i \in DOMAIN cfgs :
            cfgs[i].type = t /\ \A j \in DOMAIN cfgs : cfgs[j].type = t => j <= i]]
DeviceConfigs(cfgs) ==
  [d \in {c.dev : c \in Range(cfgs)} |-> CHOOSE c \in Range(cfgs) : c.dev = d]

\* Calls of CreateSocket that may fail.
Failing == IF faults < MaxFaults THEN 0..MaxCalls ELSE {0}

\* The outcome of a call that opened channels.
Opened(n) ==
  /\ n.failing # 0 => ~n.ok
  /\ net' = [n EXCEPT !.tries = 0, !.failing = 0, !.ok = TRUE]
  /\ faults' = IF n.ok THEN faults ELSE faults + 1

\* LivoxLidarSdkInit with a file: listed devices get their channels at once.
InitJson(f, keepsLogs, failing) ==
  /\ phase = "down"
  /\ ParseSucceeds(f)
  /\ Check(Parse(f))
  /\ LET cfgs == Config(f)
         general == Unaddressed(cfgs)
         first == IF general # <<>> THEN general[1] ELSE cfgs[1]
         detecting == CreateDetectionChannel([NoNet EXCEPT !.failing = failing], first.host.ip)
         n == CreateChannels(detecting, Addressed(cfgs), Master(f), keepsLogs)
     IN  /\ Opened(n)
         /\ phase' = IF n.ok THEN "json" ELSE "failed"
         /\ master' = Master(f)
         /\ logs' = keepsLogs
         /\ host' = first.host.ip
         /\ types' = TypeConfigs(general)
         /\ customs' = Addressed(cfgs)
         /\ listed' = DeviceConfigs(Addressed(cfgs))
  /\ UNCHANGED <<views, told, broken>>

\* LivoxLidarSdkInit with an address: view mode.
InitView(ip, keepsLogs, failing) ==
  /\ phase = "down"
  /\ LET n == CreateDetectionChannel([NoNet EXCEPT !.failing = failing], ip)
     IN  /\ Opened(n)
         /\ phase' = IF n.ok THEN "view" ELSE "failed"
  /\ master' = TRUE
  /\ logs' = keepsLogs
  /\ host' = ip
  /\ UNCHANGED <<types, customs, listed, views, told, broken>>

(***************************************************************************)
(* OnData for the first search reply of a device the file does not list:   *)
(* it is listed with the entry of its type, then the channels of all       *)
(* listed devices are gone through again.  If one of them fails the device *)
(* stays listed, so only another new device makes the SDK try again.       *)
(***************************************************************************)
Register(d, failing) ==
  /\ phase = "json" /\ d # host /\ d \notin DOMAIN listed /\ TypeOf[d] \in DOMAIN types
  /\ LET cfg == [types[TypeOf[d]] EXCEPT !.dev = d]
         n == CreateChannels([net EXCEPT !.failing = failing], Append(customs, cfg), master, logs)
     IN  /\ types' = [types EXCEPT ![TypeOf[d]] = cfg]
         /\ listed' = Put(listed, d, cfg)
         /\ customs' = Append(customs, cfg)
         /\ Opened(n)
         /\ broken' = ~n.ok
  /\ UNCHANGED <<phase, master, logs, host, views, told>>

(***************************************************************************)
(* The family handler configures a listed device and the device accepts.   *)
(* With a receiving instance it is the controlling one, which has the same *)
(* entry for the device, that does.                                        *)
(***************************************************************************)
Configure(d) ==
  /\ phase = "json" /\ d \in DOMAIN listed \ DOMAIN told
  /\ listed[d].type = TypeOf[d]
  /\ master \/ listed[d].host.group # None
  /\ Request(listed[d]) # {}
  /\ told' = Put(told, d, Request(listed[d]))
  /\ UNCHANGED <<phase, config, net, broken, faults>>

(***************************************************************************)
(* AddViewLidar: a device answers with its data ports (those of its own    *)
(* side are known for the Mid-360 families), and the channels they need    *)
(* are opened.  A failure is logged and the device is kept all the same.   *)
(* A device without a family handler is never asked.                       *)
(***************************************************************************)
AddViewLidar(d, report, failing) ==
  /\ phase = "view" /\ d # host /\ d \notin DOMAIN views
  /\ TypeOf[d] \in HandledTypes
  /\ LET fixed == TypeOf[d] \in Mid360Family
         v == [type |-> TypeOf[d], host_point |-> report.host_point,
               host_imu |-> report.host_imu,
               lidar_point |-> IF fixed THEN LidarPorts[TypeOf[d]].point ELSE report.lidar_point,
               lidar_imu |-> IF fixed THEN LidarPorts[TypeOf[d]].imu ELSE report.lidar_imu]
         n == CreateViewDataChannel([net EXCEPT !.failing = failing], host, report)
     IN  /\ Opened(n)
         /\ views' = Put(views, d, v)
         /\ broken' = (broken \/ ~n.ok)
  /\ UNCHANGED <<phase, master, logs, host, types, customs, listed, told>>

\* SetViewLidar, and the device accepts.
ConfigureView(d) ==
  /\ phase = "view" /\ d \in DOMAIN views \ DOMAIN told
  /\ views[d].type \in HandledTypes
  /\ told' = Put(told, d, ViewRequest(views[d]))
  /\ UNCHANGED <<phase, config, net, broken, faults>>

\* Uninit, or what Init does after a failure.
Destory ==
  /\ phase # "down"
  /\ phase' = "down"
  /\ net' = NoNet
  /\ host' = None
  /\ types' = Empty /\ customs' = <<>> /\ listed' = Empty /\ views' = Empty
  /\ told' = Empty
  /\ broken' = FALSE
  /\ UNCHANGED <<master, logs, faults>>

Init ==
  /\ phase = "down"
  /\ master = TRUE /\ logs = FALSE /\ host = None
  /\ types = Empty /\ customs = <<>> /\ listed = Empty /\ views = Empty
  /\ net = NoNet /\ told = Empty
  /\ broken = FALSE /\ faults = 0

Next ==
  \/ \E f \in Files, keepsLogs \in BOOLEAN, failing \in Failing : InitJson(f, keepsLogs, failing)
  \/ \E ip \in Hosts, keepsLogs \in BOOLEAN, failing \in Failing : InitView(ip, keepsLogs, failing)
  \/ \E d \in Devices, failing \in Failing :
       \/ Register(d, failing)
       \/ \E report \in Reports : AddViewLidar(d, report, failing)
  \/ \E d \in Devices : Configure(d) \/ ConfigureView(d)
  \/ Destory

Spec == Init /\ [][Next]_vars

-------------------------------------------------------------------------------
(***************************************************************************)
(* What the two properties below take for granted of a file that Init      *)
(* accepts, of the address of view mode and of the reports.  Nothing in    *)
(* the code asks for it.                                                   *)
(***************************************************************************)

\* The sockets that are opened for an entry: address, port and group.
Listens(c) ==
  LET h == c.host
  IN  {<<h.ip, port, h.group>> : port \in {h.port.point, h.port.imu, HostDebugPort}} \cup
      {<<h.ip, port, None>> : port \in {h.port.cmd, h.port.push, h.port.log}} \cup
      (IF c.type = "PA" THEN {<<h.ip, PaHostFaultPort, None>>} ELSE {})

\* Those that it relies on.
Needs(c) ==
  LET h == c.host
  IN  {<<h.ip, port, h.group>> : port \in {h.port.point, h.port.imu}} \cup
      {<<h.ip, port, None>> : port \in {h.port.cmd, h.port.push, h.port.log}}

\* A port of an address is not used with a group by one entry and with another
\* one, or with none, by the next: they would share a socket.
OneGroup(cfgs) ==
  \A c, e \in cfgs : \A x \in Needs(c), y \in Listens(e) :
    x[1] = y[1] /\ x[2] = y[2] => x[3] = y[3]

\* Ports are given, and streams do not go to the port of the search replies.
PortsGiven(c) ==
  /\ {c.host.port.point, c.host.port.imu} \cap {0, DetectionPort} = {}
  /\ c.type \in Mid360Family => c.host.port.push # 0

\* The device ports that CheckPort leaves alone are the real ones.
RealPorts(c) == c.type \in {"HAP", "Avia2"} => c.lidar = LidarPorts[c.type]

\* A device is listed under its type.
OwnType(c) == c.dev # None => c.dev \in Devices /\ c.type = TypeOf[c.dev]

\* A host's address is neither a group nor a device's.
HostAddress(ip) == ~IsMulticast(ip) /\ ip \notin Devices

GoodFile(f) ==
  LET cfgs == Range(Config(f))
  IN  /\ OneGroup(cfgs)
      /\ \A c \in cfgs :
           /\ PortsGiven(c) /\ RealPorts(c) /\ OwnType(c)
           /\ HostAddress(c.host.ip)

\* A device in view mode does not stream from the port it answers commands from.
GoodReport(r) ==
  \A t \in DOMAIN LidarPorts \ Mid360Family :
    {r.lidar_point, r.lidar_imu} \cap {LidarPorts[t].cmd, LidarPorts[t].log} = {}

GoodInputs ==
  /\ \A f \in Files : ParseSucceeds(f) /\ Check(Parse(f)) => GoodFile(f)
  /\ \A ip \in Hosts : HostAddress(ip)
  /\ \A r \in Reports : GoodReport(r)

\* No loop has more sockets open than its poll set takes.
SocketsFit ==
  \A loop \in {"detection", "data", "command"} :
    Cardinality({s \in net.sockets : s.loop = loop}) <= PollSize

-------------------------------------------------------------------------------
\* Properties

\* A polled socket receives the stream.
Heard(stream) ==
  \E s \in net.polled :
    /\ s.port = stream.port
    /\ \/ Bound(s) = stream.ip
       \/ Bound(s) = "any" /\ stream.ip \in {s.group, host}

(***************************************************************************)
(* Every stream a device was told to send reaches the handler it is for: a *)
(* socket that is read is bound to its destination, and OnData knows the   *)
(* port it comes from.  A failure to open a channel may cost streams only  *)
(* until the next device turns up: its registration repairs the channels   *)
(* of the others.                                                          *)
(***************************************************************************)
ToldIsHeard ==
  ~broken => \A d \in DOMAIN told : \A stream \in told[d] :
    /\ Heard(stream)
    /\ Route(d, stream.from) = (IF stream.what = "state" THEN "command" ELSE "data")

(***************************************************************************)
(* The answer to a command comes back: it is sent to the address and port  *)
(* the command came from, where a socket of that address alone is read,    *)
(* and OnData hands it to the command handler.  This holds also after a    *)
(* channel could not be opened: the command leaves from another one.       *)
(***************************************************************************)
CommandsAnswered ==
  phase \in {"json", "view"} /\ master =>
    \A d \in DOMAIN listed \cup DOMAIN views :
      LET Answered(s, from) == /\ s \in net.polled
                               /\ ~IsMulticast(Bound(s))
                               /\ Route(d, from) = "command"
      IN  /\ Answered(CommandSocket(d), LidarPorts[TypeOf[d]].cmd)
          /\ Answered(LoggerSocket(d), LidarPorts[TypeOf[d]].log)

===============================================================================
