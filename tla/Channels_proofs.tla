--------------------------- MODULE Channels_proofs ---------------------------
(***************************************************************************)
(* Proofs about Channels, for any devices, configuration files, addresses  *)
(* and reports of the kind GoodInputs describes, and as long as the        *)
(* sockets fit into the poll sets: every stream a device was told to send  *)
(* is heard, and every command is answered.                                *)
(***************************************************************************)
EXTENDS Channels, WellFoundedInduction, FiniteSetTheorems, SequenceTheorems, TLAPS

-----------------------------------------------------------------------------
\* Induction

LEMMA Induction ==
  ASSUME NEW S \in SUBSET Nat, 0 \in S, \A n \in S : n + 1 \in S
  PROVE  S = Nat
<1> SUFFICES ASSUME Nat \ S # {} PROVE FALSE
  OBVIOUS
<1>1. PICK m \in Nat \ S : \A k \in Nat \ S : <<k, m>> \notin OpToRel(<, Nat)
  BY WFMin, NatLessThanWellFounded, Zenon
<1>2. \A k \in Nat \ S : ~(k < m)
  BY <1>1, Zenon DEF OpToRel
<1>3. m # 0 /\ m - 1 \in Nat /\ m - 1 < m
  OBVIOUS
<1>4. m - 1 \in S
  BY <1>2, <1>3
<1>5. m - 1 + 1 = m
  OBVIOUS
<1>6. QED
  BY <1>4, <1>5

-----------------------------------------------------------------------------
(***************************************************************************)
(* The channels.  opened is the set of the addresses, ports and groups a   *)
(* program opens sockets with: a socket with a group may be entered        *)
(* without one.                                                            *)
(***************************************************************************)

Loops == {"detection", "data", "command"}

Fit(sockets) ==
  \A loop \in Loops : Cardinality({s \in sockets : s.loop = loop}) <= PollSize

\* s may be entered under key.
Serves(s, key, opened) ==
  /\ s.ip = key[1] /\ s.port = key[2]
  /\ IF key[3] = None THEN <<key[1], key[2], s.group>> \in opened ELSE s.group = key[3]

TableOK(table, sockets, opened) ==
  \A key \in DOMAIN table : table[key] \in sockets /\ Serves(table[key], key, opened)

\* All that fit are read, and each is entered where it belongs.
NetOK(n, opened) ==
  /\ n = [info |-> n.info, cmds |-> n.cmds, sockets |-> n.sockets, polled |-> n.polled,
          tries |-> n.tries, failing |-> n.failing, ok |-> n.ok]
  /\ n.ok \in BOOLEAN
  /\ IsFiniteSet(n.sockets)
  /\ Fit(n.sockets) => n.polled = n.sockets
  /\ TableOK(n.info, n.sockets, opened)
  /\ TableOK(n.cmds, n.sockets, opened)

\* m has the sockets and keys of n, and is not better off.
Grows(n, m) ==
  /\ n.sockets \subseteq m.sockets
  /\ DOMAIN n.info \subseteq DOMAIN m.info
  /\ m.ok => n.ok

\* The streams of an entry have their sockets.
DataReady(n, h) == \A port \in {h.port.point, h.port.imu} : <<h.ip, port, None>> \in DOMAIN n.info
StatusReady(n, c) ==
  LET h == c.host
  IN  c.type \in Mid360Family =>
        \A group \in {None, h.group} : <<h.ip, h.port.push, group>> \in DOMAIN n.info
Ready(n, c) == DataReady(n, c.host) /\ StatusReady(n, c)

-----------------------------------------------------------------------------
\* The inductive invariant

\* An entry of the file, as it is or given to a device that turned up.
Entries(f) == {[c EXCEPT !.dev = d] : c \in Range(Config(f)), d \in Devices \cup {None}}

\* What a program with file f opens, and what one in view mode opens, with ip
\* for the address of the detection channel.
FileOpens(f, ip) == {<<ip, DetectionPort, None>>} \cup UNION {Listens(c) : c \in Range(Config(f))}
ViewOpens(ip) == {<<ip, port, None>> : port \in {DetectionPort} \cup
                 {r.host_point : r \in Reports} \cup {r.host_imu : r \in Reports}}

Detecting(opened) == NetOK(net, opened) /\ Detector \in net.sockets /\ net.ok

JsonInv(f) ==
  /\ ParseSucceeds(f) /\ Check(Parse(f))
  /\ \E c \in Range(Config(f)) : host = c.host.ip
  /\ customs \in Seq(Entries(f))
  /\ DOMAIN types \subseteq DOMAIN LidarPorts
  /\ \A t \in DOMAIN types : types[t] \in Entries(f) /\ types[t].type = t
  /\ DOMAIN listed \subseteq Devices
  /\ \A d \in DOMAIN listed : listed[d] \in Range(customs) /\ listed[d].type = TypeOf[d]
  /\ \A d \in DOMAIN told : d \in DOMAIN listed /\ told[d] = Request(listed[d])
  /\ Detecting(FileOpens(f, host))
  /\ ~broken => \A c \in Range(customs) : Ready(net, c)

\* The view of a device that reported r.
View(d, r) ==
  LET fixed == TypeOf[d] \in Mid360Family
      device == LidarPorts[TypeOf[d]]
  IN  [type |-> TypeOf[d], host_point |-> r.host_point, host_imu |-> r.host_imu,
       lidar_point |-> IF fixed THEN device.point ELSE r.lidar_point,
       lidar_imu |-> IF fixed THEN device.imu ELSE r.lidar_imu]

ViewInv ==
  /\ host \in Hosts
  /\ DOMAIN views \subseteq Devices
  /\ \A d \in DOMAIN views : \E r \in Reports :
       /\ views[d] = View(d, r)
       /\ ~broken => \A port \in {r.host_point, r.host_imu} :
                       <<host, port, None>> \in DOMAIN net.info
  /\ listed = Empty
  /\ \A d \in DOMAIN told : d \in DOMAIN views /\ told[d] = ViewRequest(views[d])
  /\ Detecting(ViewOpens(host))

IInv ==
  /\ phase \in {"down", "json", "view", "failed"}
  /\ phase = "down" => listed = Empty /\ views = Empty
  /\ phase \in {"down", "failed"} => told = Empty
  /\ phase \in {"down", "failed"} => broken = FALSE
  /\ phase = "json" => views = Empty /\ \E f \in Files : JsonInv(f)
  /\ phase = "view" => ViewInv

-----------------------------------------------------------------------------
\* Opening sockets

LEMMA PollSizeIsNatural == PollSize \in Nat
  BY ChannelsAssumption

\* What fits with more sockets fits without them.
LEMMA FitSubset ==
  ASSUME NEW S, IsFiniteSet(S), NEW T \in SUBSET S, Fit(S)
  PROVE  Fit(T)
<1> SUFFICES ASSUME NEW loop \in Loops
             PROVE  Cardinality({s \in T : s.loop = loop}) <= PollSize
  BY DEF Fit
<1> DEFINE A == {s \in S : s.loop = loop}
           B == {s \in T : s.loop = loop}
<1>1. IsFiniteSet(A)
  BY FS_Subset
<1>2. B \in SUBSET A
  OBVIOUS
<1>3. IsFiniteSet(B) /\ Cardinality(B) <= Cardinality(A)
  BY <1>1, <1>2, FS_Subset
<1>4. Cardinality(A) \in Nat /\ Cardinality(B) \in Nat
  BY <1>1, <1>3, FS_CardinalityType
<1>5. Cardinality(A) <= PollSize
  BY DEF Fit
<1> HIDE DEF A, B
<1>6. Cardinality(B) <= PollSize
  BY <1>3, <1>4, <1>5, PollSizeIsNatural
<1>7. QED
  BY <1>6 DEF B

\* A socket that fits finds room.
LEMMA Room ==
  ASSUME NEW S, IsFiniteSet(S), NEW s, s.loop \in Loops, s \notin S, Fit(S \cup {s})
  PROVE  Cardinality({o \in S : o.loop = s.loop}) < PollSize
<1> DEFINE A == {o \in S : o.loop = s.loop}
<1>1. IsFiniteSet(A) /\ s \notin A
  BY FS_Subset
<1>2. {o \in S \cup {s} : o.loop = s.loop} = A \cup {s}
  OBVIOUS
<1>3. Cardinality(A \cup {s}) <= PollSize
  BY <1>2 DEF Fit
<1> HIDE DEF A
<1>4. Cardinality(A \cup {s}) = Cardinality(A) + 1
  BY <1>1, FS_AddElement
<1>5. Cardinality(A) \in Nat
  BY <1>1, FS_CardinalityType
<1>6. Cardinality(A) < PollSize
  BY <1>3, <1>4, <1>5, PollSizeIsNatural
<1>7. QED
  BY <1>6 DEF A

LEMMA GrowsTransitive ==
  ASSUME NEW n, NEW m, NEW k, Grows(n, m), Grows(m, k)
  PROVE  Grows(n, k)
  BY DEF Grows

LEMMA GrowsReflexive ==
  ASSUME NEW n
  PROVE  Grows(n, n)
  BY DEF Grows

\* Channels stay ready.
LEMMA ReadyGrows ==
  ASSUME NEW n, NEW m, NEW c, Grows(n, m), Ready(n, c)
  PROVE  Ready(m, c)
  BY DEF Grows, Ready, DataReady, StatusReady

\* A socket that is opened is read if all fit.
LEMMA OpenOK ==
  ASSUME NEW n, NEW opened, NetOK(n, opened), NEW s, s.loop \in Loops
  PROVE  LET m == Open(n, s)
         IN  /\ NetOK(m, opened)
             /\ Grows(n, m)
             /\ m.ok => s \in m.sockets
<1> DEFINE m == Open(n, s)
           room == Cardinality({o \in n.polled : o.loop = s.loop}) < PollSize
<1>1. CASE n.tries + 1 = n.failing
  <2>1. m = [info |-> n.info, cmds |-> n.cmds, sockets |-> n.sockets, polled |-> n.polled,
             tries |-> n.tries + 1, failing |-> n.failing, ok |-> FALSE]
    BY <1>1 DEF Open, NetOK
  <2> HIDE DEF m
  <2>2. NetOK(m, opened)
    BY <2>1 DEF NetOK
  <2>3. QED
    BY <2>1, <2>2 DEF Grows, m
<1>2. CASE n.tries + 1 # n.failing
  <2>1. m = [info |-> n.info, cmds |-> n.cmds, sockets |-> n.sockets \cup {s},
             polled |-> IF room THEN n.polled \cup {s} ELSE n.polled,
             tries |-> n.tries + 1, failing |-> n.failing, ok |-> n.ok]
    BY <1>2 DEF Open, NetOK
  <2>2. IsFiniteSet(n.sockets \cup {s})
    BY FS_AddElement DEF NetOK
  <2>3. ASSUME Fit(n.sockets \cup {s})
        PROVE  (IF room THEN n.polled \cup {s} ELSE n.polled) = n.sockets \cup {s}
    <3>1. n.polled = n.sockets
      BY <2>2, <2>3, FitSubset DEF NetOK
    <3>2. s \notin n.sockets => room
      BY <2>3, <3>1, Room DEF NetOK
    <3>3. QED
      BY <3>1, <3>2
  <2>4. TableOK(n.info, n.sockets \cup {s}, opened) /\ TableOK(n.cmds, n.sockets \cup {s}, opened)
    BY DEF NetOK, TableOK
  <2> HIDE DEF m, room
  <2>5. NetOK(m, opened)
    BY <2>1, <2>2, <2>3, <2>4 DEF NetOK
  <2>6. QED
    BY <2>1, <2>5 DEF Grows, m
<1>3. QED
  BY <1>1, <1>2

LEMMA PutTable ==
  ASSUME NEW table, NEW sockets, NEW opened, TableOK(table, sockets, opened),
         NEW key, NEW s \in sockets, Serves(s, key, opened)
  PROVE  TableOK(Put(table, key, s), sockets, opened)
  BY DEF TableOK, Put

LEMMA EnterInfoOK ==
  ASSUME NEW n, NEW opened, NetOK(n, opened), NEW key, NEW s,
         n.ok => s \in n.sockets, Serves(s, key, opened)
  PROVE  LET m == EnterInfo(n, key, s)
         IN  /\ NetOK(m, opened)
             /\ Grows(n, m)
             /\ m.ok = n.ok
             /\ m.sockets = n.sockets
             /\ m.ok => key \in DOMAIN m.info
<1> DEFINE m == EnterInfo(n, key, s)
<1>1. CASE n.ok
  <2>1. m = [info |-> Put(n.info, key, s), cmds |-> n.cmds, sockets |-> n.sockets,
             polled |-> n.polled, tries |-> n.tries, failing |-> n.failing, ok |-> n.ok]
    BY <1>1 DEF EnterInfo, NetOK
  <2>2. TableOK(Put(n.info, key, s), n.sockets, opened)
    BY <1>1, PutTable DEF NetOK
  <2>3. DOMAIN Put(n.info, key, s) = DOMAIN n.info \cup {key}
    BY DEF Put
  <2> HIDE DEF m
  <2>4. NetOK(m, opened)
    BY <2>1, <2>2 DEF NetOK
  <2>5. QED
    BY <2>1, <2>3, <2>4 DEF Grows, m
<1>2. CASE ~n.ok
  BY <1>2 DEF EnterInfo, Grows
<1>3. QED
  BY <1>1, <1>2

LEMMA EnterCmdOK ==
  ASSUME NEW n, NEW opened, NetOK(n, opened), NEW key, NEW s,
         n.ok => s \in n.sockets, Serves(s, key, opened)
  PROVE  LET m == EnterCmd(n, key, s)
         IN  /\ NetOK(m, opened)
             /\ Grows(n, m)
             /\ m.ok = n.ok
             /\ m.sockets = n.sockets
<1> DEFINE m == EnterCmd(n, key, s)
<1>1. CASE n.ok
  <2>1. m = [info |-> n.info, cmds |-> Put(n.cmds, key, s), sockets |-> n.sockets,
             polled |-> n.polled, tries |-> n.tries, failing |-> n.failing, ok |-> n.ok]
    BY <1>1 DEF EnterCmd, NetOK
  <2>2. TableOK(Put(n.cmds, key, s), n.sockets, opened)
    BY <1>1, PutTable DEF NetOK
  <2> HIDE DEF m
  <2>3. NetOK(m, opened)
    BY <2>1, <2>2 DEF NetOK
  <2>4. QED
    BY <2>1, <2>3 DEF Grows, m
<1>2. CASE ~n.ok
  BY <1>2 DEF EnterCmd, Grows
<1>3. QED
  BY <1>1, <1>2

-----------------------------------------------------------------------------
\* Opening channels

LEMMA DataSocket ==
  ASSUME NEW n, NEW opened, NetOK(n, opened), NEW ip, NEW port, NEW group,
         <<ip, port, group>> \in opened
  PROVE  LET m == CreateDataSocketAndAddDelegate(n, ip, port, group)
         IN  /\ NetOK(m, opened)
             /\ Grows(n, m)
             /\ m.ok /\ port \notin {0, DetectionPort} => <<ip, port, None>> \in DOMAIN m.info
<1> DEFINE m == CreateDataSocketAndAddDelegate(n, ip, port, group)
           key == <<ip, port, None>>
           s == Socket(ip, port, group, "data", 0)
           open == Open(n, s)
<1>1. CASE ~n.ok \/ port \in {0, DetectionPort} \/ key \in DOMAIN n.info
  <2>1. m = n
    BY <1>1 DEF CreateDataSocketAndAddDelegate
  <2> HIDE DEF m
  <2>2. QED
    BY <1>1, <2>1, GrowsReflexive DEF m
<1>2. CASE ~(~n.ok \/ port \in {0, DetectionPort} \/ key \in DOMAIN n.info)
  <2>1. m = EnterInfo(open, key, s)
    BY <1>2 DEF CreateDataSocketAndAddDelegate
  <2>2. s.loop \in Loops /\ Serves(s, key, opened)
    BY DEF Socket, Loops, Serves
  <2> HIDE DEF s, m, key
  <2>3. NetOK(open, opened) /\ Grows(n, open) /\ (open.ok => s \in open.sockets)
    BY <2>2, OpenOK
  <2> HIDE DEF open
  <2>4. NetOK(m, opened) /\ Grows(open, m) /\ (m.ok => key \in DOMAIN m.info)
    BY <2>1, <2>2, <2>3, EnterInfoOK
  <2>5. QED
    BY <2>3, <2>4, GrowsTransitive DEF m, key
<1>3. QED
  BY <1>1, <1>2

LEMMA CmdSocket ==
  ASSUME NEW n, NEW opened, NetOK(n, opened), NEW ip, NEW port, NEW group,
         group = None => <<ip, port, None>> \in opened
  PROVE  LET m == CreateCmdSocketAndAddDelegate(n, ip, port, group)
         IN  /\ NetOK(m, opened)
             /\ Grows(n, m)
             /\ m.ok /\ port # 0 => <<ip, port, group>> \in DOMAIN m.info
<1> DEFINE m == CreateCmdSocketAndAddDelegate(n, ip, port, group)
           key == <<ip, port, group>>
           s == Socket(ip, port, group, "command", 0)
           open == Open(n, s)
           entered == EnterInfo(open, key, s)
<1>1. CASE ~n.ok \/ port = 0
  <2>1. m = n
    BY <1>1 DEF CreateCmdSocketAndAddDelegate
  <2> HIDE DEF m
  <2>2. QED
    BY <1>1, <2>1, GrowsReflexive DEF m
<1>2. CASE n.ok /\ port # 0 /\ key \in DOMAIN n.info
  <2>1. CASE group # None \/ key \in DOMAIN n.cmds
    <3>1. m = n
      BY <1>2, <2>1 DEF CreateCmdSocketAndAddDelegate
    <3> HIDE DEF m
    <3>2. QED
      BY <1>2, <3>1, GrowsReflexive DEF m
  <2>2. CASE ~(group # None \/ key \in DOMAIN n.cmds)
    <3>1. m = EnterCmd(n, key, n.info[key])
      BY <1>2, <2>2 DEF CreateCmdSocketAndAddDelegate
    <3>2. n.info[key] \in n.sockets /\ Serves(n.info[key], key, opened)
      BY <1>2 DEF NetOK, TableOK
    <3> HIDE DEF m, key
    <3>3. NetOK(m, opened) /\ Grows(n, m)
      BY <3>1, <3>2, EnterCmdOK
    <3>4. key \in DOMAIN m.info
      BY <1>2, <3>3 DEF Grows
    <3>5. QED
      BY <3>3, <3>4 DEF m, key
  <2>3. QED
    BY <2>1, <2>2
<1>3. CASE n.ok /\ port # 0 /\ key \notin DOMAIN n.info
  <2>1. m = IF group # None THEN entered ELSE EnterCmd(entered, key, s)
    BY <1>3 DEF CreateCmdSocketAndAddDelegate
  <2>2. s.loop \in Loops /\ Serves(s, key, opened)
    BY DEF Socket, Loops, Serves
  <2> HIDE DEF s, m, key
  <2>3. NetOK(open, opened) /\ Grows(n, open) /\ (open.ok => s \in open.sockets)
    BY <2>2, OpenOK
  <2> HIDE DEF open
  <2>4. /\ NetOK(entered, opened) /\ Grows(open, entered)
        /\ entered.ok => key \in DOMAIN entered.info
        /\ entered.ok => s \in entered.sockets
    BY <2>2, <2>3, EnterInfoOK
  <2> HIDE DEF entered
  <2>5. NetOK(EnterCmd(entered, key, s), opened) /\ Grows(entered, EnterCmd(entered, key, s))
    BY <2>2, <2>4, EnterCmdOK
  <2>6. NetOK(m, opened) /\ Grows(entered, m)
    BY <2>1, <2>4, <2>5, GrowsReflexive
  <2>7. m.ok => key \in DOMAIN m.info
    BY <2>4, <2>6 DEF Grows
  <2>8. Grows(n, m)
    BY <2>3, <2>4, <2>6, GrowsTransitive
  <2>9. QED
    BY <2>6, <2>7, <2>8 DEF m, key
<1>4. QED
  BY <1>1, <1>2, <1>3

LEMMA DataChannel ==
  ASSUME NEW n, NEW opened, NetOK(n, opened), NEW h,
         \A port \in {h.port.point, h.port.imu, HostDebugPort} : <<h.ip, port, h.group>> \in opened,
         {h.port.point, h.port.imu} \cap {0, DetectionPort} = {}
  PROVE  LET m == CreateDataChannel(n, h)
         IN  NetOK(m, opened) /\ Grows(n, m) /\ (m.ok => DataReady(m, h))
<1> DEFINE point == CreateDataSocketAndAddDelegate(n, h.ip, h.port.point, h.group)
           imu == CreateDataSocketAndAddDelegate(point, h.ip, h.port.imu, h.group)
           m == CreateDataSocketAndAddDelegate(imu, h.ip, HostDebugPort, h.group)
<1>1. CreateDataChannel(n, h) = m
  BY DEF CreateDataChannel
<1>2. /\ NetOK(point, opened) /\ Grows(n, point)
      /\ point.ok => <<h.ip, h.port.point, None>> \in DOMAIN point.info
  BY DataSocket
<1> HIDE DEF point
<1>3. /\ NetOK(imu, opened) /\ Grows(point, imu)
      /\ imu.ok => <<h.ip, h.port.imu, None>> \in DOMAIN imu.info
  BY <1>2, DataSocket
<1> HIDE DEF imu
<1>4. NetOK(m, opened) /\ Grows(imu, m)
  BY <1>3, DataSocket
<1> HIDE DEF m
<1>5. m.ok => DataReady(m, h)
  BY <1>2, <1>3, <1>4 DEF Grows, DataReady
<1>6. QED
  BY <1>1, <1>2, <1>3, <1>4, <1>5, GrowsTransitive

LEMMA StatusGroupOK ==
  ASSUME NEW n, NEW opened, NetOK(n, opened), NEW type, NEW h,
         <<h.ip, h.port.push, None>> \in opened
  PROVE  LET m == StatusGroup(n, type, h)
         IN  /\ NetOK(m, opened) /\ Grows(n, m)
             /\ m.ok /\ h.group # None /\ type \in Mid360Family /\ h.port.push # 0 =>
                  <<h.ip, h.port.push, h.group>> \in DOMAIN m.info
<1>1. CASE h.group # None /\ type \in Mid360Family
  <2>1. StatusGroup(n, type, h) = CreateCmdSocketAndAddDelegate(n, h.ip, h.port.push, h.group)
    BY <1>1 DEF StatusGroup
  <2>2. QED
    BY <2>1, <1>1, CmdSocket
<1>2. CASE ~(h.group # None /\ type \in Mid360Family)
  BY <1>2, GrowsReflexive DEF StatusGroup
<1>3. QED
  BY <1>1, <1>2

LEMMA BroadcastSocketOK ==
  ASSUME NEW n, NEW opened, NetOK(n, opened), NEW type, NEW h
  PROVE  NetOK(BroadcastSocket(n, type, h), opened) /\ Grows(n, BroadcastSocket(n, type, h))
<1> DEFINE s == Socket(Broadcast, h.port.push, None, "command", Cardinality(n.sockets))
<1>1. s.loop \in Loops
  BY DEF Socket, Loops
<1>2. BroadcastSocket(n, type, h) \in {Open(n, s), n}
  BY DEF BroadcastSocket
<1> HIDE DEF s
<1>3. NetOK(Open(n, s), opened) /\ Grows(n, Open(n, s))
  BY <1>1, OpenOK
<1>4. QED
  BY <1>2, <1>3, GrowsReflexive

LEMMA CommandChannel ==
  ASSUME NEW n, NEW opened, NetOK(n, opened), NEW c, Listens(c) \subseteq opened,
         PortsGiven(c), NEW controls, NEW keepsLogs
  PROVE  LET m == CreateCommandChannel(n, c.type, c.host, controls, keepsLogs)
         IN  NetOK(m, opened) /\ Grows(n, m) /\ (m.ok => StatusReady(m, c))
<1> DEFINE h == c.host
           Cmd(m, if, port) ==
             IF if THEN CreateCmdSocketAndAddDelegate(m, h.ip, port, None) ELSE m
           commands == Cmd(n, controls, h.port.cmd)
           push == Cmd(commands, TRUE, h.port.push)
           status == StatusGroup(push, c.type, h)
           fault == Cmd(status, c.type = "PA", PaHostFaultPort)
           all == BroadcastSocket(fault, c.type, h)
           last == Cmd(all, keepsLogs, h.port.log)
<1>1. CreateCommandChannel(n, c.type, c.host, controls, keepsLogs) = last
  BY DEF CreateCommandChannel
<1>2. /\ \A port \in {h.port.cmd, h.port.push, h.port.log} : <<h.ip, port, None>> \in opened
      /\ c.type = "PA" => <<h.ip, PaHostFaultPort, None>> \in opened
      /\ c.type \in Mid360Family => h.port.push # 0
  BY DEF Listens, PortsGiven
<1> HIDE DEF h
<1>3. ASSUME NEW m, NetOK(m, opened), NEW if, NEW port, if => <<h.ip, port, None>> \in opened
      PROVE  NetOK(Cmd(m, if, port), opened) /\ Grows(m, Cmd(m, if, port))
  BY <1>3, CmdSocket, GrowsReflexive
<1>4. NetOK(commands, opened) /\ Grows(n, commands)
  BY <1>2, <1>3
<1> HIDE DEF commands
<1>5. /\ NetOK(push, opened) /\ Grows(commands, push)
      /\ push.ok /\ h.port.push # 0 => <<h.ip, h.port.push, None>> \in DOMAIN push.info
  BY <1>2, <1>4, CmdSocket
<1> HIDE DEF push
<1>6. /\ NetOK(status, opened) /\ Grows(push, status)
      /\ status.ok /\ h.group # None /\ c.type \in Mid360Family /\ h.port.push # 0 =>
           <<h.ip, h.port.push, h.group>> \in DOMAIN status.info
  BY <1>2, <1>5, StatusGroupOK
<1> HIDE DEF status
<1>7. NetOK(fault, opened) /\ Grows(status, fault)
  BY <1>2, <1>3, <1>6
<1> HIDE DEF fault
<1>8. NetOK(all, opened) /\ Grows(fault, all)
  BY <1>7, BroadcastSocketOK
<1> HIDE DEF all
<1>9. NetOK(last, opened) /\ Grows(all, last)
  BY <1>2, <1>3, <1>8
<1> HIDE DEF last
<1>10. Grows(n, last) /\ Grows(push, last) /\ Grows(status, last)
  BY <1>4, <1>5, <1>6, <1>7, <1>8, <1>9, GrowsTransitive
<1>11. ASSUME last.ok, c.type \in Mid360Family
       PROVE  \A group \in {None, h.group} : <<h.ip, h.port.push, group>> \in DOMAIN last.info
  BY <1>2, <1>5, <1>6, <1>10, <1>11 DEF Grows
<1>12. last.ok => StatusReady(last, c)
  BY <1>11 DEF StatusReady, h
<1>13. QED
  BY <1>1, <1>9, <1>10, <1>12

\* What CreateChannels does for one device.
Channel(m, c, controls, keepsLogs) ==
  IF m.ok THEN CreateCommandChannel(CreateDataChannel(m, c.host), c.type, c.host,
                                    controls, keepsLogs)
  ELSE m

LEMMA ChannelOK ==
  ASSUME NEW n, NEW opened, NetOK(n, opened), NEW c, Listens(c) \subseteq opened,
         PortsGiven(c), NEW controls, NEW keepsLogs
  PROVE  LET m == Channel(n, c, controls, keepsLogs)
         IN  NetOK(m, opened) /\ Grows(n, m) /\ (m.ok => Ready(m, c))
<1> DEFINE data == CreateDataChannel(n, c.host)
           m == CreateCommandChannel(data, c.type, c.host, controls, keepsLogs)
<1>1. CASE ~n.ok
  BY <1>1, GrowsReflexive DEF Channel
<1>2. CASE n.ok
  <2>1. Channel(n, c, controls, keepsLogs) = m
    BY <1>2 DEF Channel
  <2>2. /\ \A port \in {c.host.port.point, c.host.port.imu, HostDebugPort} :
             <<c.host.ip, port, c.host.group>> \in opened
        /\ {c.host.port.point, c.host.port.imu} \cap {0, DetectionPort} = {}
    BY DEF Listens, PortsGiven
  <2>3. NetOK(data, opened) /\ Grows(n, data) /\ (data.ok => DataReady(data, c.host))
    BY <2>2, DataChannel
  <2> HIDE DEF data
  <2>4. NetOK(m, opened) /\ Grows(data, m) /\ (m.ok => StatusReady(m, c))
    BY <2>3, CommandChannel
  <2> HIDE DEF m
  <2>5. m.ok => DataReady(m, c.host)
    BY <2>3, <2>4 DEF Grows, DataReady
  <2>6. Grows(n, m)
    BY <2>3, <2>4, GrowsTransitive
  <2>7. QED
    BY <2>1, <2>4, <2>5, <2>6 DEF Ready
<1>3. QED
  BY <1>1, <1>2

\* The recursive function of CreateChannels.
IsAfter(f, m, n, cfgs, controls, keepsLogs) ==
  f = [i \in 0..m |-> IF i = 0 THEN n ELSE Channel(f[i - 1], cfgs[i], controls, keepsLogs)]

LEMMA AfterExists ==
  ASSUME NEW m \in Nat, NEW n, NEW cfgs, NEW controls, NEW keepsLogs
  PROVE  \E f : IsAfter(f, m, n, cfgs, controls, keepsLogs)
<1> DEFINE Good(k) == \E f : f = [i \in 0..k |->
                        IF i = 0 THEN n ELSE Channel(f[i - 1], cfgs[i], controls, keepsLogs)]
           S == {k \in Nat : Good(k)}
<1>1. 0 \in S
  <2> DEFINE f == [i \in 0..0 |-> n]
  <2>1. f = [i \in 0..0 |->
               IF i = 0 THEN n ELSE Channel(f[i - 1], cfgs[i], controls, keepsLogs)]
    OBVIOUS
  <2>2. QED
    BY <2>1
<1>2. ASSUME NEW k \in S PROVE k + 1 \in S
  <2> PICK f : f = [i \in 0..k |->
                      IF i = 0 THEN n ELSE Channel(f[i - 1], cfgs[i], controls, keepsLogs)]
    OBVIOUS
  <2> DEFINE g == [i \in 0..k + 1 |->
                     IF i = k + 1 THEN Channel(f[k], cfgs[k + 1], controls, keepsLogs) ELSE f[i]]
  <2>1. k \in Nat /\ k + 1 # 0 /\ k + 1 - 1 = k /\ 0 \in 0..k /\ k \in 0..k
    OBVIOUS
  <2>2. \A i \in 0..k + 1 :
          g[i] = IF i = 0 THEN n ELSE Channel(g[i - 1], cfgs[i], controls, keepsLogs)
    <3> TAKE i \in 0..k + 1
    <3>1. CASE i = k + 1
      BY <2>1, <3>1
    <3>2. CASE i # k + 1
      <4>1. i \in 0..k /\ (i # 0 => i - 1 \in 0..k /\ i - 1 # k + 1)
        BY <2>1, <3>2
      <4>2. QED
        BY <3>2, <4>1
    <3>3. QED
      BY <3>1, <3>2
  <2>3. g = [i \in 0..k + 1 |->
               IF i = 0 THEN n ELSE Channel(g[i - 1], cfgs[i], controls, keepsLogs)]
    BY <2>2, Zenon
  <2> HIDE DEF g
  <2>4. QED
    BY <2>1, <2>3
<1> HIDE DEF S
<1>3. S = Nat
  <2>1. S \in SUBSET Nat
    BY DEF S
  <2>2. QED
    BY <1>1, <1>2, <2>1, Induction
<1>4. QED
  BY <1>3 DEF S, IsAfter

\* The channels of all devices, unless one of them cannot be opened.
LEMMA ChannelsOK ==
  ASSUME NEW n, NEW opened, NetOK(n, opened), NEW E, NEW cfgs \in Seq(E),
         \A c \in E : Listens(c) \subseteq opened /\ PortsGiven(c),
         NEW controls, NEW keepsLogs
  PROVE  LET m == CreateChannels(n, cfgs, controls, keepsLogs)
         IN  NetOK(m, opened) /\ Grows(n, m) /\ (m.ok => \A c \in Range(cfgs) : Ready(m, c))
<1> DEFINE Len0 == Len(cfgs)
           Is(f) == IsAfter(f, Len0, n, cfgs, controls, keepsLogs)
           after == CHOOSE f : Is(f)
<1>1. Len0 \in Nat /\ DOMAIN cfgs = 1..Len0 /\ \A i \in 1..Len0 : cfgs[i] \in E
  OBVIOUS
<1>2. CreateChannels(n, cfgs, controls, keepsLogs) = after[Len0]
  BY Zenon DEF CreateChannels, Channel, IsAfter
<1> HIDE DEF Len0
<1>3. Is(after)
  <2>1. \E f : Is(f)
    BY <1>1, AfterExists
  <2>2. QED
    BY <2>1, Zenon
<1> HIDE DEF after
<1>4. after[0] = n /\ \A i \in 1..Len0 : after[i] = Channel(after[i - 1], cfgs[i], controls, keepsLogs)
  BY <1>1, <1>3 DEF IsAfter
<1> DEFINE Good(i) == /\ NetOK(after[i], opened) /\ Grows(n, after[i])
                      /\ after[i].ok => \A j \in 1..i : Ready(after[i], cfgs[j])
           S == {i \in Nat : i <= Len0 => Good(i)}
<1>5. 0 \in S
  BY <1>4, GrowsReflexive
<1>6. ASSUME NEW i \in S PROVE i + 1 \in S
  <2> SUFFICES ASSUME i + 1 <= Len0 PROVE Good(i + 1)
    OBVIOUS
  <2>1. i \in Nat /\ i <= Len0 /\ i + 1 \in 1..Len0 /\ i + 1 - 1 = i
    BY <1>1
  <2> DEFINE before == after[i]
             m == after[i + 1]
             c == cfgs[i + 1]
  <2>2. /\ NetOK(before, opened) /\ Grows(n, before)
        /\ before.ok => \A j \in 1..i : Ready(before, cfgs[j])
    BY <2>1
  <2>3. m = Channel(before, c, controls, keepsLogs)
    BY <1>4, <2>1
  <2>4. Listens(c) \subseteq opened /\ PortsGiven(c)
    BY <1>1, <2>1
  <2> HIDE DEF before, m
  <2>5. NetOK(m, opened) /\ Grows(before, m) /\ (m.ok => Ready(m, c))
    BY <2>2, <2>3, <2>4, ChannelOK
  <2>6. Grows(n, m)
    BY <2>2, <2>5, GrowsTransitive
  <2>7. ASSUME m.ok, NEW j \in 1..i + 1 PROVE Ready(m, cfgs[j])
    <3>1. CASE j = i + 1
      BY <2>5, <2>7, <3>1
    <3>2. CASE j # i + 1
      <4>1. j \in 1..i
        BY <2>1, <3>2
      <4>2. Ready(before, cfgs[j])
        BY <2>2, <2>5, <2>7, <4>1 DEF Grows
      <4>3. QED
        BY <2>5, <4>2, ReadyGrows
    <3>3. QED
      BY <3>1, <3>2
  <2>8. QED
    BY <2>5, <2>6, <2>7 DEF m
<1> HIDE DEF Good
<1>7. S = Nat
  <2> HIDE DEF S
  <2>1. S \in SUBSET Nat
    BY DEF S
  <2>2. QED
    BY <1>5, <1>6, <2>1, Induction
<1>8. Good(Len0)
  BY <1>1, <1>7
<1>9. Range(cfgs) = {cfgs[j] : j \in 1..Len0}
  BY <1>1 DEF Range
<1>10. QED
  BY <1>2, <1>8, <1>9 DEF Good

-----------------------------------------------------------------------------
\* Sequences of sequences

\* The recursive function of FlattenSeq.
IsFlatten(f, m, seqs) ==
  f = [i \in 1..m |-> IF i = 1 THEN seqs[i] ELSE f[i - 1] \o seqs[i]]

LEMMA FlattenExists ==
  ASSUME NEW m \in Nat, NEW seqs
  PROVE  \E f : IsFlatten(f, m, seqs)
<1> DEFINE S == {k \in Nat : \E f : IsFlatten(f, k, seqs)}
<1>1. 0 \in S
  <2> DEFINE f == [i \in 1..0 |-> 0]
  <2>1. f = [i \in 1..0 |-> IF i = 1 THEN seqs[i] ELSE f[i - 1] \o seqs[i]]
    OBVIOUS
  <2> HIDE DEF f
  <2>2. QED
    BY <2>1 DEF IsFlatten
<1>2. ASSUME NEW k \in S PROVE k + 1 \in S
  <2> PICK f : f = [i \in 1..k |-> IF i = 1 THEN seqs[i] ELSE f[i - 1] \o seqs[i]]
    BY DEF IsFlatten
  <2> DEFINE g == [i \in 1..k + 1 |->
                     IF i = k + 1
                     THEN IF k = 0 THEN seqs[k + 1] ELSE f[k] \o seqs[k + 1]
                     ELSE f[i]]
  <2>1. k \in Nat /\ k + 1 - 1 = k /\ (k # 0 => k \in 1..k /\ k + 1 # 1)
    OBVIOUS
  <2>2. \A i \in 1..k + 1 : g[i] = IF i = 1 THEN seqs[i] ELSE g[i - 1] \o seqs[i]
    <3> TAKE i \in 1..k + 1
    <3>1. CASE i = k + 1
      BY <2>1, <3>1
    <3>2. CASE i # k + 1
      <4>1. i \in 1..k /\ (i # 1 => i - 1 \in 1..k /\ i - 1 # k + 1)
        BY <2>1, <3>2
      <4>2. f[i] = IF i = 1 THEN seqs[i] ELSE f[i - 1] \o seqs[i]
        BY <4>1
      <4>3. g[i] = f[i] /\ (i # 1 => g[i - 1] = f[i - 1])
        BY <3>2, <4>1
      <4> HIDE DEF g
      <4>4. QED
        BY <4>2, <4>3
    <3>3. QED
      BY <3>1, <3>2
  <2>3. g = [i \in 1..k + 1 |-> IF i = 1 THEN seqs[i] ELSE g[i - 1] \o seqs[i]]
    BY <2>2, Zenon
  <2> HIDE DEF g
  <2>4. IsFlatten(g, k + 1, seqs)
    BY <2>3 DEF IsFlatten
  <2>5. QED
    BY <2>1, <2>4
<1> HIDE DEF S
<1>3. S = Nat
  <2>1. S \in SUBSET Nat
    BY DEF S
  <2>2. QED
    BY <1>1, <1>2, <2>1, Induction
<1>4. QED
  BY <1>3 DEF S

\* Nothing turns up in the result that is in none of the sequences.
LEMMA FlattenSequence ==
  ASSUME NEW E, NEW seqs \in Seq(Seq(E))
  PROVE  FlattenSeq(seqs) \in Seq(E)
<1> DEFINE m == Len(seqs)
           Is(f) == IsFlatten(f, m, seqs)
           flatten == CHOOSE f : Is(f)
<1>1. m \in Nat /\ \A i \in 1..m : seqs[i] \in Seq(E)
  OBVIOUS
<1>2. CASE m = 0
  <2>1. FlattenSeq(seqs) = seqs
    BY <1>2 DEF FlattenSeq
  <2>2. seqs = << >>
    BY <1>2, EmptySeq
  <2>3. QED
    BY <2>1, <2>2
<1>3. CASE m # 0
  <2>1. FlattenSeq(seqs) = flatten[m]
    BY <1>3, Zenon DEF FlattenSeq, IsFlatten
  <2> HIDE DEF m
  <2>2. Is(flatten)
    <3>1. \E f : Is(f)
      BY <1>1, FlattenExists
    <3>2. QED
      BY <3>1, Zenon
  <2> HIDE DEF flatten
  <2>3. \A i \in 1..m : flatten[i] = IF i = 1 THEN seqs[i] ELSE flatten[i - 1] \o seqs[i]
    BY <2>2 DEF IsFlatten
  <2> DEFINE Sequence(i) == flatten[i] \in Seq(E)
           S == {i \in Nat : i \in 1..m => Sequence(i)}
  <2>4. 0 \in S
    BY <1>1
  <2>5. ASSUME NEW i \in S PROVE i + 1 \in S
    <3> SUFFICES ASSUME i + 1 \in 1..m PROVE Sequence(i + 1)
      <4>1. i + 1 \in Nat
        OBVIOUS
      <4> HIDE DEF Sequence
      <4>2. QED
        BY <4>1
    <3> DEFINE k == i + 1
    <3>1. k \in 1..m /\ seqs[k] \in Seq(E)
      BY <1>1
    <3>2. k = 1 \/ Sequence(k - 1)
      <4>1. i \in Nat /\ k - 1 = i /\ (i # 0 => i \in 1..m)
        BY <1>1
      <4> HIDE DEF Sequence, k
      <4>2. CASE i = 0
        BY <4>2 DEF k
      <4>3. CASE i # 0
        BY <4>1, <4>3
      <4>4. QED
        BY <4>2, <4>3
    <3> HIDE DEF k
    <3>3. flatten[k] = IF k = 1 THEN seqs[k] ELSE flatten[k - 1] \o seqs[k]
      BY <2>3, <3>1
    <3>4. CASE k = 1
      BY <3>1, <3>3, <3>4 DEF k
    <3>5. CASE k # 1
      <4>1. flatten[k] = flatten[k - 1] \o seqs[k]
        BY <3>3, <3>5
      <4>2. flatten[k - 1] \in Seq(E)
        BY <3>2, <3>5
      <4>3. (flatten[k - 1] \o seqs[k]) \in Seq(E)
        BY <3>1, <4>2, ConcatProperties
      <4>4. QED
        BY <4>1, <4>3 DEF k
    <3>6. QED
      BY <3>4, <3>5
  <2> HIDE DEF Sequence
  <2> HIDE DEF S
  <2>6. S = Nat
    <3>1. S \in SUBSET Nat
      BY DEF S
    <3>2. QED
      BY <2>4, <2>5, <3>1, Induction
  <2>7. m \in S /\ m \in 1..m
    BY <1>1, <1>3, <2>6
  <2>8. QED
    BY <2>1, <2>7 DEF S, Sequence
<1>4. QED
  BY <1>2, <1>3

\* A set of numbers up to m has a last one.
LEMMA LastNumber ==
  ASSUME NEW m \in Nat, NEW T \in SUBSET (1..m), T # {}
  PROVE  \E i \in T : \A j \in T : j <= i
<1> DEFINE LastTo(k) == (\E j \in T : j <= k) => \E i \in T : i <= k /\ \A j \in T : j <= k => j <= i
           S == {k \in Nat : LastTo(k)}
<1>1. 0 \in S
  OBVIOUS
<1>2. ASSUME NEW k \in S PROVE k + 1 \in S
  <2> SUFFICES ASSUME \E j \in T : j <= k + 1
               PROVE  \E i \in T : i <= k + 1 /\ \A j \in T : j <= k + 1 => j <= i
    OBVIOUS
  <2>1. CASE k + 1 \in T
    BY <2>1
  <2>2. CASE k + 1 \notin T
    <3>1. \A j \in T : j <= k + 1 <=> j <= k
      <4>1. k \in Nat
        OBVIOUS
      <4>2. SUFFICES ASSUME NEW j \in T PROVE j <= k + 1 <=> j <= k
        OBVIOUS
      <4>3. j \in Nat /\ j # k + 1
        BY <2>2
      <4>4. QED
        BY <4>1, <4>3
    <3>2. PICK i \in T : i <= k /\ \A j \in T : j <= k => j <= i
      BY <3>1
    <3>3. QED
      BY <3>1, <3>2
  <2>3. QED
    BY <2>1, <2>2
<1> HIDE DEF LastTo
<1>3. S = Nat
  <2> HIDE DEF S
  <2>1. S \in SUBSET Nat
    BY DEF S
  <2>2. QED
    BY <1>1, <1>2, <2>1, Induction
<1>4. LastTo(m)
  BY <1>3
<1>5. \A j \in T : j <= m
  OBVIOUS
<1>6. QED
  BY <1>4, <1>5 DEF LastTo

-----------------------------------------------------------------------------
\* The entries of a file

Families == Range(SectionOrder)

LEMMA FamiliesKnown ==
  /\ Families = Mid360Family \cup {"HAP"}
  /\ SectionOrder \in Seq(Families)
  /\ DOMAIN LidarPorts = Families \cup {"PA"}
  BY DEF Families, Range, SectionOrder, Mid360Family, LidarPorts

\* What is known of every entry: its fields and its type.
Shaped(c) ==
  /\ c = [type |-> c.type, dev |-> c.dev, lidar |-> c.lidar, host |-> c.host]
  /\ c.type \in Families

\* All entries a section may give.
Parsed(t, section) ==
  {ParseTypeLidarCfg(t, section, h, d) :
     h \in Range(section.hosts),
     d \in {None} \cup UNION {Range(h.lidar_ip) : h \in Range(section.hosts)}}

LEMMA SectionParsed ==
  ASSUME NEW t, NEW section, IsSequence(section.hosts),
         \A h \in Range(section.hosts) : IsSequence(h.lidar_ip)
  PROVE  ParseLidarCfg(t, section) \in Seq(Parsed(t, section))
<1> DEFINE E == Parsed(t, section)
           seqs == [i \in DOMAIN section.hosts |-> ParseHost(t, section, section.hosts[i])]
<1>1. ASSUME NEW i \in DOMAIN section.hosts
      PROVE  ParseHost(t, section, section.hosts[i]) \in Seq(E)
  <2> DEFINE h == section.hosts[i]
  <2>1. h \in Range(section.hosts)
    BY DEF Range
  <2>2. CASE section.form = "object"
    <3>1. ParseHost(t, section, h) = <<ParseTypeLidarCfg(t, section, h, None)>>
      BY <2>2 DEF ParseHost
    <3>2. ParseTypeLidarCfg(t, section, h, None) \in E
      BY <2>1 DEF Parsed
    <3> HIDE DEF E
    <3>3. QED
      BY <3>1, <3>2
  <2>3. CASE section.form # "object"
    <3> DEFINE ips == h.lidar_ip
    <3>1. ParseHost(t, section, h) =
            [k \in DOMAIN ips |-> ParseTypeLidarCfg(t, section, h, ips[k])]
      BY <2>3 DEF ParseHost
    <3>2. ips \in Seq(Range(ips))
      BY <2>1 DEF IsSequence
    <3>3. \A k \in DOMAIN ips : ParseTypeLidarCfg(t, section, h, ips[k]) \in E
      BY <2>1 DEF Parsed, Range
    <3> HIDE DEF E, ips, h
    <3>4. DOMAIN ips = 1..Len(ips) /\ Len(ips) \in Nat
      BY <3>2
    <3>5. QED
      BY <3>1, <3>3, <3>4 DEF h
  <2>4. QED
    BY <2>2, <2>3
<1>2. DOMAIN section.hosts = 1..Len(section.hosts) /\ Len(section.hosts) \in Nat
  BY DEF IsSequence
<1> HIDE DEF E
<1>3. seqs \in Seq(Seq(E))
  BY <1>1, <1>2
<1>4. ParseLidarCfg(t, section) = FlattenSeq(seqs)
  BY DEF ParseLidarCfg
<1> HIDE DEF seqs
<1>5. QED
  BY <1>3, <1>4, FlattenSequence DEF E

LEMMA FileParsed ==
  ASSUME NEW f \in Files
  PROVE  Parse(f) \in Seq({c \in UNION {Parsed(t, f.sections[t]) : t \in Families} : Shaped(c)})
<1> DEFINE E == {c \in UNION {Parsed(t, f.sections[t]) : t \in Families} : Shaped(c)}
           seqs == [i \in DOMAIN SectionOrder |->
                      IF SectionOrder[i] \in DOMAIN f.sections
                      THEN ParseLidarCfg(SectionOrder[i], f.sections[SectionOrder[i]])
                      ELSE << >>]
<1>1. DOMAIN SectionOrder = 1..5 /\ \A i \in 1..5 : SectionOrder[i] \in Families
  BY DEF SectionOrder, Families, Range
<1>2. ASSUME NEW t \in Families PROVE Parsed(t, f.sections[t]) \subseteq E
  BY DEF Parsed, ParseTypeLidarCfg, Shaped
<1>3. ASSUME NEW t \in Families, t \in DOMAIN f.sections
      PROVE  ParseLidarCfg(t, f.sections[t]) \in Seq(E)
  <2>1. ParseLidarCfg(t, f.sections[t]) \in Seq(Parsed(t, f.sections[t]))
    BY <1>3, SectionParsed, ChannelsAssumption
  <2> HIDE DEF E
  <2>2. QED
    BY <1>2, <2>1
<1>4. Parse(f) = FlattenSeq(seqs)
  BY DEF Parse
<1> HIDE DEF E
<1>5. seqs \in Seq(Seq(E))
  BY <1>1, <1>3
<1> HIDE DEF seqs
<1>6. QED
  BY <1>4, <1>5, FlattenSequence DEF E

\* CheckPort changes the ports of a device only.
LEMMA CheckPortShape ==
  ASSUME NEW c, Shaped(c)
  PROVE  Shaped(CheckPort(c))
<1> CASE c.type \in {"Mid360", "Mid360s", "Mid360l"}
  <2>1. CheckPort(c) = [type |-> c.type, dev |-> c.dev, lidar |-> LidarPorts[c.type],
                        host |-> c.host]
    BY DEF CheckPort, Shaped
  <2>2. QED
    BY <2>1 DEF Shaped
<1> CASE c.type \notin {"Mid360", "Mid360s", "Mid360l"}
  BY DEF CheckPort
<1> QED
  OBVIOUS

LEMMA CheckPortReal ==
  ASSUME NEW c, Shaped(c), RealPorts(CheckPort(c))
  PROVE  CheckPort(c).lidar = LidarPorts[CheckPort(c).type]
<1>1. CASE c.type \in {"Mid360", "Mid360s", "Mid360l"}
  <2>1. CheckPort(c) = [type |-> c.type, dev |-> c.dev, lidar |-> LidarPorts[c.type],
                        host |-> c.host]
    BY <1>1 DEF CheckPort, Shaped
  <2>2. QED
    BY <2>1
<1>2. CASE c.type \notin {"Mid360", "Mid360s", "Mid360l"}
  <2>1. CheckPort(c) = c /\ c.type \in {"HAP", "Avia2"}
    BY <1>2, FamiliesKnown DEF CheckPort, Shaped, Mid360Family
  <2>2. QED
    BY <2>1 DEF RealPorts
<1>3. QED
  BY <1>1, <1>2

Accepted(f) == f \in Files /\ ParseSucceeds(f) /\ Check(Parse(f))

\* The ports, the type and the host of an entry are those GoodInputs asks for.
Good(c) ==
  /\ Shaped(c)
  /\ c.lidar = LidarPorts[c.type]
  /\ PortsGiven(c)
  /\ HostAddress(c.host.ip)

LEMMA ConfigGood ==
  ASSUME GoodInputs, NEW f, Accepted(f)
  PROVE  /\ Config(f) \in Seq(Range(Config(f)))
         /\ Config(f) # << >>
         /\ OneGroup(Range(Config(f)))
         /\ \A c \in Range(Config(f)) : Good(c) /\ OwnType(c)
<1> DEFINE parsed == Parse(f)
           cfgs == Config(f)
<1>1. parsed \in Seq({c \in UNION {Parsed(t, f.sections[t]) : t \in Families} : Shaped(c)})
  BY FileParsed DEF Accepted
<1>2. DOMAIN parsed = 1..Len(parsed) /\ Len(parsed) \in Nat
      /\ \A i \in 1..Len(parsed) : Shaped(parsed[i])
  BY <1>1
<1>3. parsed # << >>
  BY DEF Accepted, Check
<1>4. cfgs = [i \in DOMAIN parsed |-> CheckPort(parsed[i])]
  BY DEF Config
<1>5. GoodFile(f)
  BY DEF GoodInputs, Accepted
<1> HIDE DEF parsed, cfgs
<1>6. Len(parsed) # 0
  BY <1>1, <1>3, EmptySeq
<1>7. cfgs \in Seq(Range(cfgs)) /\ Len(cfgs) = Len(parsed)
  BY <1>2, <1>4 DEF Range
<1>8. cfgs # << >>
  BY <1>6, <1>7
<1>9. ASSUME NEW c \in Range(cfgs) PROVE Good(c) /\ OwnType(c)
  <2>1. PICK i \in 1..Len(parsed) : c = CheckPort(parsed[i])
    BY <1>2, <1>4 DEF Range
  <2>2. PortsGiven(c) /\ RealPorts(c) /\ OwnType(c) /\ HostAddress(c.host.ip)
    BY <1>5 DEF GoodFile, cfgs
  <2>3. Shaped(c) /\ c.lidar = LidarPorts[c.type]
    BY <1>2, <2>1, <2>2, CheckPortShape, CheckPortReal
  <2>4. QED
    BY <2>2, <2>3 DEF Good
<1>10. QED
  BY <1>5, <1>7, <1>8, <1>9 DEF GoodFile, cfgs

\* A configuration entry stays one when it is given to a device that turned up.
LEMMA GivenEntry ==
  ASSUME NEW f, NEW e \in Entries(f), NEW d \in Devices
  PROVE  [e EXCEPT !.dev = d] \in Entries(f)
<1>1. PICK c \in Range(Config(f)), o \in Devices \cup {None} : e = [c EXCEPT !.dev = o]
  BY DEF Entries
<1>2. [e EXCEPT !.dev = d] = [c EXCEPT !.dev = d]
  BY <1>1
<1>3. QED
  BY <1>2 DEF Entries

LEMMA OwnEntry ==
  ASSUME GoodInputs, NEW f, Accepted(f), NEW c \in Range(Config(f))
  PROVE  c \in Entries(f)
<1>1. Good(c) /\ OwnType(c)
  BY ConfigGood
<1>2. c.dev \in Devices \cup {None} /\ c = [c EXCEPT !.dev = c.dev]
  BY <1>1 DEF OwnType, Good, Shaped
<1>3. QED
  BY <1>2 DEF Entries

\* The sockets of its host's ports have the group of the streams, or none.
Alone(c, opened) ==
  LET h == c.host
  IN  /\ \A port \in {h.port.point, h.port.imu} : \A group :
           <<h.ip, port, group>> \in opened => group = h.group
      /\ \A port \in {h.port.cmd, h.port.push, h.port.log} : \A group :
           <<h.ip, port, group>> \in opened => group = None

LEMMA ConfigAlone ==
  ASSUME GoodInputs, NEW f, Accepted(f), NEW ip, NEW c \in Range(Config(f))
  PROVE  Alone(c, FileOpens(f, ip))
<1> DEFINE h == c.host
           cfgs == Range(Config(f))
<1>1. OneGroup(cfgs) /\ {h.port.point, h.port.imu} \cap {0, DetectionPort} = {}
  BY ConfigGood DEF Good, PortsGiven
<1>2. ASSUME NEW x, x \in Needs(c), NEW y, y \in UNION {Listens(e) : e \in cfgs},
             x[1] = y[1], x[2] = y[2]
      PROVE  x[3] = y[3]
  BY <1>1, <1>2 DEF OneGroup
<1>3. /\ \A port \in {h.port.point, h.port.imu} : <<h.ip, port, h.group>> \in Needs(c)
      /\ \A port \in {h.port.cmd, h.port.push, h.port.log} : <<h.ip, port, None>> \in Needs(c)
  BY DEF Needs
<1> HIDE DEF h, cfgs
<1>4. ASSUME NEW port \in {h.port.point, h.port.imu}, NEW group,
             <<h.ip, port, group>> \in FileOpens(f, ip)
      PROVE  group = h.group
  <2>1. <<h.ip, port, group>> # <<ip, DetectionPort, None>>
    BY <1>1
  <2>2. <<h.ip, port, group>> \in UNION {Listens(e) : e \in cfgs}
    BY <1>4, <2>1 DEF FileOpens, cfgs
  <2>3. QED
    BY <1>2, <1>3, <2>2
<1>5. ASSUME NEW port \in {h.port.cmd, h.port.push, h.port.log}, NEW group,
             <<h.ip, port, group>> \in FileOpens(f, ip)
      PROVE  group = None
  <2>1. CASE <<h.ip, port, group>> = <<ip, DetectionPort, None>>
    BY <2>1
  <2>2. CASE <<h.ip, port, group>> # <<ip, DetectionPort, None>>
    <3>1. <<h.ip, port, group>> \in UNION {Listens(e) : e \in cfgs}
      BY <1>5, <2>2 DEF FileOpens, cfgs
    <3>2. QED
      BY <1>2, <1>3, <3>1
  <2>3. QED
    BY <2>1, <2>2
<1>6. QED
  BY <1>4, <1>5 DEF Alone, h

LEMMA EntryFacts ==
  ASSUME GoodInputs, NEW f, Accepted(f), NEW ip, NEW e \in Entries(f)
  PROVE  Good(e) /\ Listens(e) \subseteq FileOpens(f, ip) /\ Alone(e, FileOpens(f, ip))
<1>1. PICK c \in Range(Config(f)), d \in Devices \cup {None} : e = [c EXCEPT !.dev = d]
  BY DEF Entries
<1>2. Good(c) /\ Alone(c, FileOpens(f, ip))
  BY ConfigGood, ConfigAlone
<1>3. e = [type |-> c.type, dev |-> d, lidar |-> c.lidar, host |-> c.host]
  BY <1>1, <1>2 DEF Good, Shaped
<1>4. e.type = c.type /\ e.lidar = c.lidar /\ e.host = c.host
  BY <1>3
<1>5. Good(e)
  BY <1>2, <1>3, <1>4 DEF Good, Shaped, PortsGiven
<1>6. Listens(e) = Listens(c) /\ Listens(c) \subseteq FileOpens(f, ip)
  BY <1>4 DEF Listens, FileOpens
<1>7. Alone(e, FileOpens(f, ip))
  BY <1>2, <1>4 DEF Alone
<1>8. QED
  BY <1>5, <1>6, <1>7

\* Selecting entries.
LEMMA Selected ==
  ASSUME NEW E, NEW cfgs \in Seq(E)
  PROVE  /\ Addressed(cfgs) \in Seq({c \in E : c.dev # None})
         /\ Unaddressed(cfgs) \in Seq({c \in E : c.dev = None})
<1>1. DOMAIN cfgs = 1..Len(cfgs) /\ Len(cfgs) \in Nat /\ \A i \in 1..Len(cfgs) : cfgs[i] \in E
  OBVIOUS
<1>2. Addressed(cfgs) \in Seq({c \in E : c.dev # None})
  <2> DEFINE A == {c \in E : c.dev # None}
             seqs == [i \in DOMAIN cfgs |-> IF cfgs[i].dev # None THEN <<cfgs[i]>> ELSE << >>]
  <2>1. \A i \in DOMAIN cfgs : cfgs[i].dev # None => cfgs[i] \in A
    BY <1>1
  <2>2. Addressed(cfgs) = FlattenSeq(seqs)
    BY DEF Addressed
  <2> HIDE DEF A
  <2>3. seqs \in Seq(Seq(A))
    BY <1>1, <2>1
  <2> HIDE DEF seqs
  <2>4. QED
    BY <2>2, <2>3, FlattenSequence DEF A
<1>3. Unaddressed(cfgs) \in Seq({c \in E : c.dev = None})
  <2> DEFINE A == {c \in E : c.dev = None}
             seqs == [i \in DOMAIN cfgs |-> IF cfgs[i].dev = None THEN <<cfgs[i]>> ELSE << >>]
  <2>1. \A i \in DOMAIN cfgs : cfgs[i].dev = None => cfgs[i] \in A
    BY <1>1
  <2>2. Unaddressed(cfgs) = FlattenSeq(seqs)
    BY DEF Unaddressed
  <2> HIDE DEF A
  <2>3. seqs \in Seq(Seq(A))
    BY <1>1, <2>1
  <2> HIDE DEF seqs
  <2>4. QED
    BY <2>2, <2>3, FlattenSequence DEF A
<1>4. QED
  BY <1>2, <1>3

LEMMA TypeConfigsOK ==
  ASSUME NEW E, NEW cfgs \in Seq(E), NEW t \in DOMAIN TypeConfigs(cfgs)
  PROVE  TypeConfigs(cfgs)[t] \in E /\ TypeConfigs(cfgs)[t].type = t
<1> DEFINE T == {i \in DOMAIN cfgs : cfgs[i].type = t}
           P(i) == i \in DOMAIN cfgs /\ cfgs[i].type = t /\ \A j \in DOMAIN cfgs : cfgs[j].type = t => j <= i
           last == CHOOSE i \in DOMAIN cfgs :
                     cfgs[i].type = t /\ \A j \in DOMAIN cfgs : cfgs[j].type = t => j <= i
<1>1. Len(cfgs) \in Nat /\ DOMAIN cfgs = 1..Len(cfgs) /\ \A i \in 1..Len(cfgs) : cfgs[i] \in E
  OBVIOUS
<1>2. T \in SUBSET (1..Len(cfgs)) /\ T # {}
  BY <1>1 DEF TypeConfigs, Range
<1>3. \E i \in T : \A j \in T : j <= i
  <2> HIDE DEF T
  <2>1. QED
    BY <1>1, <1>2, LastNumber
<1>4. \E i \in DOMAIN cfgs :
        cfgs[i].type = t /\ \A j \in DOMAIN cfgs : cfgs[j].type = t => j <= i
  BY <1>3
<1>5. last \in DOMAIN cfgs /\ cfgs[last].type = t
  BY <1>4, Zenon
<1>6. TypeConfigs(cfgs)[t] = cfgs[last]
  BY Zenon DEF TypeConfigs
<1> HIDE DEF last
<1>7. QED
  BY <1>1, <1>5, <1>6

LEMMA DeviceConfigsOK ==
  ASSUME NEW cfgs, NEW d \in DOMAIN DeviceConfigs(cfgs)
  PROVE  DeviceConfigs(cfgs)[d] \in Range(cfgs) /\ DeviceConfigs(cfgs)[d].dev = d
<1>1. \E c \in Range(cfgs) : c.dev = d
  BY DEF DeviceConfigs
<1>2. DeviceConfigs(cfgs)[d] = CHOOSE c \in Range(cfgs) : c.dev = d
  BY DEF DeviceConfigs
<1>3. QED
  BY <1>1, <1>2

-----------------------------------------------------------------------------
\* The calls that open channels

\* A record of channels, and what remains of it when a call starts.
Fields(n) ==
  n = [info |-> n.info, cmds |-> n.cmds, sockets |-> n.sockets, polled |-> n.polled,
       tries |-> n.tries, failing |-> n.failing, ok |-> n.ok]

LEMMA StartFields ==
  ASSUME NEW n, Fields(n), NEW k, NEW m, m = [n EXCEPT !.failing = k]
  PROVE  m = [info |-> n.info, cmds |-> n.cmds, sockets |-> n.sockets, polled |-> n.polled,
              tries |-> n.tries, failing |-> k, ok |-> n.ok]
  BY DEF Fields

LEMMA StartOK ==
  ASSUME NEW k, NEW opened
  PROVE  NetOK([NoNet EXCEPT !.failing = k], opened)
<1> DEFINE n == [NoNet EXCEPT !.failing = k]
<1>1. n = [info |-> NoNet.info, cmds |-> NoNet.cmds, sockets |-> NoNet.sockets,
           polled |-> NoNet.polled, tries |-> NoNet.tries, failing |-> k, ok |-> NoNet.ok]
  <2>1. Fields(NoNet)
    BY DEF NoNet, Fields
  <2>2. QED
    BY <2>1, StartFields
<1>2. DOMAIN Empty = {}
  BY DEF Empty
<1>3. /\ NoNet.sockets = {} /\ NoNet.polled = {} /\ NoNet.ok = TRUE
      /\ NoNet.info = Empty /\ NoNet.cmds = Empty
  BY DEF NoNet
<1> HIDE DEF n
<1>4. /\ n.sockets = {} /\ n.polled = {} /\ n.ok = TRUE
      /\ n.info = Empty /\ n.cmds = Empty
  BY <1>1, <1>3
<1>5. IsFiniteSet(n.sockets)
  BY <1>4, FS_EmptySet
<1>6. n = [info |-> n.info, cmds |-> n.cmds, sockets |-> n.sockets, polled |-> n.polled,
           tries |-> n.tries, failing |-> n.failing, ok |-> n.ok]
  BY <1>1
<1>7. QED
  BY <1>2, <1>4, <1>5, <1>6 DEF NetOK, TableOK, n

\* Another call starts with the channels there are.
LEMMA AgainOK ==
  ASSUME NEW n, NEW opened, NetOK(n, opened), n.ok, NEW k
  PROVE  LET m == [n EXCEPT !.failing = k]
         IN  NetOK(m, opened) /\ Grows(n, m) /\ m.ok /\ m.sockets = n.sockets
<1> DEFINE m == [n EXCEPT !.failing = k]
<1>1. m = [info |-> n.info, cmds |-> n.cmds, sockets |-> n.sockets, polled |-> n.polled,
           tries |-> n.tries, failing |-> k, ok |-> n.ok]
  <2>1. Fields(n)
    BY DEF NetOK, Fields
  <2>2. QED
    BY <2>1, StartFields
<1> HIDE DEF m
<1>2. QED
  BY <1>1 DEF NetOK, Grows, m

LEMMA OpenedOK ==
  ASSUME NEW n, NEW opened, NetOK(n, opened), Opened(n)
  PROVE  /\ NetOK(net', opened)
         /\ net'.ok
         /\ net'.sockets = n.sockets
         /\ net'.info = n.info
<1>1. net' = [info |-> n.info, cmds |-> n.cmds, sockets |-> n.sockets, polled |-> n.polled,
              tries |-> 0, failing |-> 0, ok |-> TRUE]
  BY DEF Opened, NetOK
<1>2. QED
  BY <1>1 DEF NetOK

LEMMA DetectionChannel ==
  ASSUME NEW n, NEW opened, NetOK(n, opened), NEW ip, <<ip, DetectionPort, None>> \in opened
  PROVE  LET m == CreateDetectionChannel(n, ip)
         IN  /\ NetOK(m, opened)
             /\ m.ok => Socket(ip, DetectionPort, None, "detection", 0) \in m.sockets
<1> DEFINE all == Socket(Broadcast, DetectionPort, None, "detection", 0)
           own == Socket(ip, DetectionPort, None, "detection", 0)
           first == Open(n, all)
           second == IF first.ok THEN Open(first, own) ELSE first
           key == <<ip, DetectionPort, None>>
           entered == EnterInfo(second, key, own)
           m == EnterCmd(entered, key, own)
<1>1. CreateDetectionChannel(n, ip) = m
  BY DEF CreateDetectionChannel
<1>2. all.loop \in Loops /\ own.loop \in Loops /\ Serves(own, key, opened)
  BY DEF Socket, Loops, Serves
<1> HIDE DEF all, key
<1>3. NetOK(first, opened)
  BY <1>2, OpenOK
<1> HIDE DEF first
<1>4. NetOK(second, opened) /\ (second.ok => own \in second.sockets)
  <2> HIDE DEF own
  <2>1. QED
    BY <1>2, <1>3, OpenOK
<1> HIDE DEF second, own
<1>5. NetOK(entered, opened) /\ (entered.ok => own \in entered.sockets)
  BY <1>2, <1>4, EnterInfoOK
<1> HIDE DEF entered
<1>6. NetOK(m, opened) /\ m.ok = entered.ok /\ m.sockets = entered.sockets
  BY <1>2, <1>5, EnterCmdOK
<1> HIDE DEF m
<1>7. QED
  BY <1>1, <1>5, <1>6 DEF own

LEMMA ViewDataChannel ==
  ASSUME NEW n, NEW opened, NetOK(n, opened), NEW ip, NEW report,
         \A port \in {report.host_point, report.host_imu} : <<ip, port, None>> \in opened
  PROVE  LET m == CreateViewDataChannel(n, ip, report)
         IN  /\ NetOK(m, opened)
             /\ Grows(n, m)
             /\ m.ok => \A port \in {report.host_point, report.host_imu} :
                          <<ip, port, None>> \in DOMAIN m.info
<1> DEFINE Port(m, port) ==
             LET key == <<ip, port, None>>
                 s == Socket(ip, port, None, "data", 0)
             IN  IF ~m.ok \/ key \in DOMAIN m.info THEN m ELSE EnterInfo(Open(m, s), key, s)
           point == Port(n, report.host_point)
           imu == Port(point, report.host_imu)
<1>1. CreateViewDataChannel(n, ip, report) = imu
  BY DEF CreateViewDataChannel
<1>2. ASSUME NEW m, NetOK(m, opened), NEW port, <<ip, port, None>> \in opened
      PROVE  /\ NetOK(Port(m, port), opened)
             /\ Grows(m, Port(m, port))
             /\ Port(m, port).ok => <<ip, port, None>> \in DOMAIN Port(m, port).info
  <2> DEFINE key == <<ip, port, None>>
             s == Socket(ip, port, None, "data", 0)
             open == Open(m, s)
             k == Port(m, port)
  <2>1. CASE ~m.ok \/ key \in DOMAIN m.info
    <3>1. k = m
      BY <2>1
    <3> HIDE DEF k
    <3>2. NetOK(k, opened) /\ Grows(m, k) /\ (k.ok => key \in DOMAIN k.info)
      BY <1>2, <2>1, <3>1, GrowsReflexive
    <3>3. QED
      BY <3>2 DEF k
  <2>2. CASE ~(~m.ok \/ key \in DOMAIN m.info)
    <3>1. k = EnterInfo(open, key, s)
      BY <2>2
    <3>2. s.loop \in Loops /\ Serves(s, key, opened)
      BY <1>2 DEF Socket, Loops, Serves
    <3> HIDE DEF s, k, key
    <3>3. NetOK(open, opened) /\ Grows(m, open) /\ (open.ok => s \in open.sockets)
      BY <1>2, <3>2, OpenOK
    <3> HIDE DEF open
    <3>4. NetOK(k, opened) /\ Grows(open, k) /\ (k.ok => key \in DOMAIN k.info)
      BY <3>1, <3>2, <3>3, EnterInfoOK
    <3>5. NetOK(k, opened) /\ Grows(m, k) /\ (k.ok => key \in DOMAIN k.info)
      BY <3>3, <3>4, GrowsTransitive
    <3>6. QED
      BY <3>5 DEF k, key
  <2>3. QED
    BY <2>1, <2>2
<1>3. /\ NetOK(point, opened) /\ Grows(n, point)
      /\ point.ok => <<ip, report.host_point, None>> \in DOMAIN point.info
  BY <1>2
<1> HIDE DEF point
<1>4. /\ NetOK(imu, opened) /\ Grows(point, imu)
      /\ imu.ok => <<ip, report.host_imu, None>> \in DOMAIN imu.info
  BY <1>2, <1>3
<1> HIDE DEF imu
<1>5. Grows(n, imu)
  BY <1>3, <1>4, GrowsTransitive
<1>6. imu.ok => <<ip, report.host_point, None>> \in DOMAIN imu.info
  BY <1>3, <1>4 DEF Grows
<1>7. QED
  BY <1>1, <1>4, <1>5, <1>6

-----------------------------------------------------------------------------
\* The inductive invariant

LEMMA EmptyTable == DOMAIN Empty = {}
  BY DEF Empty

LEMMA InitInv == Init => IInv
  BY DEF Init, IInv

LEMMA InitJsonInv ==
  ASSUME GoodInputs, IInv, NEW f \in Files, NEW keepsLogs, NEW failing,
         InitJson(f, keepsLogs, failing)
  PROVE  IInv'
<1> DEFINE cfgs == Config(f)
           general == Unaddressed(cfgs)
           own == Addressed(cfgs)
           first == IF general # <<>> THEN general[1] ELSE cfgs[1]
           start == [NoNet EXCEPT !.failing = failing]
           detecting == CreateDetectionChannel(start, first.host.ip)
           n == CreateChannels(detecting, own, Master(f), keepsLogs)
           opened == FileOpens(f, first.host.ip)
<1>1. /\ phase = "down" /\ listed = Empty /\ views = Empty /\ told = Empty /\ broken = FALSE
      /\ views' = views /\ told' = told /\ broken' = broken
  BY DEF InitJson, IInv
<1>2. Accepted(f)
  BY DEF InitJson, Accepted
<1>3. /\ Opened(n)
      /\ phase' = IF n.ok THEN "json" ELSE "failed"
      /\ host' = first.host.ip
      /\ types' = TypeConfigs(general)
      /\ customs' = own
      /\ listed' = DeviceConfigs(own)
  BY DEF InitJson
<1>4. cfgs \in Seq(Range(cfgs)) /\ cfgs # <<>> /\ \A c \in Range(cfgs) : Good(c) /\ OwnType(c)
  BY <1>2, ConfigGood
<1>5. \A c \in Range(cfgs) : c \in Entries(f)
  BY <1>2, OwnEntry
<1> HIDE DEF cfgs
<1>6. /\ general \in Seq({c \in Range(cfgs) : c.dev = None})
      /\ own \in Seq({c \in Range(cfgs) : c.dev # None})
  BY <1>4, Selected
<1> HIDE DEF general, own
<1>7. first \in Range(cfgs)
  <2>1. CASE general # <<>>
    <3>1. Len(general) \in Nat \ {0}
      BY <1>6, <2>1, EmptySeq
    <3>2. general[1] \in {c \in Range(cfgs) : c.dev = None}
      BY <1>6, <3>1
    <3>3. QED
      BY <2>1, <3>2
  <2>2. CASE general = <<>>
    <3>1. Len(cfgs) \in Nat \ {0}
      BY <1>4, EmptySeq
    <3>2. cfgs[1] \in Range(cfgs)
      BY <1>4, <3>1
    <3>3. QED
      BY <2>2, <3>2
  <2>3. QED
    BY <2>1, <2>2
<1>8. general \in Seq(Entries(f)) /\ own \in Seq(Entries(f))
  BY <1>5, <1>6
<1> HIDE DEF first
<1>9. \A c \in Entries(f) : Good(c) /\ Listens(c) \subseteq opened /\ PortsGiven(c)
  BY <1>2, EntryFacts DEF Good
<1>10. <<first.host.ip, DetectionPort, None>> \in opened
  BY DEF FileOpens
<1> HIDE DEF opened
<1>11. NetOK(start, opened)
  BY StartOK
<1> HIDE DEF start
<1>12. /\ NetOK(detecting, opened)
       /\ detecting.ok =>
            Socket(first.host.ip, DetectionPort, None, "detection", 0) \in detecting.sockets
  BY <1>10, <1>11, DetectionChannel
<1> HIDE DEF detecting
<1>13. NetOK(n, opened) /\ Grows(detecting, n) /\ (n.ok => \A c \in Range(own) : Ready(n, c))
  BY <1>8, <1>9, <1>12, ChannelsOK
<1> HIDE DEF n
<1>14. /\ NetOK(net', opened) /\ net'.ok
       /\ net'.sockets = n.sockets /\ net'.info = n.info
  BY <1>3, <1>13, OpenedOK
<1>15. CASE n.ok
  <2>1. Socket(first.host.ip, DetectionPort, None, "detection", 0) \in net'.sockets
    BY <1>12, <1>13, <1>14, <1>15 DEF Grows
  <2>2. \A c \in Range(own) : Ready(net', c)
    BY <1>13, <1>14, <1>15 DEF Ready, DataReady, StatusReady
  <2>3. \A t \in DOMAIN types' : types'[t] \in Entries(f) /\ types'[t].type = t
    BY <1>3, <1>8, TypeConfigsOK
  <2>4. DOMAIN types' \subseteq DOMAIN LidarPorts
    <3>1. \A t \in DOMAIN types' : t \in Families
      BY <1>9, <2>3 DEF Good, Shaped
    <3>2. QED
      BY <3>1, FamiliesKnown
  <2>5. ASSUME NEW d \in DOMAIN listed'
        PROVE  d \in Devices /\ listed'[d] \in Range(own) /\ listed'[d].type = TypeOf[d]
    <3>1. listed'[d] \in Range(own) /\ listed'[d].dev = d
      BY <1>3, DeviceConfigsOK
    <3>2. listed'[d] \in {c \in Range(cfgs) : c.dev # None}
      BY <1>6, <3>1 DEF Range
    <3>3. OwnType(listed'[d])
      BY <1>4, <3>2
    <3>4. QED
      BY <3>1, <3>2, <3>3 DEF OwnType
  <2>6. Detecting(FileOpens(f, host))'
    BY <1>3, <1>14, <2>1 DEF Detecting, Detector, opened
  <2>7. told' = Empty /\ views' = Empty /\ phase' = "json"
    BY <1>1, <1>3, <1>15
  <2>8. \E c \in Range(Config(f)) : host' = c.host.ip
    BY <1>3, <1>7 DEF cfgs
  <2>9. JsonInv(f)'
    BY <1>2, <1>3, <1>8, <2>2, <2>3, <2>4, <2>5, <2>6, <2>7, <2>8, EmptyTable
       DEF JsonInv, Accepted
  <2>10. QED
    BY <2>7, <2>9 DEF IInv
<1>16. CASE ~n.ok
  BY <1>1, <1>3, <1>16 DEF IInv
<1>17. QED
  BY <1>15, <1>16

LEMMA InitViewInv ==
  ASSUME IInv, NEW ip \in Hosts, NEW keepsLogs, NEW failing, InitView(ip, keepsLogs, failing)
  PROVE  IInv'
<1> DEFINE start == [NoNet EXCEPT !.failing = failing]
           n == CreateDetectionChannel(start, ip)
           opened == ViewOpens(ip)
<1>1. /\ listed = Empty /\ views = Empty /\ told = Empty /\ broken = FALSE
      /\ listed' = listed /\ views' = views /\ told' = told /\ broken' = broken
      /\ host' = ip
      /\ Opened(n) /\ phase' = IF n.ok THEN "view" ELSE "failed"
  BY DEF InitView, IInv
<1>2. <<ip, DetectionPort, None>> \in opened
  BY DEF ViewOpens
<1> HIDE DEF opened
<1>3. NetOK(start, opened)
  BY StartOK
<1> HIDE DEF start
<1>4. /\ NetOK(n, opened)
      /\ n.ok => Socket(ip, DetectionPort, None, "detection", 0) \in n.sockets
  BY <1>2, <1>3, DetectionChannel
<1> HIDE DEF n
<1>5. NetOK(net', opened) /\ net'.ok /\ net'.sockets = n.sockets
  BY <1>1, <1>4, OpenedOK
<1>6. CASE n.ok
  <2>1. Detecting(ViewOpens(host))'
    BY <1>1, <1>4, <1>5, <1>6 DEF Detecting, Detector, opened
  <2>2. ViewInv'
    BY <1>1, <2>1, EmptyTable DEF ViewInv
  <2>3. QED
    BY <1>1, <1>6, <2>2 DEF IInv
<1>7. CASE ~n.ok
  BY <1>1, <1>7 DEF IInv
<1>8. QED
  BY <1>6, <1>7

LEMMA RegisterInv ==
  ASSUME GoodInputs, IInv, NEW d \in Devices, NEW failing, Register(d, failing)
  PROVE  IInv'
<1> DEFINE cfg == [types[TypeOf[d]] EXCEPT !.dev = d]
           again == [net EXCEPT !.failing = failing]
           all == Append(customs, cfg)
           n == CreateChannels(again, all, master, logs)
<1>1. PICK f \in Files : JsonInv(f)
  BY DEF Register, IInv
<1> DEFINE opened == FileOpens(f, host)
<1>2. /\ phase = "json" /\ d \notin DOMAIN listed /\ TypeOf[d] \in DOMAIN types
      /\ types' = [types EXCEPT ![TypeOf[d]] = cfg]
      /\ listed' = Put(listed, d, cfg)
      /\ customs' = all
      /\ Opened(n)
      /\ broken' = ~n.ok
      /\ phase' = phase /\ host' = host /\ views' = views /\ told' = told
  BY DEF Register
<1>3. Accepted(f)
  BY <1>1 DEF JsonInv, Accepted
<1>4. /\ types[TypeOf[d]] \in Entries(f) /\ types[TypeOf[d]].type = TypeOf[d]
      /\ customs \in Seq(Entries(f))
      /\ NetOK(net, opened) /\ net.ok /\ Detector \in net.sockets
  BY <1>1, <1>2 DEF JsonInv, Detecting
<1>5. cfg \in Entries(f) /\ cfg.type = TypeOf[d]
  <2>1. cfg \in Entries(f)
    BY <1>4, GivenEntry
  <2>2. Good(types[TypeOf[d]])
    BY <1>3, <1>4, EntryFacts
  <2>3. QED
    BY <1>4, <2>1, <2>2 DEF Good, Shaped
<1> HIDE DEF cfg
<1>6. all \in Seq(Entries(f)) /\ Range(all) = Range(customs) \cup {cfg}
  <2>1. /\ all \in Seq(Entries(f)) /\ Len(all) = Len(customs) + 1
        /\ \A i \in 1..Len(customs) : all[i] = customs[i]
        /\ all[Len(customs) + 1] = cfg
    BY <1>4, <1>5, AppendProperties
  <2>2. /\ Len(customs) \in Nat /\ DOMAIN customs = 1..Len(customs)
        /\ DOMAIN all = 1..Len(customs) + 1
    BY <1>4, <2>1
  <2> HIDE DEF all
  <2>3. Range(all) = Range(customs) \cup {cfg}
    BY <2>1, <2>2 DEF Range
  <2>4. QED
    BY <2>1, <2>3
<1> HIDE DEF all
<1>7. \A c \in Entries(f) : Listens(c) \subseteq opened /\ PortsGiven(c)
  BY <1>3, EntryFacts DEF Good
<1> HIDE DEF opened
<1>8. NetOK(again, opened) /\ Grows(net, again) /\ again.ok
  BY <1>4, AgainOK
<1> HIDE DEF again
<1>9. NetOK(n, opened) /\ Grows(again, n) /\ (n.ok => \A c \in Range(all) : Ready(n, c))
  BY <1>6, <1>7, <1>8, ChannelsOK
<1> HIDE DEF n
<1>10. NetOK(net', opened) /\ net'.ok /\ net'.sockets = n.sockets /\ net'.info = n.info
  BY <1>2, <1>9, OpenedOK
<1>11. Detector' \in net'.sockets
  BY <1>2, <1>4, <1>8, <1>9, <1>10 DEF Grows, Detector
<1>12. ~broken' => \A c \in Range(customs') : Ready(net', c)
  BY <1>2, <1>9, <1>10 DEF Ready, DataReady, StatusReady
<1>13. /\ DOMAIN types' = DOMAIN types
       /\ \A t \in DOMAIN types' : types'[t] \in Entries(f) /\ types'[t].type = t
  BY <1>1, <1>2, <1>5 DEF JsonInv
<1>14. /\ DOMAIN listed' = DOMAIN listed \cup {d}
       /\ \A x \in DOMAIN listed : listed'[x] = listed[x]
       /\ listed'[d] = cfg
  BY <1>2 DEF Put
<1>15. \A x \in DOMAIN listed' : listed'[x] \in Range(customs') /\ listed'[x].type = TypeOf[x]
  BY <1>1, <1>2, <1>5, <1>6, <1>14 DEF JsonInv
<1>16. \A x \in DOMAIN told' : x \in DOMAIN listed' /\ told'[x] = Request(listed'[x])
  BY <1>1, <1>2, <1>14 DEF JsonInv
<1>17. Detecting(FileOpens(f, host))'
  BY <1>2, <1>10, <1>11 DEF Detecting, opened
<1>18. JsonInv(f)'
  BY <1>1, <1>2, <1>6, <1>12, <1>13, <1>14, <1>15, <1>16, <1>17 DEF JsonInv
<1>19. QED
  BY <1>2, <1>18 DEF IInv

LEMMA ConfigureInv ==
  ASSUME IInv, NEW d, Configure(d)
  PROVE  IInv'
<1>1. PICK f \in Files : JsonInv(f)
  BY DEF Configure, IInv
<1>2. /\ phase = "json" /\ d \in DOMAIN listed \ DOMAIN told
      /\ told' = Put(told, d, Request(listed[d]))
      /\ UNCHANGED <<phase, config, net, broken>>
  BY DEF Configure
<1>3. /\ DOMAIN told' = DOMAIN told \cup {d} /\ told'[d] = Request(listed[d])
      /\ \A x \in DOMAIN told : told'[x] = told[x]
  BY <1>2 DEF Put
<1>4. \A x \in DOMAIN told' : x \in DOMAIN listed' /\ told'[x] = Request(listed'[x])
  BY <1>1, <1>2, <1>3 DEF JsonInv, config
<1>5. JsonInv(f)'
  BY <1>1, <1>2, <1>4 DEF JsonInv, config, Detecting, Detector
<1>6. QED
  BY <1>2, <1>5 DEF IInv, config

LEMMA AddViewLidarInv ==
  ASSUME IInv, NEW d \in Devices, NEW report \in Reports, NEW failing,
         AddViewLidar(d, report, failing)
  PROVE  IInv'
<1> DEFINE again == [net EXCEPT !.failing = failing]
           n == CreateViewDataChannel(again, host, report)
           opened == ViewOpens(host)
<1>1. /\ phase = "view" /\ d \notin DOMAIN views
      /\ Opened(n)
      /\ views' = Put(views, d, View(d, report))
      /\ broken' = (broken \/ ~n.ok)
      /\ phase' = phase /\ host' = host /\ listed' = listed /\ told' = told
  BY DEF AddViewLidar, View
<1>2. ViewInv
  BY <1>1 DEF IInv
<1>3. NetOK(net, opened) /\ net.ok /\ Detector \in net.sockets
  BY <1>2 DEF ViewInv, Detecting
<1>4. \A port \in {report.host_point, report.host_imu} : <<host, port, None>> \in opened
  BY DEF ViewOpens
<1> HIDE DEF opened
<1>5. NetOK(again, opened) /\ Grows(net, again) /\ again.ok
  BY <1>3, AgainOK
<1> HIDE DEF again
<1>6. /\ NetOK(n, opened) /\ Grows(again, n)
      /\ n.ok => \A port \in {report.host_point, report.host_imu} :
                   <<host, port, None>> \in DOMAIN n.info
  BY <1>4, <1>5, ViewDataChannel
<1> HIDE DEF n
<1>7. NetOK(net', opened) /\ net'.ok /\ net'.sockets = n.sockets /\ net'.info = n.info
  BY <1>1, <1>6, OpenedOK
<1>8. DOMAIN net.info \subseteq DOMAIN net'.info
  BY <1>5, <1>6, <1>7 DEF Grows
<1>9. Detecting(ViewOpens(host))'
  BY <1>1, <1>3, <1>5, <1>6, <1>7 DEF Detecting, Detector, Grows, opened
<1>10. /\ DOMAIN views' = DOMAIN views \cup {d} /\ views'[d] = View(d, report)
       /\ \A x \in DOMAIN views : views'[x] = views[x]
  BY <1>1 DEF Put
<1>11. ASSUME NEW x \in DOMAIN views'
       PROVE  \E r \in Reports :
                /\ views'[x] = View(x, r)
                /\ ~broken' => \A port \in {r.host_point, r.host_imu} :
                                 <<host', port, None>> \in DOMAIN net'.info
  <2>1. CASE x = d
    <3>1. ~broken' => \A port \in {report.host_point, report.host_imu} :
                        <<host', port, None>> \in DOMAIN net'.info
      BY <1>1, <1>6, <1>7
    <3>2. QED
      BY <1>10, <2>1, <3>1
  <2>2. CASE x # d
    <3>1. x \in DOMAIN views /\ views'[x] = views[x]
      BY <1>10, <2>2
    <3>2. PICK r \in Reports :
            /\ views[x] = View(x, r)
            /\ ~broken => \A port \in {r.host_point, r.host_imu} :
                            <<host, port, None>> \in DOMAIN net.info
      BY <1>2, <3>1 DEF ViewInv
    <3>3. ~broken' => \A port \in {r.host_point, r.host_imu} :
                        <<host', port, None>> \in DOMAIN net'.info
      BY <1>1, <1>8, <3>2
    <3>4. QED
      BY <3>1, <3>2, <3>3
  <2>3. QED
    BY <2>1, <2>2
<1>12. \A x \in DOMAIN told' : x \in DOMAIN views' /\ told'[x] = ViewRequest(views[x])'
  <2> SUFFICES ASSUME NEW x \in DOMAIN told'
               PROVE  x \in DOMAIN views' /\ told'[x] = ViewRequest(views[x])'
    OBVIOUS
  <2>1. x \in DOMAIN views /\ told'[x] = ViewRequest(views[x])
    BY <1>1, <1>2 DEF ViewInv
  <2>2. QED
    BY <1>1, <1>10, <2>1 DEF ViewRequest
<1>13. ViewInv'
  BY <1>1, <1>2, <1>9, <1>10, <1>11, <1>12 DEF ViewInv
<1>14. QED
  BY <1>1, <1>13 DEF IInv

LEMMA ConfigureViewInv ==
  ASSUME IInv, NEW d, ConfigureView(d)
  PROVE  IInv'
<1>1. /\ phase = "view" /\ d \in DOMAIN views \ DOMAIN told
      /\ told' = Put(told, d, ViewRequest(views[d]))
      /\ UNCHANGED <<phase, config, net, broken>>
  BY DEF ConfigureView
<1>2. ViewInv
  BY <1>1 DEF IInv
<1>3. /\ DOMAIN told' = DOMAIN told \cup {d} /\ told'[d] = ViewRequest(views[d])
      /\ \A x \in DOMAIN told : told'[x] = told[x]
  BY <1>1 DEF Put
<1>4. ASSUME NEW x \in DOMAIN told'
      PROVE  x \in DOMAIN views' /\ told'[x] = ViewRequest(views[x])'
  <2>1. x \in DOMAIN views /\ told'[x] = ViewRequest(views[x])
    BY <1>1, <1>2, <1>3 DEF ViewInv
  <2>2. QED
    BY <1>1, <2>1 DEF ViewRequest, config
<1>5. ViewInv'
  BY <1>1, <1>2, <1>4 DEF ViewInv, config, Detecting, Detector
<1>6. QED
  BY <1>1, <1>5 DEF IInv, config

LEMMA DestoryInv ==
  ASSUME IInv, Destory
  PROVE  IInv'
  BY DEF IInv, Destory

LEMMA StepInv ==
  ASSUME GoodInputs, IInv, [Next]_vars
  PROVE  IInv'
<1>1. ASSUME NEW f \in Files, NEW keepsLogs \in BOOLEAN, NEW failing \in Failing,
             InitJson(f, keepsLogs, failing)
      PROVE  IInv'
  BY <1>1, InitJsonInv
<1>2. ASSUME NEW ip \in Hosts, NEW keepsLogs \in BOOLEAN, NEW failing \in Failing,
             InitView(ip, keepsLogs, failing)
      PROVE  IInv'
  BY <1>2, InitViewInv
<1>3. ASSUME NEW d \in Devices, NEW failing \in Failing, Register(d, failing)
      PROVE  IInv'
  BY <1>3, RegisterInv
<1>4. ASSUME NEW d \in Devices, NEW failing \in Failing, NEW report \in Reports,
             AddViewLidar(d, report, failing)
      PROVE  IInv'
  BY <1>4, AddViewLidarInv
<1>5. ASSUME NEW d \in Devices, Configure(d) PROVE IInv'
  BY <1>5, ConfigureInv
<1>6. ASSUME NEW d \in Devices, ConfigureView(d) PROVE IInv'
  BY <1>6, ConfigureViewInv
<1>7. CASE Destory
  BY <1>7, DestoryInv
<1>8. CASE UNCHANGED vars
  <2>1. /\ phase' = phase /\ host' = host /\ types' = types /\ customs' = customs
        /\ listed' = listed /\ views' = views /\ net' = net /\ told' = told /\ broken' = broken
    BY <1>8 DEF vars, config
  <2>2. ASSUME NEW f, JsonInv(f) PROVE JsonInv(f)'
    BY <2>1, <2>2 DEF JsonInv, Detecting, Detector
  <2>3. ViewInv => ViewInv'
    BY <2>1 DEF ViewInv, Detecting, Detector, ViewRequest
  <2>4. QED
    BY <2>1, <2>2, <2>3 DEF IInv
<1>9. QED
  BY <1>1, <1>2, <1>3, <1>4, <1>5, <1>6, <1>7, <1>8 DEF Next

-----------------------------------------------------------------------------
\* Streams and commands

LEMMA DevicePorts ==
  /\ \A t \in Mid360Family : LidarPorts[t] = Ports(56100, 56200, 56300, 56400, 56500)
  /\ LidarPorts["HAP"] = Ports(56000, 56000, 57000, 58000, 59000)
  /\ LidarPorts["PA"] = Ports(9347, 9347, 10000, 0, 1002)
  BY DEF LidarPorts, Mid360Family

\* The entry of a device that is listed.
LEMMA ListedEntry ==
  ASSUME GoodInputs, NEW f \in Files, JsonInv(f), NEW d \in DOMAIN listed
  PROVE  /\ Good(listed[d]) /\ Alone(listed[d], FileOpens(f, host))
         /\ listed[d].type = TypeOf[d]
         /\ ~broken => Ready(net, listed[d])
<1>1. Accepted(f) /\ customs \in Seq(Entries(f)) /\ listed[d] \in Range(customs)
      /\ listed[d].type = TypeOf[d] /\ (~broken => Ready(net, listed[d]))
  BY DEF JsonInv, Accepted
<1>2. listed[d] \in Entries(f)
  BY <1>1 DEF Range
<1>3. QED
  BY <1>1, <1>2, EntryFacts

\* A stream that goes to a socket entered for it is heard.
LEMMA HeardThere ==
  ASSUME NEW opened, NetOK(net, opened), SocketsFit,
         NEW ip, NEW port, NEW key, <<ip, port, key>> \in DOMAIN net.info,
         NEW group, key \in {None, group},
         key = None => \A g : <<ip, port, g>> \in opened => g = group,
         ip = "local" /\ group = None => ip = host,
         NEW stream, stream.ip = (IF group # None THEN group ELSE ip), stream.port = port
  PROVE  Heard(stream)
<1> DEFINE s == net.info[<<ip, port, key>>]
<1>1. s \in net.sockets /\ Serves(s, <<ip, port, key>>, opened)
  BY DEF NetOK, TableOK
<1>2. net.polled = net.sockets
  BY DEF NetOK, Fit, SocketsFit, Loops
<1> HIDE DEF s
<1>3. s.ip = ip /\ s.port = port /\ s.group = group
  BY <1>1 DEF Serves
<1>4. Bound(s) = stream.ip \/ (Bound(s) = "any" /\ stream.ip \in {s.group, host})
  BY <1>3 DEF Bound
<1>5. QED
  BY <1>1, <1>2, <1>3, <1>4 DEF Heard

\* The host's address is neither a group nor a device.
LEMMA JsonHost ==
  ASSUME GoodInputs, NEW f \in Files, JsonInv(f)
  PROVE  HostAddress(host)
<1>1. PICK e \in Range(Config(f)) : host = e.host.ip
  BY DEF JsonInv
<1>2. Accepted(f)
  BY DEF JsonInv, Accepted
<1>3. QED
  BY <1>1, <1>2, ConfigGood DEF Good

\* What comes from a port of the streams goes to the data handler.
LEMMA RouteData ==
  ASSUME phase = "json", NEW d, d # host, d \in DOMAIN listed, NEW from,
         from \in {listed[d].lidar.imu, listed[d].lidar.point}
  PROVE  Route(d, from) = "data"
  BY DEF Route

LEMMA JsonHeard ==
  ASSUME GoodInputs, NEW f \in Files, JsonInv(f), phase = "json", SocketsFit, ~broken,
         NEW d \in DOMAIN told, NEW stream \in told[d]
  PROVE  /\ Heard(stream)
         /\ Route(d, stream.from) = (IF stream.what = "state" THEN "command" ELSE "data")
<1> DEFINE c == listed[d]
           h == c.host
           p == LidarPorts[c.type]
           opened == FileOpens(f, host)
<1>1. d \in DOMAIN listed /\ stream \in Request(c) /\ NetOK(net, opened) /\ d # host
  BY JsonHost DEF JsonInv, Detecting, HostAddress
<1>2. Good(c) /\ Alone(c, opened) /\ Ready(net, c)
  BY <1>1, ListedEntry
<1>3. c.type \in Mid360Family \cup {"HAP"} /\ c.lidar = p
  BY <1>2, FamiliesKnown DEF Good, Shaped
<1> HIDE DEF c, opened
<1>4. /\ Request(c) \subseteq DataStreams(c) \cup
           {Stream("state", Destination(h), h.port.push, p.push)}
      /\ stream \notin DataStreams(c) => c.type \in Mid360Family
      /\ IsAddress(h.ip) \/ h.group # None
      /\ c.type \in Mid360Family => IsAddress(h.ip)
  BY <1>1, <1>3 DEF Request, Mid360Request, Mid360lRequest, Avia2Request, HapRequest,
                    IsAddress, Destination, Mid360Family
<1>5. h.ip = "local" => h.group # None
  BY <1>4 DEF IsAddress
<1>6. CASE stream \in DataStreams(c)
  <2>1. PICK port \in {h.port.point, h.port.imu}, from \in {p.point, p.imu} :
          stream.ip = Destination(h) /\ stream.port = port /\ stream.from = from
          /\ stream.what \in {"point", "imu"}
    BY <1>6 DEF DataStreams, Stream
  <2>2. <<h.ip, port, None>> \in DOMAIN net.info
    BY <1>2 DEF Ready, DataReady
  <2>3. \A g : <<h.ip, port, g>> \in opened => g = h.group
    BY <1>2 DEF Alone
  <2>4. Heard(stream)
    <3>1. stream.ip = (IF h.group # None THEN h.group ELSE h.ip) /\ stream.port = port
      BY <2>1 DEF Destination
    <3> HIDE DEF h
    <3>2. QED
      BY <1>1, <1>5, <2>2, <2>3, <3>1, HeardThere
  <2>5. Route(d, stream.from) = "data"
    <3>1. stream.from \in {listed[d].lidar.imu, listed[d].lidar.point}
      BY <1>3, <2>1 DEF c
    <3>2. QED
      BY <1>1, <3>1, RouteData
  <2>6. QED
    BY <2>1, <2>4, <2>5
<1>7. CASE stream \notin DataStreams(c)
  <2>1. /\ stream.ip = Destination(h) /\ stream.port = h.port.push /\ stream.from = p.push
        /\ stream.what = "state" /\ c.type \in Mid360Family
    BY <1>1, <1>4, <1>7 DEF Stream
  <2>2. \A group \in {None, h.group} : <<h.ip, h.port.push, group>> \in DOMAIN net.info
    BY <1>2, <2>1 DEF Ready, StatusReady
  <2>3. \A g : <<h.ip, h.port.push, g>> \in opened => g = None
    BY <1>2 DEF Alone
  <2>4. Heard(stream)
    <3>1. CASE h.group = None
      BY <1>1, <1>5, <2>1, <2>2, <2>3, <3>1, HeardThere DEF Destination
    <3>2. CASE h.group # None
      BY <1>1, <1>5, <2>1, <2>2, <3>2, HeardThere DEF Destination
    <3>3. QED
      BY <3>1, <3>2
  <2>5. p = Ports(56100, 56200, 56300, 56400, 56500)
    BY <2>1, DevicePorts
  <2>6. Route(d, stream.from) = "command"
    BY <1>1, <1>3, <2>1, <2>5 DEF Route, Ports, c
  <2>7. QED
    BY <2>1, <2>4, <2>6
<1>8. QED
  BY <1>6, <1>7

LEMMA ViewHeard ==
  ASSUME GoodInputs, ViewInv, phase = "view", SocketsFit, ~broken, NEW d \in DOMAIN told,
         NEW stream \in told[d]
  PROVE  /\ Heard(stream)
         /\ Route(d, stream.from) = (IF stream.what = "state" THEN "command" ELSE "data")
<1>1. /\ d \in DOMAIN views /\ stream \in ViewRequest(views[d]) /\ NetOK(net, ViewOpens(host))
      /\ d # host
  BY DEF ViewInv, Detecting, GoodInputs, HostAddress
<1>2. PICK port \in {views[d].host_point, views[d].host_imu} :
        /\ stream.ip = host /\ stream.port = port /\ stream.what \in {"point", "imu"}
        /\ stream.from \in {views[d].lidar_point, views[d].lidar_imu}
  <2> DEFINE v == views[d]
  <2>1. \/ stream = Stream("point", host, v.host_point, v.lidar_point)
        \/ stream = Stream("imu", host, v.host_imu, v.lidar_imu)
    BY <1>1 DEF ViewRequest
  <2> HIDE DEF v
  <2>2. \/ /\ stream.ip = host /\ stream.port = v.host_point /\ stream.what = "point"
           /\ stream.from = v.lidar_point
        \/ /\ stream.ip = host /\ stream.port = v.host_imu /\ stream.what = "imu"
           /\ stream.from = v.lidar_imu
    BY <2>1 DEF Stream
  <2>3. QED
    BY <2>2 DEF v
<1>3. <<host, port, None>> \in DOMAIN net.info
  <2>1. PICK r \in Reports :
          /\ views[d] = View(d, r)
          /\ \A q \in {r.host_point, r.host_imu} : <<host, q, None>> \in DOMAIN net.info
    BY <1>1 DEF ViewInv
  <2>2. views[d].host_point = r.host_point /\ views[d].host_imu = r.host_imu
    BY <2>1 DEF View
  <2>3. QED
    BY <1>2, <2>1, <2>2
<1>4. \A g : <<host, port, g>> \in ViewOpens(host) => g = None
  BY DEF ViewOpens
<1>5. Heard(stream)
  BY <1>1, <1>2, <1>3, <1>4, HeardThere
<1>6. Route(d, stream.from) = "data"
  BY <1>1, <1>2 DEF Route
<1>7. QED
  BY <1>2, <1>5, <1>6

LEMMA Heard_Inv ==
  ASSUME GoodInputs, IInv
  PROVE  SocketsFit => ToldIsHeard
<1> SUFFICES ASSUME SocketsFit, ~broken, NEW d \in DOMAIN told, NEW stream \in told[d]
             PROVE  /\ Heard(stream)
                    /\ Route(d, stream.from) =
                         (IF stream.what = "state" THEN "command" ELSE "data")
  BY DEF ToldIsHeard
<1>1. phase \in {"json", "view"}
  BY EmptyTable DEF IInv
<1>2. CASE phase = "json"
  <2>1. PICK f \in Files : JsonInv(f)
    BY <1>2 DEF IInv
  <2>2. QED
    BY <1>2, <2>1, JsonHeard
<1>3. CASE phase = "view"
  <2>1. ViewInv
    BY <1>3 DEF IInv
  <2>2. QED
    BY <1>3, <2>1, ViewHeard
<1>4. QED
  BY <1>1, <1>2, <1>3

\* A socket of its address alone, whose address is no group.
Private(s) == s \in net.polled /\ ~IsMulticast(Bound(s))

LEMMA PrivateSocket ==
  ASSUME NEW opened, NetOK(net, opened), SocketsFit, NEW s \in net.sockets,
         s.group = None, ~IsMulticast(s.ip)
  PROVE  Private(s)
<1>1. net.polled = net.sockets
  BY DEF NetOK, Fit, SocketsFit, Loops
<1>2. Bound(s) \in {"any", s.ip}
  BY DEF Bound
<1>3. QED
  BY <1>1, <1>2 DEF Private, IsMulticast

LEMMA PrivateDetector ==
  ASSUME NEW opened, Detecting(opened), SocketsFit, ~IsMulticast(host)
  PROVE  Private(Detector)
<1>1. Detector.group = None /\ Detector.ip = host
  BY DEF Detector, Socket
<1>2. QED
  BY <1>1, PrivateSocket DEF Detecting

LEMMA JsonAnswered ==
  ASSUME GoodInputs, NEW f \in Files, JsonInv(f), phase = "json", SocketsFit,
         NEW d \in DOMAIN listed, NEW k \in {"cmd", "log"}
  PROVE  Private(SocketFor(d, k)) /\ Route(d, LidarPorts[TypeOf[d]][k]) = "command"
<1> DEFINE c == listed[d]
           h == c.host
           key == <<h.ip, h.port[k], None>>
           opened == FileOpens(f, host)
<1>1. Good(c) /\ Alone(c, opened) /\ c.type = TypeOf[d]
  BY ListedEntry
<1>2. Detecting(opened) /\ NetOK(net, opened)
  BY DEF JsonInv, Detecting
<1>3. ~IsMulticast(host) /\ d # host
  BY JsonHost DEF JsonInv, HostAddress
<1>4. Private(SocketFor(d, k))
  <2>1. CASE key \in DOMAIN net.cmds
    <3> DEFINE s == net.cmds[key]
    <3>1. SocketFor(d, k) = s
      BY <2>1 DEF SocketFor
    <3>2. s \in net.sockets /\ Serves(s, key, opened)
      BY <1>2, <2>1 DEF NetOK, TableOK
    <3>3. \A g : <<h.ip, h.port[k], g>> \in opened => g = None
      BY <1>1 DEF Alone
    <3> HIDE DEF s
    <3>4. s.ip = h.ip /\ s.group = None
      BY <3>2, <3>3 DEF Serves
    <3>5. ~IsMulticast(s.ip)
      BY <1>1, <3>4 DEF Good, HostAddress
    <3>6. QED
      BY <1>2, <3>1, <3>2, <3>4, <3>5, PrivateSocket
  <2>2. CASE key \notin DOMAIN net.cmds
    <3>1. SocketFor(d, k) = Detector
      BY <2>2 DEF SocketFor
    <3>2. QED
      BY <1>2, <1>3, <3>1, PrivateDetector
  <2>3. QED
    BY <2>1, <2>2
<1>5. Route(d, LidarPorts[TypeOf[d]][k]) = "command"
  <2>1. c.type \in Mid360Family \cup {"HAP"} /\ c.lidar = LidarPorts[c.type]
    BY <1>1, FamiliesKnown DEF Good, Shaped
  <2> DEFINE p == listed[d].lidar
  <2>2. p[k] \in {p.cmd, p.log} /\ p[k] \notin {p.imu, p.point}
    BY <2>1, DevicePorts DEF Ports
  <2>3. p = LidarPorts[TypeOf[d]]
    BY <1>1, <2>1
  <2> HIDE DEF p, c
  <2>4. Route(d, p[k]) = "command"
    BY <1>3, <2>2 DEF Route, p
  <2>5. QED
    BY <2>3, <2>4
<1>6. QED
  BY <1>4, <1>5

LEMMA ViewAnswered ==
  ASSUME GoodInputs, ViewInv, phase = "view", SocketsFit,
         NEW d \in DOMAIN views, NEW k \in {"cmd", "log"}
  PROVE  Private(SocketFor(d, k)) /\ Route(d, LidarPorts[TypeOf[d]][k]) = "command"
<1>1. Detecting(ViewOpens(host)) /\ ~IsMulticast(host) /\ listed = Empty /\ d # host
  BY DEF ViewInv, GoodInputs, HostAddress
<1>2. SocketFor(d, k) = Detector
  BY <1>1, EmptyTable DEF SocketFor
<1>3. Private(SocketFor(d, k))
  BY <1>1, <1>2, PrivateDetector
<1>4. TypeOf[d] \in Mid360Family \cup {"HAP", "PA"}
  BY FamiliesKnown, ChannelsAssumption DEF ViewInv
<1>5. LidarPorts[TypeOf[d]][k] \notin {views[d].lidar_point, views[d].lidar_imu}
  <2> PICK r \in Reports : views[d] = View(d, r)
    BY DEF ViewInv
  <2>1. LET fixed == TypeOf[d] \in Mid360Family
            device == LidarPorts[TypeOf[d]]
        IN  /\ views[d].lidar_point = (IF fixed THEN device.point ELSE r.lidar_point)
            /\ views[d].lidar_imu = (IF fixed THEN device.imu ELSE r.lidar_imu)
    BY DEF View
  <2>2. CASE TypeOf[d] \in Mid360Family
    BY <2>1, <2>2, DevicePorts DEF Ports
  <2>3. CASE TypeOf[d] \notin Mid360Family
    <3>1. TypeOf[d] \in DOMAIN LidarPorts \ Mid360Family
      BY <1>4, <2>3, FamiliesKnown
    <3>2. {r.lidar_point, r.lidar_imu} \cap
            {LidarPorts[TypeOf[d]].cmd, LidarPorts[TypeOf[d]].log} = {}
      BY <3>1 DEF GoodInputs, GoodReport
    <3>3. QED
      BY <2>1, <2>3, <3>2
  <2>4. QED
    BY <2>2, <2>3
<1>6. Route(d, LidarPorts[TypeOf[d]][k]) = "command"
  BY <1>1, <1>5 DEF Route
<1>7. QED
  BY <1>3, <1>6

LEMMA Answered_Inv ==
  ASSUME GoodInputs, IInv
  PROVE  SocketsFit => CommandsAnswered
<1> SUFFICES ASSUME SocketsFit, phase \in {"json", "view"}, NEW d \in DOMAIN listed \cup DOMAIN views
             PROVE  \A k \in {"cmd", "log"} :
                      Private(SocketFor(d, k)) /\ Route(d, LidarPorts[TypeOf[d]][k]) = "command"
  BY DEF CommandsAnswered, CommandSocket, LoggerSocket, Private
<1>1. CASE phase = "json"
  <2>1. PICK f \in Files : JsonInv(f)
    BY <1>1 DEF IInv
  <2>2. d \in DOMAIN listed
    BY <1>1, EmptyTable DEF IInv
  <2>3. QED
    BY <1>1, <2>1, <2>2, JsonAnswered
<1>2. CASE phase = "view"
  <2>1. ViewInv
    BY <1>2 DEF IInv
  <2>2. d \in DOMAIN views
    BY <2>1, EmptyTable DEF ViewInv
  <2>3. QED
    BY <1>2, <2>1, <2>2, ViewAnswered
<1>3. QED
  BY <1>1, <1>2

-----------------------------------------------------------------------------
\* The theorems

\* With inputs of the kind GoodInputs describes (no port of an address is used
\* with two groups, ports are given, device ports are real ones, devices are
\* listed under their types, no host has a device's address), every state satisfies the inductive invariant.
THEOREM ChannelsInvariant ==
  ASSUME GoodInputs
  PROVE  Spec => []IInv
<1>1. IInv /\ [Next]_vars => IInv'
  BY StepInv
<1>2. QED
  BY <1>1, InitInv, PTL DEF Spec

\* Every stream a device was told to send is heard, and goes to the handler it is
\* for, in every state in which the open sockets fit into the poll sets.
THEOREM StreamsHeard ==
  ASSUME GoodInputs
  PROVE  Spec => [](SocketsFit => ToldIsHeard)
<1>1. IInv => (SocketsFit => ToldIsHeard)
  BY Heard_Inv
<1>2. QED
  BY <1>1, ChannelsInvariant, PTL

\* The answers to commands come back, in every state in which the open sockets
\* fit into the poll sets, whatever channels could not be opened.
THEOREM AnswersReturn ==
  ASSUME GoodInputs
  PROVE  Spec => [](SocketsFit => CommandsAnswered)
<1>1. IInv => (SocketsFit => CommandsAnswered)
  BY Answered_Inv
<1>2. QED
  BY <1>1, ChannelsInvariant, PTL

=============================================================================
