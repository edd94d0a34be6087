------------------------------ MODULE MCChannels ------------------------------
(***************************************************************************)
(* Channels with a handful of configuration files: the shapes the parser   *)
(* accepts, and the arrangements of hosts and groups the samples use.      *)
(***************************************************************************)
EXTENDS Channels

CONSTANTS a1, a2, h1, p1

MCTypeOf == a1 :> "Mid360" @@ a2 :> "Avia2" @@ h1 :> "HAP" @@ p1 :> "PA"

HostPorts == Ports(56101, 56201, 56301, 56401, 56501)
HapPorts == Ports(56000, 56000, 57000, 58000, 59000)

Entry(ip, group, lidar_ip, ports) ==
  [host_ip |-> ip, cmd_data_ip |-> None, multicast_ip |-> group,
   lidar_ip |-> lidar_ip, port |-> ports]

Section(form, lidar, hosts) == [form |-> form, lidar |-> lidar, hosts |-> hosts]
File(role, sections) == [master_sdk |-> role, sections |-> sections]

Mid == LidarPorts["Mid360"]
Hap == LidarPorts["HAP"]
HostA == "192.168.1.5"
HostB == "192.168.2.5"
GroupA == "239.0.0.1"
GroupB == "239.0.0.2"

\* The old form: one host for all devices of a type.
Old ==
  File(None, "Mid360" :> Section("object", Ports(1, 2, 3, 4, 65536 + 5),
               << [Entry(None, None, <<None>>, HostPorts) EXCEPT !.cmd_data_ip = HostA] >>))

\* Two families on one host, none of the devices listed.
Mixed(role, group) ==
  File(role, "Mid360" :> Section("array", Mid, << Entry(HostA, group, <<None>>, HostPorts) >>)
          @@ "Avia2" :> Section("array", Mid, << Entry(HostA, group, <<None>>, HostPorts) >>)
          @@ "HAP" :> Section("array", Hap, << Entry(HostA, None, <<None>>, HapPorts) >>))

\* Listed devices on two interfaces, each with its group.
Interfaces ==
  File("true", "Mid360" :> Section("array", Mid, << Entry(HostA, GroupA, <<a1>>, HostPorts) >>)
          @@ "Avia2" :> Section("array", Mid, << Entry(HostB, GroupB, <<a2>>, HostPorts),
                                                 Entry(HostB, GroupB, <<None>>, HostPorts) >>)
          @@ "HAP" :> Section("array", Hap, << Entry("local", GroupB, <<h1>>, HapPorts) >>))

\* No address at all, a device listed twice, and a group that is none.
Refused ==
  { File("true", "Mid360" :> Section("array", Mid, << Entry(None, None, <<None>>, HostPorts) >>)),
    File("true", "Mid360" :> Section("array", Mid, << Entry(HostA, None, <<a1, a1>>, HostPorts) >>)),
    File("true", "Mid360" :> Section("array", Mid, << Entry(HostA, HostB, <<a1>>, HostPorts) >>)),
    File("true", "Mid360" :> Section("none", Mid, <<>>)) }

MCFiles ==
  {Old, Mixed("true", None), Mixed("true", GroupA), Mixed("false", GroupA), Interfaces} \cup Refused

Report(host_point, host_imu, lidar_point, lidar_imu) ==
  [host_point |-> host_point, host_imu |-> host_imu,
   lidar_point |-> lidar_point, lidar_imu |-> lidar_imu]

MCReports == {Report(57000, 58000, 57000, 58000), Report(56000, 58000, 10000, 58001)}

\* The files, addresses and reports are of the kind the proofs are about.
ASSUME MCInputs == GoodInputs

\* Eleven devices, of which six are listed: the Mid-360s on one host, the
\* Avia 2 on another, each with a group.
FleetListed == <<"m1", "m2", "m3", "m4", "m5", "m6">>
MCFleet == {FleetListed[i] : i \in DOMAIN FleetListed} \cup {"m7", "m8", "m9", "m10", "avia"}
MCFleetType == [d \in MCFleet |-> IF d = "avia" THEN "Avia2" ELSE "Mid360"]

MCFleetFiles ==
  { File("true", "Mid360" :> Section("array", Mid, << Entry(HostA, GroupA, FleetListed, HostPorts),
                                                   Entry(HostA, GroupA, <<None>>, HostPorts) >>)
              @@ "Avia2" :> Section("array", Mid, << Entry(HostB, GroupB, <<None>>, HostPorts) >>)) }

===============================================================================
