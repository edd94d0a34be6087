------------------------------ MODULE Parameters ------------------------------
(***************************************************************************)
(* The parameters of a device: the setters and queries of CommandImpl, the *)
(* addresses BuildRequest converts, the state information a device pushes, *)
(* and what ParseLidarStateInfo and the family's handler tell the          *)
(* application about it.                                                   *)
(*                                                                         *)
(* A parameter travels as key, length and value.  A value is the sequence  *)
(* of its fields (those of the packed struct both ends share) and the      *)
(* number of bytes that are sent: a field is there if its last byte is.    *)
(* A number is <<n>>, an IPv4 address the sequence of its octets, and <<>> *)
(* what no field holds: some of its bytes only.                            *)
(*                                                                         *)
(* One request and one push are on their way at a time (their races are    *)
(* CommandTable's); either may be lost.  The device is external: it keeps  *)
(* the bytes it is given.                                                  *)
(***************************************************************************)
EXTENDS Integers, Sequences, SequencesExt

CONSTANTS
  Families,            \* device families, of the DOMAIN of PushPort
  Octets,              \* first octets of the addresses an application gives
  NegativeCoordinates, \* install attitudes left of, behind or below
  MaxSets              \* calls that change a parameter, in a behaviour

None == "none"

-------------------------------------------------------------------------------
(***************************************************************************)
(* The wire and the JSON.  A field has a width in bytes, a sign, and the   *)
(* writer LivoxLidarStateInfoToJson uses for it ("Hidden": none).          *)
(***************************************************************************)
Field(name, width, signed, writer) ==
  [name |-> name, width |-> width, signed |-> signed, writer |-> writer]

U(name, width) == Field(name, width, FALSE, "Uint")
I(name, width) == Field(name, width, TRUE, "Int")
Coordinate(name) == Field(name, 4, TRUE, "Uint")
Angle(name) == Field(name, 4, TRUE, "Double")
Ip(name) == Field(name, 4, FALSE, "String")
Text(name, width) == Field(name, width, FALSE, "String")

\* HostIpInfoValue.
Host == <<Ip("ip"), U("dst_port", 2), U("src_port", 2)>>

Fov == << I("yaw_start", 4), I("yaw_stop", 4), I("pitch_start", 4),
          I("pitch_stop", 4), Field("rsvd", 4, FALSE, "Hidden") >>

Small == {"PclDataType", "PatternMode", "DualEmitEn", "PointSendEn",
          "FrameRate", "FovCfgEn", "DetectMode", "WorkMode", "GlassHeat",
          "ImuDataEn", "FusaEn", "SetEscMode", "SetFovMode", "SetEchoMode",
          "SetITOCtrl", "SetFogNoiseFilter", "SetTimeFilterMode",
          "SetPclFreqMod", "CurWorkState", "TimeSyncType", "LidarFlashStatus",
          "FwType", "RoiMode"}

\* Set or queried, but unknown to ParseStateInfo.
Opaque == {"ForceHeatEn", "WorkModeAfterBoot", "CurGlassHeatState"}

Hosts == {"StateInfoHostIpCfg", "LidarPointDataHostIpCfg", "LidarImuHostIpCfg",
          "CtlHostIpCfg", "LogHostIpCfg"}

\* Values an application sets.
Setting == [
  LidarIpCfg |-> <<Ip("lidar_ip"), Ip("lidar_subnet_mask"),
                   Ip("lidar_gateway")>>,
  SetNTPServerIp |-> <<Ip("ntp_server_ip")>>,
  VehicleSpeed |-> <<I("vehicle_speed", 4)>>,
  EnvironmentTemp |-> <<I("environment_temp", 4)>>,
  InstallAttitude |-> <<Angle("roll_deg"), Angle("pitch_deg"),
                        Angle("yaw_deg"), Coordinate("x_mm"),
                        Coordinate("y_mm"), Coordinate("z_mm")>>,
  BlindSpotSet |-> <<U("blind_spot_set", 4)>>,
  FovCfg0 |-> Fov, FovCfg1 |-> Fov,
  FuncIoCfg |-> <<U("IN0", 1), U("IN1", 1), U("OUT0", 1), U("OUT1", 1)>>,
  SetImuRange |-> <<U("imu_out_rate", 1), U("accel_range", 1),
                    U("gyro_range", 1)>>,
  LogParamSet |-> <<U("method", 1), U("id", 2), U("frequency", 2),
                    U("save", 1), U("check", 1)>> ]

\* Values a device reports.
Status == [
  Sn |-> <<Text("sn", 16)>>, ProductInfo |-> <<Text("product_info", 64)>>,
  VersionApp |-> <<Text("version_app", 4)>>,
  VersionLoader |-> <<Text("version_loader", 4)>>,
  VersionHardware |-> <<Text("version_hardware", 4)>>,
  Mac |-> <<Text("mac", 6)>>,
  CoreTemp |-> <<I("core_temp", 4)>>, PowerUpCnt |-> <<U("powerup_cnt", 4)>>,
  LocalTimeNow |-> <<U("local_time_now", 8)>>,
  LastSyncTime |-> <<U("last_sync_time", 8)>>,
  TimeOffset |-> <<I("time_offset", 8)>>,
  StatusCode |-> <<Text("status_code", 32)>>,
  LidarDiagStatus |-> <<U("lidar_diag_status", 2)>>,
  HmsCode |-> [i \in 1..8 |-> U("hms_code", 4)] ]

Keys == Small \cup Opaque \cup Hosts \cup DOMAIN Setting \cup DOMAIN Status
ParsedKeys == Keys \ (Opaque \cup {"LogParamSet"})

Layout ==
  [k \in Keys |-> IF k \in DOMAIN Setting THEN Setting[k]
                  ELSE IF k \in DOMAIN Status THEN Status[k]
                  ELSE IF k \in Hosts THEN Host
                  ELSE <<U(k, 1)>>]

\* Where field i of a struct ends.
End(k, i) ==
  LET end[n \in 0..Len(Layout[k])] ==
        IF n = 0 THEN 0 ELSE end[n - 1] + Layout[k][n].width
  IN  end[i]
Width(k) == End(k, Len(Layout[k]))

\* Values whose short form is refused: 12, 8 and 4 bytes.
Structured == Hosts \cup {"LidarIpCfg", "SetNTPServerIp"}

-------------------------------------------------------------------------------
(***************************************************************************)
(* What an application passes.  The values of two calls differ in every    *)
(* field, so that a field taken for another shows.                         *)
(***************************************************************************)
Seeds == {1, 2}

Number(f, i, s) ==
  LET n == 10 * s + i
  IN IF f.signed /\ (f.writer # "Uint" \/ NegativeCoordinates)
     THEN <<-n>> ELSE <<n>>

Args(k, s) ==
  [i \in DOMAIN Layout[k] |->
     IF k \in Structured /\ Layout[k][i].writer = "String"
     THEN <<10, 0, s, i>> ELSE Number(Layout[k][i], i, s)]

Call(api, key, args) == [api |-> api, key |-> key, args |-> args]
Choose(api, key) == {Call(api, key, Args(key, s)) : s \in Seeds}
Fixed(api, key, n) == {Call(api, key, <<<<n>>>>)}

SendingCalls ==
  Choose("SetLivoxLidarPclDataType", "PclDataType")
  \cup Choose("SetLivoxLidarScanPattern", "PatternMode")
  \cup Fixed("SetLivoxLidarDualEmit(true)", "DualEmitEn", 1)
  \cup Fixed("SetLivoxLidarDualEmit(false)", "DualEmitEn", 0)
  \cup Fixed("EnableLivoxLidarPointSend", "PointSendEn", 0)
  \cup Fixed("DisableLivoxLidarPointSend", "PointSendEn", 1)

GeometryCalls ==
  Choose("SetLivoxLidarInstallAttitude", "InstallAttitude")
  \cup Choose("SetLivoxLidarFovCfg0", "FovCfg0")
  \cup Choose("SetLivoxLidarFovCfg1", "FovCfg1")
  \cup Choose("EnableLivoxLidarFov", "FovCfgEn")
  \cup Fixed("DisableLivoxLidarFov", "FovCfgEn", 0)

DetectionCalls ==
  Choose("SetLivoxLidarDetectMode", "DetectMode")
  \cup Choose("SetLivoxLidarFuncIOCfg", "FuncIoCfg")
  \cup Choose("SetLivoxLidarBlindSpot", "BlindSpotSet")
  \cup Choose("SetLivoxLidarWorkMode", "WorkMode")

HeatCalls ==
  Fixed("EnableLivoxLidarGlassHeat", "GlassHeat", 1)
  \cup Fixed("DisableLivoxLidarGlassHeat", "GlassHeat", 0)
  \cup Choose("SetLivoxLidarGlassHeat", "GlassHeat")
  \cup Fixed("EnableLivoxLidarImuData", "ImuDataEn", 1)
  \cup Fixed("DisableLivoxLidarImuData", "ImuDataEn", 0)
  \cup Fixed("EnableLivoxLidarFusaFunciont", "FusaEn", 1)
  \cup Fixed("DisableLivoxLidarFusaFunciont", "FusaEn", 0)

ForcedHeatCalls ==
  Fixed("StartForcedHeating", "ForceHeatEn", 1)
  \cup Fixed("StopForcedHeating", "ForceHeatEn", 0)

FilterCalls ==
  Choose("SetLidarFogNoiseFilterMode", "SetFogNoiseFilter")
  \cup Choose("SetLivoxLidarITOCtrlMode", "SetITOCtrl")
  \cup Choose("SetLivoxLidarPclFreqMod", "SetPclFreqMod")
  \cup Choose("SetLivoxLidarTimeFilterMode", "SetTimeFilterMode")
  \cup Choose("SetLivoxLidarPpsSyncMode", "SetTimeFilterMode")
  \cup Choose("SetLivoxLidarImuRange", "SetImuRange")

ModeCalls ==
  Choose("SetLivoxLidarEscMode", "SetEscMode")
  \cup Choose("SetLivoxLidarFovMode", "SetFovMode")
  \cup Choose("SetLivoxLidarEchoMode", "SetEchoMode")
  \cup Choose("SetLivoxLidarLogParam", "LogParamSet")

BootCalls == Choose("SetLivoxLidarWorkModeAfterBoot", "WorkModeAfterBoot")

\* Addresses as an application writes them: the numbers between the dots.
Addresses == {<<o, 0, 0, 1>> : o \in Octets} \cup {<<o, 0, 1>> : o \in Octets}

AddressCalls ==
  {Call("SetLivoxLidarIp", "LidarIpCfg", <<a, <<255, 255, 0, 0>>, b>>) :
     a \in Addresses, b \in Addresses}
  \cup {Call("SetNTPServerIp", "SetNTPServerIp", <<a>>) : a \in Addresses}

HostCalls ==
  {Call("SetLivoxLidar*HostIPCfg", k, <<a, <<56301>>, <<56300>>>>) :
     k \in {"StateInfoHostIpCfg", "LidarPointDataHostIpCfg",
            "LidarImuHostIpCfg"}, a \in Addresses}

\* The API turns IMU data on for a point data type that stands for it.
ImuCalls == Fixed("SetLivoxLidarPclDataType(imu)", "ImuDataEn", 1)

Calls ==
  SendingCalls \cup GeometryCalls \cup DetectionCalls \cup HeatCalls
  \cup ForcedHeatCalls \cup FilterCalls \cup ModeCalls \cup BootCalls
  \cup AddressCalls \cup HostCalls \cup ImuCalls

\* What GetQueryLidarInternalInfoKeys asks of a device, by its family.
Common == {"PclDataType", "LidarIpCfg", "LidarPointDataHostIpCfg",
           "LidarImuHostIpCfg", "WorkMode", "ImuDataEn", "Sn", "VersionApp",
           "VersionLoader", "CurWorkState", "FwType"}

Mid360Keys ==
  Common \cup {"StateInfoHostIpCfg", "PatternMode", "InstallAttitude",
    "FovCfg0", "FovCfg1", "FovCfgEn", "DetectMode", "FuncIoCfg", "ProductInfo",
    "VersionHardware", "Mac", "CoreTemp", "PowerUpCnt", "LocalTimeNow",
    "LastSyncTime", "TimeOffset", "TimeSyncType", "LidarDiagStatus", "HmsCode"}

QueryKeys == [
  HAP |-> Common \cup {"PatternMode", "DualEmitEn", "PointSendEn",
    "LogHostIpCfg", "InstallAttitude", "BlindSpotSet", "GlassHeat", "FusaEn",
    "ForceHeatEn", "ProductInfo", "VersionHardware", "Mac", "StatusCode",
    "LidarDiagStatus", "LidarFlashStatus", "CurGlassHeatState"},
  Mid360 |-> Mid360Keys,
  Mid360s |-> Mid360Keys \cup {"SetEscMode", "SetTimeFilterMode",
    "SetImuRange"},
  Mid360l |-> (Mid360Keys \ {"PatternMode", "FovCfg1", "DetectMode",
    "FuncIoCfg"}) \cup {"SetEscMode", "SetTimeFilterMode", "SetPclFreqMod",
    "SetImuRange"},
  Avia2 |-> Common \cup {"StateInfoHostIpCfg", "SetFovMode", "SetEchoMode",
    "SetNTPServerIp", "SetITOCtrl", "SetFogNoiseFilter", "CoreTemp",
    "HmsCode"} ]

Queries(f) ==
  {Call("QueryLivoxLidarInternalInfo", None, QueryKeys[f]),
   Call("QueryLivoxLidarFwType", None, {"FwType"}),
   Call("QueryLivoxLidarFirmwareVer", None, {"VersionApp"})}

-------------------------------------------------------------------------------
(***************************************************************************)
(* IpToU8 takes four numbers up to 256 and stores each in a byte; other    *)
(* addresses are refused, and nothing is sent.                             *)
(***************************************************************************)
IsAddress(a) == Len(a) = 4 /\ \A i \in 1..4 : a[i] \in 0..256
IpToU8(a) == [i \in 1..4 |-> a[i] % 256]

\* BuildSet*Request convert each address of a call, or fail.
Accepted(c) ==
  c.key \in Structured =>
    \A i \in DOMAIN c.args :
      Layout[c.key][i].writer = "String" => IsAddress(c.args[i])

\* Mutant: a setter sends the length of a byte for a wider value.
Value_ByteLength(c) ==
  [ key |-> c.key, len |-> IF Len(c.args) = 1 THEN 1 ELSE Width(c.key),
    args |-> [i \in DOMAIN c.args |->
                IF c.key \in Structured /\ Layout[c.key][i].writer = "String"
                THEN IpToU8(c.args[i]) ELSE c.args[i]] ]

Value(c) ==
  [ key |-> c.key, len |-> Width(c.key),
    args |-> [i \in DOMAIN c.args |->
                IF c.key \in Structured /\ Layout[c.key][i].writer = "String"
                THEN IpToU8(c.args[i]) ELSE c.args[i]] ]

-------------------------------------------------------------------------------
VARIABLES
  family,    \* the device's family
  store,     \* the device's values, as the bytes it was given
  asked,     \* what the application passed for each key, last (history)
  last,      \* the key of the last request the device accepted
  sets,      \* calls that were accepted by the SDK
  request,   \* the request on its way
  packet,    \* the state information on its way
  published  \* what the application was told last

vars == <<family, store, asked, last, sets, request, packet, published>>

Nothing == [kind |-> "nothing"]
NoCall == Call(None, None, <<>>)

Init ==
  /\ family \in Families
  /\ store = [k \in Keys |-> [key |-> k, len |-> Width(k), args |-> Args(k, 3)]]
  /\ asked = [k \in Keys |-> Args(k, 3)]
  /\ last = None /\ sets = 0
  /\ request = NoCall /\ packet = Nothing /\ published = Nothing

Quiet == request = NoCall /\ packet = Nothing /\ published = Nothing

\* A call of the application, which sends one value, or refuses.
Set(c) ==
  /\ Quiet /\ sets < MaxSets /\ Accepted(c)
  /\ sets' = sets + 1
  /\ request' = c
  /\ UNCHANGED <<family, store, asked, last, packet, published>>

\* A query, which the device answers with the values it holds; the callback
\* gets them as they came.
Query(c) ==
  /\ Quiet
  /\ request' = c
  /\ UNCHANGED <<family, store, asked, last, sets, packet, published>>

Answer ==
  /\ request \in Queries(family)
  /\ published' = [kind |-> "answer", to |-> request.args,
                   shown |-> [k \in request.args |-> store[k].args]]
  /\ request' = NoCall
  /\ UNCHANGED <<family, store, asked, last, sets, packet>>

\* The device takes the request, or it is lost.
Accept ==
  /\ request \in Calls
  /\ store' = [store EXCEPT ![request.key] = Value(request)]
  /\ asked' = [asked EXCEPT ![request.key] = request.args]
  /\ last' = request.key
  /\ request' = NoCall
  /\ UNCHANGED <<family, sets, packet, published>>

Lose ==
  /\ request # NoCall \/ packet # Nothing
  /\ request' = NoCall /\ packet' = Nothing
  /\ UNCHANGED <<family, store, asked, last, sets, published>>

-------------------------------------------------------------------------------
(***************************************************************************)
(* State information.  The packet announces key_num values; a device of    *)
(* another version may send a value shorter or longer than the SDK's       *)
(* struct; a packet may be cut inside a value, before one, or in its       *)
(* header.  A packet holds the value of the key the application last set   *)
(* (or of any, before), alone or with another.                             *)
(***************************************************************************)
PushPort == [ HAP |-> 56000, Mid360 |-> 56200, Mid360s |-> 56200,
              Mid360l |-> 56200, Avia2 |-> 56200 ]
Ports == {56000, 56200}

ASSUME ParametersAssumption == Families \subseteq DOMAIN PushPort

Companions == {"InstallAttitude", "SetImuRange", "CurGlassHeatState"}

Shapes == {"whole", "shorter", "longer", "cut", "missing", "headless"}

\* The value v as a device, or the network, may deform it.
Deformed(v, shape) ==
  [ key |-> v.key, args |-> v.args,
    len |-> CASE shape = "shorter" -> v.len - 1
              [] shape = "longer" -> v.len + 1
              [] OTHER -> v.len,
    present |-> IF shape = "cut" THEN v.len - 1 ELSE v.len + 1 ]

Push(ks, shape, port) ==
  /\ Quiet
  /\ packet' = [ kind |-> "push", port |-> port, shape |-> shape,
                 header |-> shape # "headless",
                 keyNum |-> Len(ks) + IF shape = "missing" THEN 1 ELSE 0,
                 values |-> [i \in DOMAIN ks |->
                               Deformed(store[ks[i]],
                                        IF i = Len(ks) THEN shape
                                                       ELSE "whole")] ]
  /\ UNCHANGED <<family, store, asked, last, sets, request, published>>

\* ParseStateInfo refuses a packet as a whole.
Sound(v) ==
  v.present >= v.len /\ (v.key \in Structured => v.len >= Width(v.key))

Readable(p) ==
  /\ p.header /\ p.keyNum <= Len(p.values)
  /\ \A i \in 1..p.keyNum : Sound(p.values[i])

\* copy_value: the bytes that are there, over those of the zeroed struct.
CopyValue(old, v) ==
  [i \in DOMAIN old |->
     CASE End(v.key, i) <= v.len -> v.args[i]
       [] End(v.key, i - 1) >= v.len -> old[i]
       [] OTHER -> <<>>]

ZeroInfo == [k \in ParsedKeys |-> [i \in DOMAIN Layout[k] |-> <<0>>]]

Assign(info, v) ==
  IF v.key \in ParsedKeys
  THEN [info EXCEPT ![v.key] = CopyValue(@, v)] ELSE info

ParseStateInfo(p) ==
  LET info[n \in 0..p.keyNum] ==
        IF n = 0 THEN ZeroInfo ELSE Assign(info[n - 1], p.values[n])
  IN  info[p.keyNum]

KeyMask(p) == {p.values[i].key : i \in 1..p.keyNum} \cap ParsedKeys

\* Uint of a negative number adds 2^32, written as a second component.
Write(f, n) ==
  CASE f.writer = "Hidden" -> <<>>
    [] f.writer = "Uint" /\ Len(n) = 1 /\ n[1] < 0 -> <<n[1], 1>>
    [] OTHER -> n

LivoxLidarStateInfoToJson(info, mask) ==
  [k \in mask |-> [i \in DOMAIN Layout[k] |-> Write(Layout[k][i], info[k][i])]]

\* Mutant: the values before the unreadable one are published.
Publication_Prefix(p) ==
  LET n == Len(SelectSeq(p.values, Sound))
      q == [p EXCEPT !.keyNum = n, !.values = SubSeq(@, 1, n)]
  IN [ kind |-> "info", of |-> p,
       shown |-> LivoxLidarStateInfoToJson(ParseStateInfo(q), KeyMask(q)) ]

\* Parse leaves the string empty if it fails, and OnCommandCmd publishes it.
Publication(p) ==
  IF Readable(p)
  THEN [ kind |-> "info", of |-> p,
         shown |-> LivoxLidarStateInfoToJson(ParseStateInfo(p), KeyMask(p)) ]
  ELSE [ kind |-> "empty", of |-> p ]

OnCommandCmd ==
  /\ packet # Nothing
  /\ packet' = Nothing
  /\ published' = IF packet.port = PushPort[family] THEN Publication(packet)
                                                    ELSE published
  /\ UNCHANGED <<family, store, asked, last, sets, request>>

\* The application's callback returns.
Return ==
  /\ published # Nothing
  /\ published' = Nothing
  /\ UNCHANGED <<family, store, asked, last, sets, request, packet>>

-------------------------------------------------------------------------------
Interesting == IF last = None THEN Keys ELSE {last}

Next ==
  \/ \E c \in Calls : Set(c)
  \/ \E c \in Queries(family) : Query(c)
  \/ Accept \/ Answer \/ Lose
  \/ \E k \in Interesting, shape \in Shapes, port \in Ports :
       \/ Push(<<k>>, shape, port)
       \/ \E c \in Companions \ {k} :
            Push(<<k, c>>, shape, port) \/ Push(<<c, k>>, shape, port)
  \/ OnCommandCmd \/ Return

Spec == Init /\ [][Next]_vars

-------------------------------------------------------------------------------
(***************************************************************************)
(* Properties.                                                             *)
(***************************************************************************)

\* Every parameter holds as many fields as its struct, none of them torn.
TypeOK ==
  /\ family \in DOMAIN PushPort
  /\ request \in {NoCall} \cup Calls \cup Queries(family)
  /\ \A k \in Keys : store[k].key = k /\ Len(store[k].args) = Len(Layout[k])
  /\ packet.kind \in {"nothing", "push"}
  /\ published.kind \in {"nothing", "empty", "info", "answer"}

\* CommandImpl and ParseLidarStateInfo: what the application is told of a
\* parameter whose value arrived whole is what it passed to the setter, field
\* for field, whichever setter, address conversion and writer it went through.
\* It is false of two inputs the cfg leaves out: a negative offset (x, y or z) of
\* the installation, which the writer shows as a large positive number, and an
\* octet of 256 in an address, which IpToU8 accepts and sends as 0.
ShownAsSet ==
  published.kind = "info" =>
    \A i \in DOMAIN published.of.values :
      LET v == published.of.values[i]
          cut == published.of.shape = "shorter"
                 /\ i = Len(published.of.values)
      IN v.key \in DOMAIN published.shown /\ ~cut =>
           \A j \in DOMAIN Layout[v.key] :
             Layout[v.key][j].writer # "Hidden" =>
               published.shown[v.key][j] = asked[v.key][j]

\* ParseStateInfo and LivoxLidarStateInfoToJson: of a packet that does not hold
\* all it announces, or holds an address that is too short, nothing is shown,
\* not even what came before; and a parameter that is not in the packet is not
\* shown either (its zero would be taken for a value).
OnlyWhatArrived ==
  published.kind = "info" =>
    /\ published.of.shape \notin {"cut", "missing", "headless"}
    /\ published.of.shape = "shorter" =>
         Last(published.of.values).key \notin Structured
    /\ DOMAIN published.shown
         \subseteq {published.of.values[i].key :
                      i \in DOMAIN published.of.values}
===============================================================================
