-------------------------- MODULE Parameters_proofs --------------------------
(***************************************************************************)
(* Proofs about Parameters, for any device families and number of calls:   *)
(* the types, that nothing is shown of a packet that does not hold all it  *)
(* announces, and that every parameter is shown as it was set, for the     *)
(* addresses and the install attitudes for which that is so.               *)
(*                                                                         *)
(* End and ParseStateInfo are recursive functions: the first section shows *)
(* that there are functions of the kind they choose, by an induction that  *)
(* takes a set of numbers where NatInduction takes a predicate.            *)
(***************************************************************************)
EXTENDS Parameters, WellFoundedInduction, TLAPS

-----------------------------------------------------------------------------
\* Induction

LEMMA Induction ==
  ASSUME NEW S \in SUBSET Nat, 0 \in S, \A n \in S : n + 1 \in S
  PROVE  S = Nat
<1> SUFFICES ASSUME Nat \ S # {} PROVE FALSE
  OBVIOUS
<1>1. PICK m \in Nat \ S : \A k \in Nat \ S : <<k, m>> \notin OpToRel(<, Nat)
  BY WFMin, NatLessThanWellFounded, Zenon
<1>2. \A k \in Nat \ S : ~(k < m)
  BY <1>1, Zenon DEF OpToRel
<1>3. m # 0 /\ m - 1 \in Nat /\ m - 1 < m
  OBVIOUS
<1>4. m - 1 \in S
  BY <1>2, <1>3
<1>5. m - 1 + 1 = m
  OBVIOUS
<1>6. QED
  BY <1>4, <1>5

\* The fields of a struct end somewhere: the function that End chooses exists.
LEMMA EndExists ==
  ASSUME NEW m \in Nat, NEW layout
  PROVE  \E f : f = [n \in 0..m |-> IF n = 0 THEN 0 ELSE f[n - 1] + layout[n].width]
<1> DEFINE Good(k) == \E f : f = [n \in 0..k |->
                        IF n = 0 THEN 0 ELSE f[n - 1] + layout[n].width]
           S == {k \in Nat : Good(k)}
<1>1. 0 \in S
  <2> DEFINE f == [n \in 0..0 |-> 0]
  <2>1. f = [n \in 0..0 |-> IF n = 0 THEN 0 ELSE f[n - 1] + layout[n].width]
    OBVIOUS
  <2>2. QED
    BY <2>1
<1>2. ASSUME NEW k \in S PROVE k + 1 \in S
  <2> PICK f : f = [n \in 0..k |-> IF n = 0 THEN 0 ELSE f[n - 1] + layout[n].width]
    OBVIOUS
  <2> DEFINE g == [n \in 0..k + 1 |->
                     IF n = k + 1 THEN f[k] + layout[k + 1].width ELSE f[n]]
  <2>1. k \in Nat /\ k + 1 # 0 /\ k + 1 - 1 = k /\ 0 \in 0..k /\ k \in 0..k
    OBVIOUS
  <2>2. \A n \in 0..k + 1 : g[n] = IF n = 0 THEN 0 ELSE g[n - 1] + layout[n].width
    <3> TAKE n \in 0..k + 1
    <3>1. CASE n = k + 1
      BY <2>1, <3>1
    <3>2. CASE n # k + 1
      <4>1. n \in 0..k /\ (n # 0 => n - 1 \in 0..k /\ n - 1 # k + 1)
        BY <2>1, <3>2
      <4>2. QED
        BY <3>2, <4>1
    <3>3. QED
      BY <3>1, <3>2
  <2>3. g = [n \in 0..k + 1 |-> IF n = 0 THEN 0 ELSE g[n - 1] + layout[n].width]
    BY <2>2, Zenon
  <2> HIDE DEF g
  <2>4. QED
    BY <2>1, <2>3
<1> HIDE DEF S
<1>3. S = Nat
  <2>1. S \in SUBSET Nat
    BY DEF S
  <2>2. QED
    BY <1>1, <1>2, <2>1, Induction
<1>4. QED
  BY <1>3 DEF S

\* The values of a packet can be read one after the other.
LEMMA ParseExists ==
  ASSUME NEW m \in Nat, NEW values
  PROVE  \E f : f = [n \in 0..m |-> IF n = 0 THEN ZeroInfo ELSE Assign(f[n - 1], values[n])]
<1> DEFINE Good(k) == \E f : f = [n \in 0..k |->
                        IF n = 0 THEN ZeroInfo ELSE Assign(f[n - 1], values[n])]
           S == {k \in Nat : Good(k)}
<1>1. 0 \in S
  <2> DEFINE f == [n \in 0..0 |-> ZeroInfo]
  <2>1. f = [n \in 0..0 |-> IF n = 0 THEN ZeroInfo ELSE Assign(f[n - 1], values[n])]
    OBVIOUS
  <2>2. QED
    BY <2>1
<1>2. ASSUME NEW k \in S PROVE k + 1 \in S
  <2> PICK f : f = [n \in 0..k |-> IF n = 0 THEN ZeroInfo ELSE Assign(f[n - 1], values[n])]
    OBVIOUS
  <2> DEFINE g == [n \in 0..k + 1 |->
                     IF n = k + 1 THEN Assign(f[k], values[k + 1]) ELSE f[n]]
  <2>1. k \in Nat /\ k + 1 # 0 /\ k + 1 - 1 = k /\ 0 \in 0..k /\ k \in 0..k
    OBVIOUS
  <2>2. \A n \in 0..k + 1 : g[n] = IF n = 0 THEN ZeroInfo ELSE Assign(g[n - 1], values[n])
    <3> TAKE n \in 0..k + 1
    <3>1. CASE n = k + 1
      BY <2>1, <3>1
    <3>2. CASE n # k + 1
      <4>1. n \in 0..k /\ (n # 0 => n - 1 \in 0..k /\ n - 1 # k + 1)
        BY <2>1, <3>2
      <4>2. QED
        BY <3>2, <4>1
    <3>3. QED
      BY <3>1, <3>2
  <2>3. g = [n \in 0..k + 1 |-> IF n = 0 THEN ZeroInfo ELSE Assign(g[n - 1], values[n])]
    BY <2>2, Zenon
  <2> HIDE DEF g
  <2>4. QED
    BY <2>1, <2>3
<1> HIDE DEF S
<1>3. S = Nat
  <2>1. S \in SUBSET Nat
    BY DEF S
  <2>2. QED
    BY <1>1, <1>2, <2>1, Induction
<1>4. QED
  BY <1>3 DEF S

-----------------------------------------------------------------------------
\* Keys and layouts

LEMMA LargeKeys == DOMAIN Setting \subseteq Keys
  BY DEF Keys

\* A field has a width.
Wide(f) == f.width \in Nat /\ f.width > 0

\* The fields of a layout are numbered, and each has a width.
Fitting(layout) ==
  /\ Len(layout) \in Nat
  /\ DOMAIN layout = 1..Len(layout)
  /\ \A i \in 1..Len(layout) : Wide(layout[i])

\* A layout written field by field.
LEMMA OneField ==
  ASSUME NEW a, Wide(a)
  PROVE  Fitting(<<a>>)
  BY DEF Fitting

LEMMA ThreeFields ==
  ASSUME NEW a, Wide(a), NEW b, Wide(b), NEW c, Wide(c)
  PROVE  Fitting(<<a, b, c>>)
  BY DEF Fitting

LEMMA FourFields ==
  ASSUME NEW a, Wide(a), NEW b, Wide(b), NEW c, Wide(c),
         NEW d, Wide(d)
  PROVE  Fitting(<<a, b, c, d>>)
  BY DEF Fitting

LEMMA FiveFields ==
  ASSUME NEW a, Wide(a), NEW b, Wide(b), NEW c, Wide(c),
         NEW d, Wide(d), NEW e, Wide(e)
  PROVE  Fitting(<<a, b, c, d, e>>)
  BY DEF Fitting

LEMMA SixFields ==
  ASSUME NEW a, Wide(a), NEW b, Wide(b), NEW c, Wide(c),
         NEW d, Wide(d), NEW e, Wide(e), NEW f, Wide(f)
  PROVE  Fitting(<<a, b, c, d, e, f>>)
  BY DEF Fitting

LEMMA SettingFields ==
  ASSUME NEW k \in DOMAIN Setting
  PROVE  Fitting(Setting[k])
<1>1. Fitting(Fov)
  BY FiveFields DEF Wide, I, Field, Fov
<1>2. Fitting(Setting.LidarIpCfg)
  BY ThreeFields DEF Wide, Ip, Field, Setting
<1>3. Fitting(Setting.SetNTPServerIp)
  BY OneField DEF Wide, Ip, Field, Setting
<1>4. Fitting(Setting.VehicleSpeed)
  BY OneField DEF Wide, I, Field, Setting
<1>5. Fitting(Setting.EnvironmentTemp)
  BY OneField DEF Wide, I, Field, Setting
<1>6. Fitting(Setting.InstallAttitude)
  BY SixFields DEF Wide, Angle, Coordinate, Field, Setting
<1>7. Fitting(Setting.BlindSpotSet)
  BY OneField DEF Wide, U, Field, Setting
<1>8. Fitting(Setting.FovCfg0)
  BY <1>1 DEF Setting
<1>9. Fitting(Setting.FovCfg1)
  BY <1>1 DEF Setting
<1>10. Fitting(Setting.FuncIoCfg)
  BY FourFields DEF Wide, U, Field, Setting
<1>11. Fitting(Setting.SetImuRange)
  BY ThreeFields DEF Wide, U, Field, Setting
<1>12. Fitting(Setting.LogParamSet)
  BY FiveFields DEF Wide, U, Field, Setting
<1>13. k \in {"LidarIpCfg", "SetNTPServerIp", "VehicleSpeed", "EnvironmentTemp",
             "InstallAttitude", "BlindSpotSet", "FovCfg0", "FovCfg1", "FuncIoCfg",
             "SetImuRange", "LogParamSet"}
  BY DEF Setting
<1>14. QED
  BY <1>2, <1>3, <1>4, <1>5, <1>6, <1>7, <1>8, <1>9, <1>10, <1>11, <1>12, <1>13

LEMMA StatusFields ==
  ASSUME NEW k \in DOMAIN Status
  PROVE  Fitting(Status[k])
<1>1. Fitting(Status.Sn)
  BY OneField DEF Wide, Text, Field, Status
<1>2. Fitting(Status.ProductInfo)
  BY OneField DEF Wide, Text, Field, Status
<1>3. Fitting(Status.VersionApp)
  BY OneField DEF Wide, Text, Field, Status
<1>4. Fitting(Status.VersionLoader)
  BY OneField DEF Wide, Text, Field, Status
<1>5. Fitting(Status.VersionHardware)
  BY OneField DEF Wide, Text, Field, Status
<1>6. Fitting(Status.Mac)
  BY OneField DEF Wide, Text, Field, Status
<1>7. Fitting(Status.CoreTemp)
  BY OneField DEF Wide, I, Field, Status
<1>8. Fitting(Status.PowerUpCnt)
  BY OneField DEF Wide, U, Field, Status
<1>9. Fitting(Status.LocalTimeNow)
  BY OneField DEF Wide, U, Field, Status
<1>10. Fitting(Status.LastSyncTime)
  BY OneField DEF Wide, U, Field, Status
<1>11. Fitting(Status.TimeOffset)
  BY OneField DEF Wide, I, Field, Status
<1>12. Fitting(Status.StatusCode)
  BY OneField DEF Wide, Text, Field, Status
<1>13. Fitting(Status.LidarDiagStatus)
  BY OneField DEF Wide, U, Field, Status
<1>14. Fitting(Status.HmsCode)
  <2> DEFINE codes == [i \in 1..8 |-> U("hms_code", 4)]
  <2>1. Status.HmsCode = codes
    BY DEF Status
  <2>2. Len(codes) = 8 /\ DOMAIN codes = 1..8 /\ \A i \in 1..8 : codes[i] = U("hms_code", 4)
    OBVIOUS
  <2>3. Wide(U("hms_code", 4))
    BY DEF Wide, U, Field
  <2> HIDE DEF codes
  <2>4. Fitting(codes)
    BY <2>2, <2>3 DEF Fitting
  <2>5. QED
    BY <2>1, <2>4
<1>15. k \in {"Sn", "ProductInfo", "VersionApp", "VersionLoader", "VersionHardware",
             "Mac", "CoreTemp", "PowerUpCnt", "LocalTimeNow", "LastSyncTime",
             "TimeOffset", "StatusCode", "LidarDiagStatus", "HmsCode"}
  BY DEF Status
<1>16. QED
  BY <1>1, <1>2, <1>3, <1>4, <1>5, <1>6, <1>7, <1>8, <1>9, <1>10, <1>11, <1>12,
     <1>13, <1>14, <1>15

LEMMA LayoutFields ==
  ASSUME NEW k \in Keys
  PROVE  Fitting(Layout[k])
<1>1. CASE k \in DOMAIN Setting
  BY <1>1, SettingFields DEF Layout
<1>2. CASE k \notin DOMAIN Setting /\ k \in DOMAIN Status
  BY <1>2, StatusFields DEF Layout
<1>3. CASE k \notin DOMAIN Setting /\ k \notin DOMAIN Status
  <2>1. Layout[k] = Host \/ Layout[k] = <<U(k, 1)>>
    BY <1>3 DEF Layout
  <2>2. QED
    BY <2>1, OneField, ThreeFields DEF Wide, Host, U, Ip, Field
<1>4. QED
  BY <1>1, <1>2, <1>3

\* The fields of a struct end inside it.
LEMMA Ends ==
  ASSUME NEW k \in Keys
  PROVE  /\ Width(k) \in Nat
         /\ \A i \in DOMAIN Layout[k] :
              /\ End(k, i) \in Nat /\ End(k, i) <= Width(k)
              /\ End(k, i - 1) \in Nat /\ End(k, i - 1) < End(k, i)
<1> DEFINE m == Len(Layout[k])
           Is(f) == f = [n \in 0..m |-> IF n = 0 THEN 0 ELSE f[n - 1] + Layout[k][n].width]
           e == CHOOSE f : Is(f)
<1>1. m \in Nat /\ DOMAIN Layout[k] = 1..m /\ \A n \in 1..m : Layout[k][n].width \in Nat \ {0}
  BY LayoutFields DEF Fitting, Wide
<1>2. Is(e)
  <2>1. \E f : Is(f)
    BY <1>1, EndExists
  <2>2. QED
    BY <2>1, Zenon
<1>3. \A i : End(k, i) = e[i]
  BY DEF End
<1>4. Width(k) = e[m]
  BY <1>3 DEF Width
<1>5. e[0] = 0 /\ \A n \in 1..m : e[n] = e[n - 1] + Layout[k][n].width
  <2>1. \A n \in 0..m : e[n] = IF n = 0 THEN 0 ELSE e[n - 1] + Layout[k][n].width
    BY <1>2, Zenon
  <2>2. QED
    BY <1>1, <2>1
<1> HIDE DEF e
<1> DEFINE Up(n) == n <= m => e[n] \in Nat /\ \A i \in 0..n : e[i] \in Nat /\ e[i] <= e[n]
           S == {n \in Nat : Up(n)}
<1>6. 0 \in S
  BY <1>1, <1>5
<1>7. ASSUME NEW n \in S PROVE n + 1 \in S
  <2> SUFFICES ASSUME n + 1 <= m
               PROVE  /\ e[n + 1] \in Nat
                      /\ \A i \in 0..n + 1 : e[i] \in Nat /\ e[i] <= e[n + 1]
    OBVIOUS
  <2>1. n \in Nat /\ n <= m /\ n + 1 \in 1..m /\ n + 1 - 1 = n
    BY <1>1
  <2>2. e[n] \in Nat /\ \A i \in 0..n : e[i] \in Nat /\ e[i] <= e[n]
    BY <2>1
  <2>3. e[n + 1] = e[n] + Layout[k][n + 1].width /\ Layout[k][n + 1].width \in Nat
    BY <1>1, <1>5, <2>1
  <2>4. e[n + 1] \in Nat /\ e[n] <= e[n + 1]
    BY <2>2, <2>3
  <2>5. ASSUME NEW i \in 0..n + 1 PROVE e[i] \in Nat /\ e[i] <= e[n + 1]
    <3>1. i = n + 1 \/ i \in 0..n
      BY <2>1
    <3>2. CASE i = n + 1
      BY <2>4, <3>2
    <3>3. CASE i \in 0..n
      <4>1. e[i] \in Nat /\ e[i] <= e[n] /\ e[n] \in Nat
        BY <2>2, <3>3
      <4>2. \A a, b, c \in Nat : a <= b /\ b <= c => a <= c
        OBVIOUS
      <4>3. QED
        BY <2>4, <4>1, <4>2, Zenon
    <3>4. QED
      BY <3>1, <3>2, <3>3
  <2>6. QED
    BY <2>4, <2>5
<1> HIDE DEF S
<1>8. S = Nat
  <2>1. S \in SUBSET Nat
    BY DEF S
  <2>2. QED
    BY <1>6, <1>7, <2>1, Induction
<1>9. Up(m)
  BY <1>1, <1>8 DEF S
<1>10. e[m] \in Nat /\ \A i \in 0..m : e[i] \in Nat /\ e[i] <= e[m]
  BY <1>1, <1>9
<1>11. \A i \in 1..m : i \in 0..m /\ i - 1 \in 0..m /\ e[i - 1] < e[i]
  BY <1>1, <1>5, <1>10
<1>12. QED
  BY <1>1, <1>3, <1>4, <1>10, <1>11

-----------------------------------------------------------------------------
\* The invariant

\* A device holds, under each key, a value of the length of its struct.
StoreOK ==
  /\ DOMAIN store = Keys
  /\ \A k \in Keys : store[k].key = k /\ store[k].len = Width(k)

\* The history names a parameter.
KeysOK == last # None => last \in Keys

\* A value of a packet is one the device holds, in full unless it is the last
\* and the packet deforms it.
Carries(p, i) ==
  LET v == p.values[i]
      end == i = Len(p.values)
  IN  /\ v.key \in Keys /\ v.args = store[v.key].args
      /\ v.len \in Int
      /\ v.len < Width(v.key) => end /\ p.shape = "shorter"
      /\ end /\ p.shape = "shorter" => v.len < Width(v.key)
      /\ end /\ p.shape = "cut" => v.present = v.len - 1

Arriving(p) ==
  /\ Len(p.values) \in Nat \ {0}
  /\ DOMAIN p.values = 1..Len(p.values)
  /\ p.keyNum = IF p.shape = "missing" THEN Len(p.values) + 1 ELSE Len(p.values)
  /\ p.shape = "headless" => ~p.header
  /\ \A i \in 1..Len(p.values) : Carries(p, i)
  /\ \A i, j \in 1..Len(p.values) :
       p.values[i].key = p.values[j].key => i = j

PacketOK ==
  \/ packet = Nothing
  \/ packet.kind = "push" /\ Arriving(packet)

\* No request is on its way while a packet is, or the application is told.
OneAtATime == request # NoCall => packet = Nothing /\ published = Nothing

IInv == StoreOK /\ KeysOK /\ PacketOK /\ OneAtATime

-----------------------------------------------------------------------------
\* What the calls pass: values of the application, a byte the SDK chooses, or
\* addresses.

Chosen(c) ==
  c.key \in Keys \ Structured /\ \E s \in Seeds : c.args = Args(c.key, s)

Byte(c) ==
  c.key \in Small \cup Opaque /\ \E n \in {0, 1} : c.args = <<<<n>>>>

Masks == Addresses \cup {<<255, 255, 0, 0>>}

Addressed(c) ==
  \/ c.key = "LidarIpCfg" /\ \E a, b, d \in Masks : c.args = <<a, b, d>>
  \/ c.key = "SetNTPServerIp" /\ \E a \in Masks : c.args = <<a>>
  \/ c.key \in Hosts /\ \E a \in Masks : c.args = <<a, <<56301>>, <<56300>>>>

LEMMA PlainKeys ==
  /\ Small \cup Opaque \subseteq Keys \ Structured
  /\ DOMAIN Setting \ {"LidarIpCfg", "SetNTPServerIp"} \subseteq Keys \ Structured
<1>1. ASSUME NEW k \in Small \cup Opaque PROVE k \in Keys \ Structured
  BY DEF Keys, Small, Opaque, Structured, Hosts
<1>2. ASSUME NEW k \in DOMAIN Setting, k \notin {"LidarIpCfg", "SetNTPServerIp"}
      PROVE  k \in Keys \ Structured
  <2>1. k \notin Hosts
    BY DEF Setting, Hosts
  <2>2. QED
    BY <1>2, <2>1, LargeKeys DEF Structured
<1>3. QED
  BY <1>1, <1>2

LEMMA ChooseForm ==
  ASSUME NEW api, NEW k \in Keys \ Structured, NEW c \in Choose(api, k)
  PROVE  Chosen(c)
  BY DEF Choose, Call, Chosen

LEMMA FixedForm ==
  ASSUME NEW api, NEW k \in Small \cup Opaque, NEW n \in {0, 1},
         NEW c \in Fixed(api, k, n)
  PROVE  Byte(c)
<1>1. c.key = k /\ c.args = <<<<n>>>>
  BY DEF Fixed, Call
<1>2. QED
  BY <1>1 DEF Byte

LEMMA AddressForm ==
  ASSUME NEW c \in AddressCalls \cup HostCalls
  PROVE  Addressed(c)
<1> DEFINE keys == {"StateInfoHostIpCfg", "LidarPointDataHostIpCfg", "LidarImuHostIpCfg"}
           host(k, a) == Call("SetLivoxLidar*HostIPCfg", k, <<a, <<56301>>, <<56300>>>>)
           ip(a, b) == Call("SetLivoxLidarIp", "LidarIpCfg", <<a, <<255, 255, 0, 0>>, b>>)
           server(a) == Call("SetNTPServerIp", "SetNTPServerIp", <<a>>)
<1>1. /\ HostCalls = {host(k, a) : k \in keys, a \in Addresses}
      /\ AddressCalls = {ip(a, b) : a \in Addresses, b \in Addresses}
                           \cup {server(a) : a \in Addresses}
  BY DEF HostCalls, AddressCalls
<1>2. ASSUME NEW k \in keys, NEW a \in Addresses PROVE Addressed(host(k, a))
  <2>1. k \in Hosts /\ a \in Masks
    BY DEF Hosts, Masks
  <2>2. host(k, a).key = k /\ host(k, a).args = <<a, <<56301>>, <<56300>>>>
    BY DEF Call
  <2> HIDE DEF host
  <2>3. QED
    BY <2>1, <2>2 DEF Addressed
<1>3. ASSUME NEW a \in Addresses, NEW b \in Addresses PROVE Addressed(ip(a, b))
  <2>1. a \in Masks /\ b \in Masks /\ <<255, 255, 0, 0>> \in Masks
    BY DEF Masks
  <2>2. ip(a, b).key = "LidarIpCfg" /\ ip(a, b).args = <<a, <<255, 255, 0, 0>>, b>>
    BY DEF Call
  <2> HIDE DEF ip
  <2>3. QED
    BY <2>1, <2>2 DEF Addressed
<1>4. ASSUME NEW a \in Addresses PROVE Addressed(server(a))
  BY DEF Call, Masks, Addressed
<1> HIDE DEF host, ip, server, keys
<1>5. QED
  BY <1>1, <1>2, <1>3, <1>4

LEMMA CallForms ==
  ASSUME NEW c \in Calls
  PROVE  Chosen(c) \/ Byte(c) \/ Addressed(c)
<1>1. CASE c \in SendingCalls
  BY <1>1, PlainKeys, ChooseForm, FixedForm DEF SendingCalls, Small
<1>2. CASE c \in GeometryCalls
  BY <1>2, PlainKeys, ChooseForm, FixedForm DEF GeometryCalls, Small, Setting
<1>3. CASE c \in DetectionCalls
  BY <1>3, PlainKeys, ChooseForm DEF DetectionCalls, Small, Setting
<1>4. CASE c \in HeatCalls
  BY <1>4, PlainKeys, ChooseForm, FixedForm DEF HeatCalls, Small
<1>5. CASE c \in ForcedHeatCalls \cup BootCalls
  BY <1>5, PlainKeys, ChooseForm, FixedForm DEF ForcedHeatCalls, BootCalls, Opaque
<1>6. CASE c \in FilterCalls
  BY <1>6, PlainKeys, ChooseForm DEF FilterCalls, Small, Setting
<1>7. CASE c \in ModeCalls
  BY <1>7, PlainKeys, ChooseForm DEF ModeCalls, Small, Setting
<1>8. CASE c \in AddressCalls \cup HostCalls
  BY <1>8, AddressForm
<1>9. CASE c \in ImuCalls
  BY <1>9, FixedForm DEF ImuCalls, Small
<1>10. QED
  BY <1>1, <1>2, <1>3, <1>4, <1>5, <1>6, <1>7, <1>8, <1>9 DEF Calls

LEMMA CallKeys == ASSUME NEW c \in Calls PROVE c.key \in Keys
<1>1. Hosts \subseteq Keys /\ "LidarIpCfg" \in Keys /\ "SetNTPServerIp" \in Keys
  <2>1. "LidarIpCfg" \in DOMAIN Setting /\ "SetNTPServerIp" \in DOMAIN Setting
    BY DEF Setting
  <2>2. QED
    BY <2>1 DEF Keys
<1>2. QED
  BY <1>1, CallForms, PlainKeys DEF Chosen, Byte, Addressed

LEMMA CallsAreCalls == NoCall \notin Calls
<1>1. None \notin Keys
  BY DEF None, Keys, Small, Opaque, Hosts, Setting, Status
<1>2. QED
  BY <1>1, CallKeys DEF NoCall, Call

-----------------------------------------------------------------------------
\* The invariant holds

LEMMA InitIInv == Init => IInv
<1> SUFFICES ASSUME Init PROVE IInv
  OBVIOUS
<1>1. StoreOK
  BY DEF Init, StoreOK
<1>2. KeysOK /\ PacketOK /\ OneAtATime
  BY DEF Init, KeysOK, PacketOK, OneAtATime
<1>3. QED
  BY <1>1, <1>2 DEF IInv

\* What a push may hold beside the parameter in question.
LEMMA CompanionKeys == ASSUME NEW c \in Companions PROVE c \in Keys
<1>1. "InstallAttitude" \in DOMAIN Setting /\ "SetImuRange" \in DOMAIN Setting
  BY DEF Setting
<1>2. "CurGlassHeatState" \in Opaque /\ Opaque \subseteq Keys
  BY DEF Opaque, Keys
<1>3. c \in {"InstallAttitude", "SetImuRange", "CurGlassHeatState"}
  BY DEF Companions
<1>4. QED
  BY <1>1, <1>2, <1>3, LargeKeys, Zenon

\* A value as it is sent.
LEMMA DeformedFacts ==
  ASSUME StoreOK, NEW k \in Keys, NEW shape \in Shapes
  PROVE  LET v == Deformed(store[k], shape)
         IN  /\ v.key = k /\ v.args = store[k].args /\ v.len \in Int
             /\ v.len < Width(k) <=> shape = "shorter"
             /\ shape = "cut" => v.present = v.len - 1
<1>1. Width(k) \in Nat /\ store[k].key = k /\ store[k].len = Width(k)
  BY Ends DEF StoreOK
<1>2. QED
  BY <1>1 DEF Deformed, Shapes

\* One key, or two.
Pushed(ks) ==
  /\ Len(ks) \in {1, 2} /\ DOMAIN ks = 1..Len(ks)
  /\ \A i \in 1..Len(ks) : ks[i] \in Keys
  /\ \A i, j \in 1..Len(ks) : ks[i] = ks[j] => i = j

LEMMA PushArrives ==
  ASSUME StoreOK, NEW ks, Pushed(ks),
         NEW shape \in Shapes, NEW port, Push(ks, shape, port)
  PROVE  PacketOK'
<1> USE DEF Pushed
<1> DEFINE n == Len(ks)
           as(i) == IF i = n THEN shape ELSE "whole"
           values == [i \in DOMAIN ks |-> Deformed(store[ks[i]], as(i))]
<1>1. /\ packet'.kind = "push" /\ packet'.shape = shape
      /\ packet'.header = (shape # "headless")
      /\ packet'.keyNum = n + IF shape = "missing" THEN 1 ELSE 0
      /\ packet'.values = values
  BY DEF Push
<1>2. store' = store
  BY DEF Push
<1>3. n \in Nat \ {0} /\ Len(values) = n /\ DOMAIN values = 1..n
  OBVIOUS
<1>4. ASSUME NEW i \in 1..n
      PROVE  /\ values[i] = Deformed(store[ks[i]], as(i))
             /\ ks[i] \in Keys /\ as(i) \in Shapes
  BY <1>3 DEF Shapes
<1>5. ASSUME NEW i \in 1..n
      PROVE  LET v == values[i]
             IN  /\ v.key = ks[i] /\ v.args = store[ks[i]].args /\ v.len \in Int
                 /\ v.len < Width(ks[i]) <=> as(i) = "shorter"
                 /\ as(i) = "cut" => v.present = v.len - 1
  <2>1. values[i] = Deformed(store[ks[i]], as(i)) /\ ks[i] \in Keys /\ as(i) \in Shapes
    BY <1>4
  <2> DEFINE s == as(i)
             k == ks[i]
             w == values[i]
  <2>2. w = Deformed(store[k], s) /\ k \in Keys /\ s \in Shapes
    BY <2>1
  <2> HIDE DEF as, values, s, k, w
  <2>3. /\ w.key = k /\ w.args = store[k].args /\ w.len \in Int
        /\ w.len < Width(k) <=> s = "shorter"
        /\ s = "cut" => w.present = w.len - 1
    BY <2>2, DeformedFacts
  <2>4. QED
    BY <2>3 DEF s, k, w
<1>6. ASSUME NEW i \in 1..n PROVE Carries(packet, i)'
  <2>1. Len(packet'.values) = n /\ packet'.values[i] = values[i]
    BY <1>1, <1>3, Zenon
  <2>2. (i = n => as(i) = shape) /\ (i # n => as(i) = "whole")
    OBVIOUS
  <2> HIDE DEF as, values, n
  <2>3. QED
    BY <1>1, <1>2, <1>4, <1>5, <2>1, <2>2 DEF Carries
<1>7. Len(packet'.values) = n /\ DOMAIN packet'.values = 1..n
  BY <1>1, <1>3, Zenon
<1>8. packet'.keyNum = IF packet'.shape = "missing" THEN n + 1 ELSE n
  BY <1>1, <1>3
<1>9. packet'.shape = "headless" => ~packet'.header
  BY <1>1, Zenon
<1>10. \A i, j \in 1..n : packet'.values[i].key = packet'.values[j].key => i = j
  <2>1. \A i \in 1..n : packet'.values[i].key = ks[i]
    BY <1>1, <1>5, Zenon
  <2>2. QED
    BY <2>1
<1> HIDE DEF n, values, as
<1>11. Arriving(packet)'
  BY <1>3, <1>6, <1>7, <1>8, <1>9, <1>10 DEF Arriving
<1>12. QED
  BY <1>1, <1>11 DEF PacketOK

LEMMA NextIInv == IInv /\ [Next]_vars => IInv'
<1> SUFFICES ASSUME IInv, [Next]_vars PROVE IInv'
  OBVIOUS
<1> USE DEF IInv
<1>1. ASSUME store' = store, packet' = packet PROVE StoreOK' /\ PacketOK'
  BY <1>1 DEF StoreOK, PacketOK, Arriving, Carries
<1>2. ASSUME NEW c, Set(c) \/ Query(c) PROVE IInv'
  <2>1. KeysOK' /\ OneAtATime'
    BY <1>2 DEF Set, Query, Quiet, KeysOK, OneAtATime
  <2>2. QED
    BY <1>1, <1>2, <2>1 DEF Set, Query
<1>3. CASE Accept
  <2>1. request.key \in Keys /\ Value(request).key = request.key
        /\ Value(request).len = Width(request.key)
    BY <1>3, CallKeys DEF Accept, Value
  <2>2. packet = Nothing
    BY <1>3, CallsAreCalls DEF Accept, OneAtATime
  <2>3. StoreOK'
    BY <1>3, <2>1 DEF Accept, StoreOK
  <2>4. KeysOK' /\ OneAtATime'
    BY <1>3, <2>1 DEF Accept, KeysOK, OneAtATime
  <2>5. QED
    BY <1>3, <2>2, <2>3, <2>4 DEF Accept, PacketOK
<1>4. CASE Answer \/ Return
  <2>1. KeysOK' /\ OneAtATime'
    BY <1>4 DEF Answer, Return, KeysOK, OneAtATime
  <2>2. QED
    BY <1>1, <1>4, <2>1 DEF Answer, Return
<1>5. CASE Lose \/ OnCommandCmd
  BY <1>5 DEF Lose, OnCommandCmd, StoreOK, KeysOK, PacketOK, OneAtATime
<1>6. ASSUME NEW ks, NEW shape \in Shapes, NEW port, Push(ks, shape, port),
             Pushed(ks)
      PROVE  IInv'
  <2>1. StoreOK
    OBVIOUS
  <2> HIDE DEF IInv
  <2>2. PacketOK'
    BY <1>6, <2>1, PushArrives
  <2>3. QED
    BY <1>6, <2>2 DEF IInv, Push, Quiet, StoreOK, KeysOK, OneAtATime
<1>7. ASSUME NEW k \in Interesting, NEW shape \in Shapes, NEW port \in Ports,
             \/ Push(<<k>>, shape, port)
             \/ \E c \in Companions \ {k} :
                  Push(<<k, c>>, shape, port) \/ Push(<<c, k>>, shape, port)
      PROVE  IInv'
  <2>1. k \in Keys
    BY DEF Interesting, KeysOK
  <2>2. ASSUME Push(<<k>>, shape, port) PROVE IInv'
    <3> DEFINE ks == <<k>>
    <3>1. Pushed(ks)
      BY <2>1 DEF Pushed
    <3>2. QED
      BY <1>6, <2>2, <3>1
  <2>3. ASSUME NEW a \in Keys, NEW b \in Keys \ {a}, Push(<<a, b>>, shape, port)
        PROVE  IInv'
    <3> DEFINE ks == <<a, b>>
    <3>1. Pushed(ks)
      BY DEF Pushed
    <3>2. QED
      BY <1>6, <2>3, <3>1
  <2>4. QED
    BY <1>7, <2>1, <2>2, <2>3, CompanionKeys
<1>8. CASE UNCHANGED vars
  BY <1>1, <1>8 DEF vars, KeysOK, OneAtATime
<1>9. QED
  BY <1>2, <1>3, <1>4, <1>5, <1>7, <1>8 DEF Next

-----------------------------------------------------------------------------
\* What is published of a packet

LEMMA PublicationFacts ==
  ASSUME NEW p, Arriving(p), Publication(p).kind = "info"
  PROVE  /\ Publication(p).of = p
         /\ Publication(p).shown
              = LivoxLidarStateInfoToJson(ParseStateInfo(p), KeyMask(p))
         /\ p.keyNum = Len(p.values)
         /\ p.shape \notin {"cut", "missing", "headless"}
         /\ p.shape = "shorter" => Last(p.values).key \notin Structured
         /\ DOMAIN Publication(p).shown = KeyMask(p)
         /\ KeyMask(p) \subseteq {p.values[i].key : i \in DOMAIN p.values}
<1> DEFINE n == Len(p.values)
<1>1. Readable(p)
  BY DEF Publication
<1>2. /\ Publication(p).of = p
      /\ Publication(p).shown
           = LivoxLidarStateInfoToJson(ParseStateInfo(p), KeyMask(p))
  BY <1>1 DEF Publication
<1>3. DOMAIN Publication(p).shown = KeyMask(p)
  BY <1>2 DEF LivoxLidarStateInfoToJson
<1>4. /\ n \in Nat \ {0} /\ DOMAIN p.values = 1..n
      /\ Carries(p, n)
      /\ p.shape = "headless" => ~p.header
      /\ p.keyNum = IF p.shape = "missing" THEN n + 1 ELSE n
  BY DEF Arriving
<1>5. p.header /\ p.keyNum <= n /\ \A i \in 1..p.keyNum : Sound(p.values[i])
  BY <1>1 DEF Readable
<1> HIDE DEF n
<1>6. p.keyNum = n /\ p.shape # "missing"
  BY <1>4, <1>5
<1>7. p.shape # "headless"
  BY <1>4, <1>5, Zenon
<1>8. Last(p.values) = p.values[n] /\ Sound(p.values[n])
  BY <1>4, <1>5, <1>6 DEF Last, n
<1>9. p.shape # "cut"
  <2> SUFFICES ASSUME p.shape = "cut" PROVE FALSE
    OBVIOUS
  <2>1. p.values[n].present = p.values[n].len - 1 /\ p.values[n].len \in Int
    BY <1>4 DEF Carries, n
  <2>2. p.values[n].present \geq p.values[n].len
    BY <1>8, Zenon DEF Sound
  <2>3. QED
    BY <2>1, <2>2
<1>10. p.shape = "shorter" => Last(p.values).key \notin Structured
  <2> SUFFICES ASSUME p.shape = "shorter" PROVE p.values[n].key \notin Structured
    BY <1>8
  <2>1. /\ p.values[n].len < Width(p.values[n].key) /\ p.values[n].len \in Int
        /\ Width(p.values[n].key) \in Nat
    BY <1>4, Ends DEF Carries, n
  <2>2. QED
    BY <1>8, <2>1 DEF Sound
<1>11. KeyMask(p) \subseteq {p.values[i].key : i \in DOMAIN p.values}
  BY <1>4, <1>6 DEF KeyMask
<1>12. QED
  BY <1>2, <1>3, <1>6, <1>7, <1>9, <1>10, <1>11 DEF n

(***************************************************************************)
(* ParseStateInfo and LivoxLidarStateInfoToJson: whatever the calls and    *)
(* the packets were, nothing is shown of a packet that is cut or announces *)
(* more than it holds, or whose address is short, and of another only the  *)
(* parameters in it.                                                       *)
(***************************************************************************)
THEOREM ShowsWhatArrived == Spec => []OnlyWhatArrived
<1>1. Init => OnlyWhatArrived
  BY DEF Init, OnlyWhatArrived, Nothing
<1>2. IInv /\ OnlyWhatArrived /\ [Next]_vars => OnlyWhatArrived'
  <2> SUFFICES ASSUME IInv, OnlyWhatArrived, [Next]_vars PROVE OnlyWhatArrived'
    OBVIOUS
  <2>1. ASSUME published' = published PROVE OnlyWhatArrived'
    BY <2>1 DEF OnlyWhatArrived
  <2>2. CASE Answer \/ Return
    BY <2>2 DEF Answer, Return, OnlyWhatArrived, Nothing
  <2>3. CASE OnCommandCmd
    <3>1. CASE published' = published
      BY <2>1, <3>1
    <3>2. CASE published' = Publication(packet)
      <4>1. Arriving(packet)
        BY <2>3 DEF IInv, PacketOK, OnCommandCmd
      <4>2. QED
        BY <3>2, <4>1, PublicationFacts DEF OnlyWhatArrived
    <3>3. QED
      BY <2>3, <3>1, <3>2 DEF OnCommandCmd
  <2>4. CASE UNCHANGED vars
    BY <2>1, <2>4 DEF vars
  <2>5. CASE Accept \/ Lose
    BY <2>1, <2>5 DEF Accept, Lose
  <2>6. ASSUME NEW c, Set(c) \/ Query(c) PROVE OnlyWhatArrived'
    BY <2>1, <2>6 DEF Set, Query
  <2>7. ASSUME NEW ks, NEW shape, NEW port, Push(ks, shape, port) PROVE OnlyWhatArrived'
    BY <2>1, <2>7 DEF Push
  <2>8. QED
    BY <2>2, <2>3, <2>4, <2>5, <2>6, <2>7 DEF Next
<1>3. QED
  BY <1>1, <1>2, InitIInv, NextIInv, PTL DEF Spec

-----------------------------------------------------------------------------
\* Types

LEMMA ArgsFit ==
  ASSUME NEW k \in Keys, NEW s
  PROVE  Len(Args(k, s)) = Len(Layout[k]) /\ DOMAIN Args(k, s) = 1..Len(Args(k, s))
  BY LayoutFields DEF Args

\* A call passes as many fields as the struct of its key has.
Fits(c) == Len(c.args) = Len(Layout[c.key]) /\ DOMAIN c.args = 1..Len(c.args)

\* Keys whose struct is one byte.
LEMMA ByteLayout ==
  ASSUME NEW k \in Small \cup Opaque
  PROVE  k \in Keys /\ Layout[k] = <<U(k, 1)>>
<1>1. k \notin DOMAIN Setting
  BY DEF Setting, Small, Opaque
<1>2. k \notin DOMAIN Status
  BY DEF Status, Small, Opaque
<1>3. k \in Keys /\ k \notin Hosts
  BY DEF Keys, Small, Opaque, Hosts
<1>4. QED
  BY <1>1, <1>2, <1>3 DEF Layout

\* The structs that hold addresses.
LEMMA AddressLayouts ==
  /\ Layout.LidarIpCfg = <<Ip("lidar_ip"), Ip("lidar_subnet_mask"), Ip("lidar_gateway")>>
  /\ Layout.SetNTPServerIp = <<Ip("ntp_server_ip")>>
  /\ \A k \in Hosts : Layout[k] = Host
<1>1. "LidarIpCfg" \in DOMAIN Setting /\ "SetNTPServerIp" \in DOMAIN Setting
  BY DEF Setting
<1>2. /\ Layout.LidarIpCfg = Setting.LidarIpCfg
      /\ Layout.SetNTPServerIp = Setting.SetNTPServerIp
  BY <1>1, LargeKeys DEF Layout
<1>3. ASSUME NEW k \in Hosts PROVE Layout[k] = Host
  <2>1. k \notin DOMAIN Setting
    BY DEF Setting, Hosts
  <2>2. k \notin DOMAIN Status
    BY DEF Status, Hosts
  <2>3. QED
    BY <2>1, <2>2 DEF Layout, Keys
<1>4. QED
  BY <1>2, <1>3 DEF Setting

LEMMA CallFits ==
  ASSUME NEW c \in Calls
  PROVE  Fits(c)
<1>1. CASE Chosen(c)
  BY <1>1, ArgsFit DEF Chosen, Fits
<1>2. CASE Byte(c)
  BY <1>2, ByteLayout DEF Byte, Fits
<1>3. CASE c.key = "LidarIpCfg" /\ \E a, b, d \in Masks : c.args = <<a, b, d>>
  BY <1>3, AddressLayouts DEF Fits
<1>4. CASE c.key = "SetNTPServerIp" /\ \E a \in Masks : c.args = <<a>>
  BY <1>4, AddressLayouts DEF Fits
<1>5. CASE c.key \in Hosts /\ \E a \in Masks : c.args = <<a, <<56301>>, <<56300>>>>
  <2>1. Layout[c.key] = Host /\ Len(Host) = 3
    BY <1>5, AddressLayouts DEF Host
  <2>2. Len(c.args) = 3 /\ DOMAIN c.args = 1..3
    BY <1>5
  <2>3. QED
    BY <2>1, <2>2 DEF Fits
<1>6. QED
  BY <1>1, <1>2, <1>3, <1>4, <1>5, CallForms DEF Addressed

LEMMA SentFits ==
  ASSUME NEW c \in Calls
  PROVE  Len(Value(c).args) = Len(Layout[c.key])
<1>1. c.key \in Keys /\ Fits(c)
  BY CallKeys, CallFits
<1>2. Len(c.args) \in Nat
  BY <1>1, LayoutFields DEF Fits
<1>3. QED
  BY <1>1, <1>2 DEF Value, Fits

LEMMA InitTypes == Init => TypeOK
<1> SUFFICES ASSUME Init PROVE TypeOK
  OBVIOUS
<1>1. family \in DOMAIN PushPort
  BY ParametersAssumption DEF Init
<1>2. \A k \in Keys : store[k].key = k /\ Len(store[k].args) = Len(Layout[k])
  BY ArgsFit DEF Init
<1>3. QED
  BY <1>1, <1>2 DEF Init, TypeOK, Nothing

LEMMA NextTypes == IInv /\ TypeOK /\ [Next]_vars => TypeOK'
<1> SUFFICES ASSUME IInv, TypeOK, [Next]_vars PROVE TypeOK'
  OBVIOUS
<1>1. ASSUME NEW c \in Calls, Set(c) PROVE TypeOK'
  BY <1>1 DEF Set, TypeOK
<1>2. ASSUME NEW c \in Queries(family), Query(c) PROVE TypeOK'
  BY <1>2 DEF Query, TypeOK
<1>3. CASE Accept
  <2>1. request \in Calls /\ request.key \in Keys /\ Value(request).key = request.key
    BY <1>3, CallKeys DEF Accept, Value
  <2>2. \A k \in Keys : store'[k].key = k /\ Len(store'[k].args) = Len(Layout[k])
    BY <1>3, <2>1, SentFits DEF Accept, TypeOK, IInv, StoreOK
  <2>3. QED
    BY <1>3, <2>2 DEF Accept, TypeOK
<1>4. CASE Answer \/ Return \/ Lose
  BY <1>4 DEF Answer, Return, Lose, TypeOK, Nothing
<1>5. CASE OnCommandCmd
  <2>1. published'.kind \in {"nothing", "empty", "info", "answer"}
    BY <1>5 DEF OnCommandCmd, Publication, TypeOK
  <2>2. QED
    BY <1>5, <2>1 DEF OnCommandCmd, TypeOK, Nothing
<1>6. ASSUME NEW ks, NEW shape, NEW port, Push(ks, shape, port) PROVE TypeOK'
  BY <1>6 DEF Push, TypeOK
<1>7. CASE UNCHANGED vars
  BY <1>7 DEF vars, TypeOK
<1>8. QED
  BY <1>1, <1>2, <1>3, <1>4, <1>5, <1>6, <1>7 DEF Next

(***************************************************************************)
(* The device holds for every key a value of all its fields, whichever     *)
(* setters the application calls with whichever addresses.                 *)
(***************************************************************************)
THEOREM TypeCorrect == Spec => []TypeOK
  BY InitIInv, NextIInv, InitTypes, NextTypes, PTL DEF Spec

-----------------------------------------------------------------------------
\* What ParseStateInfo reads

\* The values of p, up to the nth, are read into info as far as they are whole.
Reads(info, p, n) ==
  /\ DOMAIN info = ParsedKeys
  /\ \A k \in ParsedKeys : DOMAIN info[k] = DOMAIN Layout[k]
  /\ \A i \in 1..n :
       LET v == p.values[i] IN
       v.key \in ParsedKeys /\ v.len >= Width(v.key)
         => \A j \in DOMAIN Layout[v.key] : info[v.key][j] = v.args[j]

LEMMA AssignReads ==
  ASSUME NEW p, NEW n \in Nat, NEW info, Reads(info, p, n),
         p.values[n + 1].key \in Keys, p.values[n + 1].len \in Int,
         \A i \in 1..n : p.values[i].key # p.values[n + 1].key
  PROVE  Reads(Assign(info, p.values[n + 1]), p, n + 1)
<1> DEFINE v == p.values[n + 1]
           k == v.key
           out == Assign(info, v)
<1>1. /\ DOMAIN info = ParsedKeys
      /\ \A x \in ParsedKeys : DOMAIN info[x] = DOMAIN Layout[x]
      /\ \A i \in 1..n : LET w == p.values[i] IN
           w.key \in ParsedKeys /\ w.len >= Width(w.key)
             => \A j \in DOMAIN Layout[w.key] : info[w.key][j] = w.args[j]
  BY DEF Reads
<1>2. \A i \in 1..n + 1 : i = n + 1 \/ i \in 1..n
  OBVIOUS
<1>3. CASE k \notin ParsedKeys
  <2>1. out = info
    BY <1>3 DEF Assign
  <2> HIDE DEF out
  <2>2. ASSUME NEW i \in 1..n + 1, p.values[i].key \in ParsedKeys,
               p.values[i].len >= Width(p.values[i].key),
               NEW j \in DOMAIN Layout[p.values[i].key]
        PROVE  info[p.values[i].key][j] = p.values[i].args[j]
    BY <1>1, <1>2, <1>3, <2>2
  <2>3. QED
    BY <1>1, <2>1, <2>2 DEF Reads, out
<1>4. CASE k \in ParsedKeys
  <2> DEFINE copy == CopyValue(info[k], v)
  <2>1. out = [info EXCEPT ![k] = copy]
    BY <1>4 DEF Assign
  <2>2. DOMAIN copy = DOMAIN Layout[k]
    BY <1>1, <1>4 DEF CopyValue
  <2>3. ASSUME v.len >= Width(k), NEW j \in DOMAIN Layout[k] PROVE copy[j] = v.args[j]
    <3>1. /\ End(k, j) \in Nat /\ End(k, j) <= Width(k) /\ Width(k) \in Nat
          /\ End(k, j - 1) \in Nat /\ End(k, j - 1) < End(k, j) /\ v.len \in Int
      BY Ends
    <3>2. End(k, j) <= v.len /\ ~(End(k, j - 1) >= v.len)
      BY <2>3, <3>1
    <3>3. copy[j] = CASE End(k, j) <= v.len -> v.args[j]
                      [] End(k, j - 1) >= v.len -> info[k][j]
                      [] OTHER -> <<>>
      BY <1>1, <1>4 DEF CopyValue
    <3>4. QED
      BY <3>2, <3>3
  <2> HIDE DEF copy, out
  <2>4. /\ DOMAIN out = ParsedKeys /\ out[k] = copy
        /\ \A x \in ParsedKeys \ {k} : out[x] = info[x]
    BY <1>1, <1>4, <2>1
  <2>5. \A x \in ParsedKeys : DOMAIN out[x] = DOMAIN Layout[x]
    BY <1>1, <2>2, <2>4
  <2>6. ASSUME NEW i \in 1..n + 1, p.values[i].key \in ParsedKeys,
               p.values[i].len >= Width(p.values[i].key),
               NEW j \in DOMAIN Layout[p.values[i].key]
        PROVE  out[p.values[i].key][j] = p.values[i].args[j]
    <3>1. CASE i = n + 1
      BY <2>3, <2>4, <2>6, <3>1
    <3>2. CASE i \in 1..n
      <4>1. p.values[i].key # k
        BY <3>2
      <4>2. out[p.values[i].key] = info[p.values[i].key]
        BY <2>4, <2>6, <4>1
      <4>3. info[p.values[i].key][j] = p.values[i].args[j]
        BY <1>1, <2>6, <3>2
      <4>4. QED
        BY <4>2, <4>3
    <3>3. QED
      BY <1>2, <3>1, <3>2
  <2>7. QED
    BY <2>4, <2>5, <2>6 DEF Reads, out
<1>5. QED
  BY <1>3, <1>4

LEMMA ParseReads ==
  ASSUME NEW p, p.keyNum \in Nat,
         \A i \in 1..p.keyNum : p.values[i].key \in Keys /\ p.values[i].len \in Int,
         \A i, j \in 1..p.keyNum : p.values[i].key = p.values[j].key => i = j
  PROVE  Reads(ParseStateInfo(p), p, p.keyNum)
<1> DEFINE m == p.keyNum
           Is(f) == f = [n \in 0..m |->
                           IF n = 0 THEN ZeroInfo ELSE Assign(f[n - 1], p.values[n])]
           f == CHOOSE g : Is(g)
           S == {n \in Nat : n <= m => Reads(f[n], p, n)}
<1>1. Is(f)
  <2>1. \E g : Is(g)
    BY ParseExists
  <2>2. QED
    BY <2>1, Zenon
<1>2. ParseStateInfo(p) = f[m]
  BY DEF ParseStateInfo
<1>3. f[0] = ZeroInfo /\ \A n \in 1..m : f[n] = Assign(f[n - 1], p.values[n])
  <2>1. \A n \in 0..m : f[n] = IF n = 0 THEN ZeroInfo ELSE Assign(f[n - 1], p.values[n])
    BY <1>1, Zenon
  <2>2. QED
    BY <2>1
<1> HIDE DEF f, Is
<1>4. 0 \in S
  <2>1. Reads(ZeroInfo, p, 0)
    BY DEF Reads, ZeroInfo
  <2>2. QED
    BY <1>3, <2>1
<1>5. ASSUME NEW n \in S PROVE n + 1 \in S
  <2> SUFFICES ASSUME n + 1 <= m PROVE Reads(f[n + 1], p, n + 1)
    OBVIOUS
  <2>1. n \in Nat /\ n <= m /\ n + 1 \in 1..m /\ n + 1 - 1 = n /\ 1..n \subseteq 1..m
    OBVIOUS
  <2>2. Reads(f[n], p, n)
    BY <2>1
  <2>3. f[n + 1] = Assign(f[n], p.values[n + 1])
    BY <1>3, <2>1
  <2>4. \A i \in 1..n : p.values[i].key # p.values[n + 1].key
    <3>1. \A i \in 1..n : i # n + 1
      BY <2>1
    <3>2. QED
      BY <2>1, <3>1
  <2>5. p.values[n + 1].key \in Keys /\ p.values[n + 1].len \in Int
    BY <2>1
  <2> DEFINE info == f[n]
  <2> HIDE DEF info, S
  <2>6. Reads(Assign(info, p.values[n + 1]), p, n + 1)
    BY <2>1, <2>2, <2>4, <2>5, AssignReads DEF info
  <2>7. QED
    BY <2>3, <2>6 DEF info
<1> HIDE DEF S
<1>6. S = Nat
  <2>1. S \in SUBSET Nat
    BY DEF S
  <2>2. QED
    BY <1>4, <1>5, <2>1, Induction
<1>7. QED
  BY <1>2, <1>6 DEF S

-----------------------------------------------------------------------------
\* What the setters send

\* What args holds for k is written as it is.
Plain(k, args) ==
  \A j \in DOMAIN Layout[k] :
    Layout[k][j].writer # "Hidden" => Write(Layout[k][j], args[j]) = args[j]

LEMMA ArgsPlain ==
  ASSUME NegativeCoordinates = FALSE, NEW k \in Keys, NEW s \in Nat
  PROVE  Plain(k, Args(k, s))
<1> SUFFICES ASSUME NEW j \in DOMAIN Layout[k], Layout[k][j].writer # "Hidden"
             PROVE  Write(Layout[k][j], Args(k, s)[j]) = Args(k, s)[j]
  BY DEF Plain
<1> DEFINE f == Layout[k][j]
           n == Args(k, s)[j]
<1>1. j \in Nat
  BY LayoutFields DEF Fitting
<1>2. CASE f.writer # "Uint"
  BY <1>2 DEF Write
<1>3. CASE f.writer = "Uint"
  <2>1. n = Number(f, j, s)
    BY <1>3 DEF Args
  <2>2. n = <<10 * s + j>>
    BY <1>3, <2>1 DEF Number
  <2>3. n[1] = 10 * s + j /\ ~(n[1] < 0)
    BY <1>1, <2>2
  <2>4. QED
    BY <1>3, <2>3 DEF Write
<1>4. QED
  BY <1>2, <1>3

\* Numbers that are not negative, and addresses.
LEMMA PlainFields ==
  /\ \A name, w : \A n \in Nat : Write(U(name, w), <<n>>) = <<n>>
  /\ \A name, a : Write(Ip(name), a) = a
<1>1. ASSUME NEW name, NEW w, NEW n \in Nat PROVE Write(U(name, w), <<n>>) = <<n>>
  <2>1. <<n>>[1] = n /\ ~(n < 0) /\ U(name, w).writer = "Uint"
    BY DEF U, Field
  <2>2. QED
    BY <2>1 DEF Write
<1>2. ASSUME NEW name, NEW a PROVE Write(Ip(name), a) = a
  <2>1. Ip(name).writer = "String"
    BY DEF Ip, Field
  <2>2. QED
    BY <2>1 DEF Write
<1>3. QED
  BY <1>1, <1>2

LEMMA CallPlain ==
  ASSUME NegativeCoordinates = FALSE, NEW c \in Calls
  PROVE  Plain(c.key, c.args)
<1>1. CASE Chosen(c)
  <2>1. PICK s \in Seeds : c.args = Args(c.key, s)
    BY <1>1 DEF Chosen
  <2>2. s \in Nat /\ c.key \in Keys
    BY <1>1 DEF Seeds, Chosen
  <2>3. QED
    BY <2>1, <2>2, ArgsPlain
<1>2. CASE Byte(c)
  <2>1. PICK n \in {0, 1} : c.args = <<<<n>>>>
    BY <1>2 DEF Byte
  <2>2. DOMAIN Layout[c.key] = {1} /\ Layout[c.key][1] = U(c.key, 1)
    BY <1>2, ByteLayout DEF Byte
  <2>3. Write(U(c.key, 1), <<n>>) = <<n>>
    BY PlainFields
  <2>4. QED
    BY <2>1, <2>2, <2>3 DEF Plain
<1>3. CASE c.key = "LidarIpCfg" /\ \E a, b, d \in Masks : c.args = <<a, b, d>>
  BY <1>3, AddressLayouts, PlainFields DEF Plain
<1>4. CASE c.key = "SetNTPServerIp" /\ \E a \in Masks : c.args = <<a>>
  BY <1>4, AddressLayouts, PlainFields DEF Plain
<1>5. CASE c.key \in Hosts /\ \E a \in Masks : c.args = <<a, <<56301>>, <<56300>>>>
  BY <1>5, AddressLayouts, PlainFields DEF Plain, Host
<1>6. QED
  BY <1>1, <1>2, <1>3, <1>4, <1>5, CallForms DEF Addressed

\* An address that IsAddress accepts and that has no 256 is sent as it is.
LEMMA AddressSent ==
  ASSUME 256 \notin Octets, NEW a \in Masks, IsAddress(a), NEW i \in 1..4
  PROVE  IpToU8(a)[i] = a[i]
<1>1. Len(a) = 4 /\ a[i] \in 0..256
  BY DEF IsAddress
<1>2. a[i] # 256
  <2>1. CASE \E o \in Octets : a = <<o, 0, 0, 1>>
    BY <2>1
  <2>2. CASE \E o \in Octets : a = <<o, 0, 1>>
    BY <1>1, <2>2
  <2>3. CASE a = <<255, 255, 0, 0>>
    BY <2>3
  <2>4. QED
    BY <2>1, <2>2, <2>3 DEF Masks, Addresses
<1>3. QED
  BY <1>1, <1>2 DEF IpToU8

LEMMA AddressIsSent ==
  ASSUME 256 \notin Octets, NEW a \in Masks, IsAddress(a)
  PROVE  IpToU8(a) = a
<1>1. \E x, y, z, w : a = <<x, y, z, w>>
  BY DEF IsAddress, Masks, Addresses
<1>2. PICK x, y, z, w : a = <<x, y, z, w>>
  BY <1>1
<1>3. IpToU8(a) = [i \in 1..4 |-> a[i]]
  BY AddressSent DEF IpToU8
<1>4. QED
  BY <1>2, <1>3

\* What the device is sent is what was passed.
LEMMA CallSent ==
  ASSUME 256 \notin Octets, NEW c \in Calls, Accepted(c),
         NEW j \in DOMAIN Layout[c.key]
  PROVE  Value(c).args[j] = c.args[j]
<1> DEFINE address == c.key \in Structured /\ Layout[c.key][j].writer = "String"
<1>1. j \in DOMAIN c.args
  BY CallKeys, CallFits, LayoutFields DEF Fits, Fitting
<1>2. Value(c).args[j] = IF address THEN IpToU8(c.args[j]) ELSE c.args[j]
  BY <1>1 DEF Value
<1>3. ASSUME address PROVE IpToU8(c.args[j]) = c.args[j]
  <2>1. IsAddress(c.args[j])
    BY <1>1, <1>3 DEF Accepted
  <2>2. c.args[j] \in Masks
    <3>1. ~Chosen(c)
      BY <1>3 DEF Chosen
    <3>2. ~Byte(c)
      BY <1>3, PlainKeys DEF Byte
    <3>3. CASE c.key = "LidarIpCfg" /\ \E a, b, d \in Masks : c.args = <<a, b, d>>
      BY <1>1, <3>3
    <3>4. CASE c.key = "SetNTPServerIp" /\ \E a \in Masks : c.args = <<a>>
      BY <1>1, <3>4
    <3>5. CASE c.key \in Hosts /\ \E a \in Masks : c.args = <<a, <<56301>>, <<56300>>>>
      <4>1. Layout[c.key] = Host
        BY <3>5, AddressLayouts
      <4>2. j \in {1, 2, 3}
        BY <4>1 DEF Host
      <4>3. Host[2].writer = "Uint" /\ Host[3].writer = "Uint"
        BY DEF Host, U, Field
      <4>4. j = 1
        BY <1>3, <4>1, <4>2, <4>3
      <4>5. QED
        BY <3>5, <4>4
    <3>6. QED
      BY <3>1, <3>2, <3>3, <3>4, <3>5, CallForms DEF Addressed
  <2>3. QED
    BY <2>1, <2>2, AddressIsSent
<1>4. QED
  BY <1>2, <1>3

-----------------------------------------------------------------------------
\* What is shown is what was set

\* The device holds what the application passed, which is written as it is, and
\* only a call that was accepted is sent to it.
AskedOK ==
  /\ DOMAIN asked = Keys
  /\ \A k \in Keys : Plain(k, asked[k])
  /\ \A k \in Keys : \A j \in DOMAIN Layout[k] : store[k].args[j] = asked[k][j]
  /\ request \in Calls => Accepted(request)

LEMMA InitAsked ==
  ASSUME NegativeCoordinates = FALSE
  PROVE  Init => AskedOK
<1> SUFFICES ASSUME Init PROVE AskedOK
  OBVIOUS
<1>1. \A k \in Keys : asked[k] = Args(k, 3) /\ store[k].args = Args(k, 3)
  BY DEF Init
<1>2. DOMAIN asked = Keys /\ request \notin Calls
  BY CallsAreCalls DEF Init
<1>3. \A k \in Keys : Plain(k, asked[k])
  BY <1>1, ArgsPlain
<1>4. QED
  BY <1>1, <1>2, <1>3 DEF AskedOK

LEMMA NextAsked ==
  ASSUME NegativeCoordinates = FALSE, 256 \notin Octets
  PROVE  IInv /\ AskedOK /\ [Next]_vars => AskedOK'
<1> SUFFICES ASSUME IInv, AskedOK, [Next]_vars PROVE AskedOK'
  OBVIOUS
<1>1. ASSUME store' = store, asked' = asked, request' = request \/ request' \notin Calls
      PROVE  AskedOK'
  BY <1>1 DEF AskedOK, Accepted, Plain
<1>2. ASSUME NEW c \in Calls, Set(c) PROVE AskedOK'
  BY <1>2 DEF Set, AskedOK
<1>3. ASSUME NEW c \in Queries(family), Query(c) PROVE AskedOK'
  <2>1. c.key = None
    BY DEF Queries, Call
  <2>2. c \notin Calls
    <3>1. None \notin Keys
      BY DEF None, Keys, Small, Opaque, Hosts, Setting, Status
    <3>2. QED
      BY <2>1, <3>1, CallKeys
  <2>3. QED
    BY <1>1, <1>3, <2>2 DEF Query
<1>4. CASE Accept
  <2> DEFINE r == request
             k == request.key
  <2>1. r \in Calls /\ k \in Keys /\ Accepted(r)
    BY <1>4, CallKeys DEF Accept, AskedOK
  <2>2. store'[k] = Value(r) /\ asked'[k] = r.args
        /\ \A x \in Keys \ {k} : store'[x] = store[x] /\ asked'[x] = asked[x]
    BY <1>4, <2>1 DEF Accept, IInv, StoreOK, AskedOK
  <2>3. DOMAIN asked' = Keys /\ request' \notin Calls
    BY <1>4, CallsAreCalls DEF Accept, AskedOK
  <2>4. \A j \in DOMAIN Layout[k] : store'[k].args[j] = asked'[k][j]
    BY <2>1, <2>2, CallSent
  <2>5. Plain(k, asked'[k])
    BY <2>1, <2>2, CallPlain
  <2>6. \A x \in Keys : Plain(x, asked'[x])
    BY <2>2, <2>5 DEF AskedOK
  <2>7. \A x \in Keys : \A j \in DOMAIN Layout[x] : store'[x].args[j] = asked'[x][j]
    BY <2>2, <2>4 DEF AskedOK
  <2>8. QED
    BY <2>3, <2>6, <2>7 DEF AskedOK
<1>5. CASE Answer \/ Lose
  BY <1>1, <1>5, CallsAreCalls DEF Answer, Lose
<1>6. CASE OnCommandCmd \/ Return
  BY <1>1, <1>6 DEF OnCommandCmd, Return
<1>7. ASSUME NEW ks, NEW shape, NEW port, Push(ks, shape, port) PROVE AskedOK'
  BY <1>1, <1>7 DEF Push
<1>8. CASE UNCHANGED vars
  BY <1>1, <1>8 DEF vars
<1>9. QED
  BY <1>2, <1>3, <1>4, <1>5, <1>6, <1>7, <1>8 DEF Next

\* Of a packet that carries what the device holds, the application is told what
\* it set.
LEMMA PublicationShows ==
  ASSUME AskedOK, NEW p, Arriving(p), Publication(p).kind = "info",
         NEW i \in DOMAIN p.values,
         p.values[i].key \in DOMAIN Publication(p).shown,
         ~(p.shape = "shorter" /\ i = Len(p.values)),
         NEW j \in DOMAIN Layout[p.values[i].key],
         Layout[p.values[i].key][j].writer # "Hidden"
  PROVE  Publication(p).shown[p.values[i].key][j] = asked[p.values[i].key][j]
<1> DEFINE n == Len(p.values)
           v == p.values[i]
           k == v.key
           info == ParseStateInfo(p)
<1>1. /\ n \in Nat /\ i \in 1..n
      /\ \A x \in 1..n : Carries(p, x)
      /\ \A x, y \in 1..n : p.values[x].key = p.values[y].key => x = y
  BY DEF Arriving
<1>2. /\ p.keyNum = n /\ DOMAIN Publication(p).shown = KeyMask(p)
      /\ Publication(p).shown = LivoxLidarStateInfoToJson(info, KeyMask(p))
  BY PublicationFacts
<1>3. k \in KeyMask(p) /\ k \in ParsedKeys /\ k \in Keys
  BY <1>2 DEF KeyMask, ParsedKeys
<1>4. v.args = store[k].args /\ v.len \in Int /\ v.len >= Width(k)
  <2>1. Carries(p, i)
    BY <1>1
  <2>2. v.args = store[k].args /\ v.len \in Int /\ ~(v.len < Width(k))
    BY <2>1 DEF Carries
  <2>3. QED
    BY <1>3, <2>2, Ends
<1>5. Reads(info, p, n)
  <2>1. \A x \in 1..n : p.values[x].key \in Keys /\ p.values[x].len \in Int
    BY <1>1 DEF Carries
  <2> HIDE DEF n
  <2>2. QED
    BY <1>1, <1>2, <2>1, ParseReads
<1>6. info[k][j] = v.args[j]
  BY <1>1, <1>3, <1>4, <1>5 DEF Reads
<1>7. v.args[j] = asked[k][j]
  BY <1>3, <1>4 DEF AskedOK
<1>8. Write(Layout[k][j], asked[k][j]) = asked[k][j]
  BY <1>3 DEF AskedOK, Plain
<1>9. Publication(p).shown[k][j] = Write(Layout[k][j], info[k][j])
  BY <1>2, <1>3 DEF LivoxLidarStateInfoToJson
<1>10. QED
  BY <1>6, <1>7, <1>8, <1>9

(***************************************************************************)
(* CommandImpl and ParseLidarStateInfo: what a callback is told of a       *)
(* parameter is what the setter was passed, field for field, for every     *)
(* setter, family and packet, if no octet is 256 (which IpToU8 takes for   *)
(* 0) and no install attitude is negative (which AddMember writes as an    *)
(* unsigned number): the two inputs for which the code does not do it.     *)
(***************************************************************************)
THEOREM ShowsWhatWasSet ==
  ASSUME NegativeCoordinates = FALSE, 256 \notin Octets
  PROVE  Spec => []ShownAsSet
<1>1. Init => AskedOK
  BY InitAsked
<1>2. IInv /\ AskedOK /\ [Next]_vars => AskedOK'
  BY NextAsked
<1>3. Init => ShownAsSet
  BY DEF Init, ShownAsSet, Nothing
<1>4. IInv /\ AskedOK /\ ShownAsSet /\ [Next]_vars => ShownAsSet'
  <2> SUFFICES ASSUME IInv, AskedOK, ShownAsSet, [Next]_vars PROVE ShownAsSet'
    OBVIOUS
  <2>1. ASSUME published' = published, asked' = asked PROVE ShownAsSet'
    BY <2>1 DEF ShownAsSet
  <2>2. CASE published' = Nothing \/ Answer
    BY <2>2 DEF Answer, ShownAsSet, Nothing
  <2>3. CASE OnCommandCmd
    <3>1. CASE published' = published
      BY <2>1, <2>3, <3>1 DEF OnCommandCmd
    <3>2. CASE published' = Publication(packet)
      <4>1. Arriving(packet) /\ asked' = asked
        BY <2>3 DEF IInv, PacketOK, OnCommandCmd
      <4>2. SUFFICES ASSUME Publication(packet).kind = "info" PROVE ShownAsSet'
        BY <3>2 DEF ShownAsSet
      <4>3. Publication(packet).of = packet
        BY <4>1, <4>2, PublicationFacts
      <4>4. QED
        BY <3>2, <4>1, <4>2, <4>3, PublicationShows DEF ShownAsSet
    <3>3. QED
      BY <2>3, <3>1, <3>2 DEF OnCommandCmd
  <2>4. CASE Accept
    BY <2>2, <2>4, CallsAreCalls DEF Accept, IInv, OneAtATime
  <2>5. CASE Return \/ Lose \/ UNCHANGED vars
    BY <2>1, <2>2, <2>5 DEF Return, Lose, vars
  <2>6. ASSUME NEW c, Set(c) \/ Query(c) PROVE ShownAsSet'
    BY <2>1, <2>6 DEF Set, Query
  <2>7. ASSUME NEW ks, NEW shape, NEW port, Push(ks, shape, port) PROVE ShownAsSet'
    BY <2>1, <2>7 DEF Push
  <2>8. QED
    BY <2>2, <2>3, <2>4, <2>5, <2>6, <2>7 DEF Next
<1>5. QED
  BY <1>1, <1>2, <1>3, <1>4, InitIInv, NextIInv, PTL DEF Spec

=============================================================================
