--------------------------- MODULE Upgrader_proofs ---------------------------
(***************************************************************************)
(* Proofs about Upgrader, for any number of devices, any image, any limits *)
(* and any files: the types, that no command outlives its upgrader, that   *)
(* the checksum is asked for only after the whole image was accepted, and  *)
(* that success means an installed image.                                  *)
(***************************************************************************)
EXTENDS Upgrader, TLAPS

\* A pending command was sent by the state its state machine is in.
RequestOK ==
  \A d \in Devices :
    request[d] # "none" => started[d] /\ fsm[d] = Again[request[d]]

\* An upgrader whose destructor returned has ended, as have all of them
\* outside the call.
EndedOK ==
  \A d \in Devices :
    waitingAt = 0 \/ d < waitingAt =>
      /\ fsm[d] \in {"Idle", "Err"}
      /\ waitingAt > 0 => started[d]

\* An upgrader whose thread has not run yet has done nothing.
NotStartedOK ==
  \A d \in Devices : waitingAt > 0 /\ ~started[d] => fsm[d] = "Idle"

\* The device has what was transferred before the current block, and the
\* current block once it has acknowledged it.
TransferOK ==
  \A d \in Devices :
    /\ request[d] = "StartUpgrade" => offset[d] = 0
    /\ request[d] = "XferFirmware" =>
         /\ offset[d] < FirmwareLength
         /\ \A o \in 0..(Length - 1) : o < offset[d] => o \in device[d].received
         /\ answer[d] = "ok" => Block(d) \subseteq device[d].received

\* How far the device is when it is asked for the next step.
StageOK ==
  \A d \in Devices :
    /\ request[d] = "CompleteXferFirmware" /\ answer[d] = "ok"
         => device[d].stage = "verified"
    /\ fsm[d] = "GetProgress" => device[d].stage \in {"verified", "installed"}
    /\ fsm[d] = "GetProgress" /\ answer[d] = "ok" => device[d].stage = "installed"
    /\ fsm[d] = "Complete" => device[d].stage = "installed"

Protocol == /\ RequestOK /\ EndedOK /\ NotStartedOK /\ TransferOK /\ StageOK
            /\ WholeImage /\ SuccessIsInstalled

-----------------------------------------------------------------------------
\* The event table

\* No two rows have the same state and event, so the first match is the only
\* one; and nothing leaves the state Err.
LEMMA TableFacts ==
  /\ \A r, s \in EventTable :
       r.state = s.state /\ r.event = s.event => r = s
  /\ \A r \in EventTable :
       /\ r.state \in States \ {"Err"} /\ r.event \in Events \ {"Err"}
       /\ r.next \in States
  BY DEF EventTable, Row, States, Events

\* What FsmEventHandler does to an upgrader: its next state, the command it
\* sends and the offset it is at.
Moves(d, s, c, o) ==
  /\ fsm' = [fsm EXCEPT ![d] = s]
  /\ request' = [request EXCEPT ![d] = c]
  /\ offset' = [offset EXCEPT ![d] = o]
  /\ answer' = [answer EXCEPT ![d] = "none"]

\* An event for which there is a row.
LEMMA Handled ==
  ASSUME NEW d \in Devices, NEW e, NEW o, NEW n, NEW c, NEW p, e # "Err",
         Row(fsm[d], e, n) \in EventTable, FsmEventHandler(d, e, o),
         c = Sends(e, o), p = IF e = "Request" THEN 0 ELSE o
  PROVE  Moves(d, n, c, p)
<1> DEFINE rows == {r \in EventTable : r.state = fsm[d] /\ r.event = e}
<1> DEFINE row == Row(fsm[d], e, n)
<1>1. row.state = fsm[d] /\ row.event = e /\ row.next = n
  BY DEF Row
<1>2. row \in rows /\ \A r \in rows : r = row
  BY <1>1, TableFacts
<1>3. rows # {} /\ (CHOOSE r \in rows : TRUE).next = n
  BY <1>1, <1>2
<1>4. QED
  BY <1>3 DEF FsmEventHandler, Moves

\* The event Err.
LEMMA HandledErr ==
  ASSUME NEW d \in Devices, NEW o, FsmEventHandler(d, "Err", o)
  PROVE  Moves(d, "Err", "none", o)
<1>1. {r \in EventTable : r.state = "Err" /\ r.event = "Err"} = {}
  BY TableFacts
<1>2. QED
  BY <1>1 DEF FsmEventHandler, Moves

LEMMA HandlerType ==
  ASSUME TypeOK, NEW d \in Devices, NEW e \in Events, NEW o \in Nat,
         FsmEventHandler(d, e, o)
  PROVE  /\ fsm' \in [Devices -> States]
         /\ request' \in [Devices -> Commands \cup {"none"}]
         /\ offset' \in [Devices -> Nat]
         /\ answer' \in [Devices -> Answers \cup {"none"}]
<1> DEFINE s == IF e = "Err" THEN "Err" ELSE fsm[d]
<1> DEFINE rows == {r \in EventTable : r.state = s /\ r.event = e}
<1>1. s \in States
  BY DEF TypeOK, States
<1>2. rows # {} => (CHOOSE r \in rows : TRUE).next \in States
  BY TableFacts
<1>3. Sends(e, o) \in Commands \cup {"none"}
  BY DEF Sends, Commands
<1>4. fsm' \in [Devices -> States]
  BY <1>1, <1>2 DEF TypeOK, FsmEventHandler
<1>5. QED
  BY <1>3, <1>4 DEF TypeOK, FsmEventHandler

-----------------------------------------------------------------------------
\* Types

LEMMA InitType == Init => TypeOK
  BY UpgraderAssumption
     DEF Init, TypeOK, Fresh, FileKinds, States, Commands, Answers

LEMMA FileType ==
  ASSUME TypeOK, NEW f \in Files, SetFirmwarePath(f)
  PROVE  TypeOK'
<1>1. f \in FileKinds
  BY UpgraderAssumption
<1>2. CASE OpenFresh(f)
  BY <1>1, <1>2
     DEF SetFirmwarePath, OpenFresh, ReadAndCheckHeader, HeaderOf, DataOf,
         TypeOK, FileKinds, host
<1>3. CASE OpenAgain(f)
  BY <1>1, <1>3
     DEF SetFirmwarePath, OpenAgain, ReadAndCheckHeader, TypeOK, host
<1>4. QED
  BY <1>2, <1>3 DEF SetFirmwarePath

LEMMA CallType ==
  ASSUME TypeOK, UpgradeLivoxLidars
  PROVE  TypeOK'
<1> DEFINE R == [received : SUBSET (0..(Length - 1)),
                 stage : {"running", "receiving", "verified", "installed"},
                 waits : 0..MaxWaits]
<1>1. \A d \in Devices : [device[d] EXCEPT !.waits = 0] \in R
  BY UpgraderAssumption DEF TypeOK
<1>2. \A d \in Devices : device'[d] \in R
  BY <1>1 DEF UpgradeLivoxLidars
<1>3. /\ fsm' \in [Devices -> States] /\ started' \in [Devices -> BOOLEAN]
      /\ offset' \in [Devices -> Nat]
      /\ tries' \in [Devices -> 0..(TryLimit - 1) \cup 0..(ProgressTryLimit - 1)]
  BY UpgraderAssumption DEF UpgradeLivoxLidars, States
<1>4. waitingAt' \in 0..Count
  BY UpgraderAssumption DEF UpgradeLivoxLidars
<1>5. QED
  BY <1>2, <1>3, <1>4 DEF UpgradeLivoxLidars, TypeOK

LEMMA StartType ==
  ASSUME TypeOK, NEW d \in Devices, StartUpgradeLivoxLidar(d)
  PROVE  TypeOK'
<1>1. FsmEventHandler(d, "Request", 0) /\ "Request" \in Events /\ 0 \in Nat
  BY DEF StartUpgradeLivoxLidar, Events
<1>2. QED
  BY <1>1, HandlerType DEF StartUpgradeLivoxLidar, TypeOK, file

LEMMA DestroyType ==
  ASSUME TypeOK, NEW d \in Devices, Destroy(d)
  PROVE  TypeOK'
  BY UpgraderAssumption DEF Destroy, TypeOK, Devices, file, host

LEMMA ResponseType ==
  ASSUME TypeOK, NEW d \in Devices, Response(d)
  PROVE  TypeOK'
<1> DEFINE o == offset[d] + ReadLength
<1>1. offset[d] \in Nat /\ o \in Nat
  BY UpgraderAssumption DEF TypeOK
<1>2. request[d] \in Commands /\ answer[d] \in Answers
  BY DEF Response, TypeOK
<1>3. Again[request[d]] \in Events
  BY <1>2 DEF Again, Commands, Events
<1>4. request[d] # "XferFirmware" => Then[request[d]] \in Events
  BY <1>2 DEF Then, Commands, Events
<1>5. \E e \in Events, p \in Nat : FsmEventHandler(d, e, p)
  <2>1. CASE answer[d] = "refused"
    BY <1>1, <2>1 DEF Response, Events
  <2>2. CASE answer[d] = "wait"
    BY <1>1, <1>3, <2>2 DEF Response
  <2>3. CASE answer[d] = "ok" /\ request[d] = "XferFirmware"
    BY <1>1, <2>3 DEF Response, XferResponse, Events
  <2>4. CASE answer[d] = "ok" /\ request[d] # "XferFirmware"
    BY <1>1, <1>4, <2>4 DEF Response
  <2>5. QED
    BY <1>2, <2>1, <2>2, <2>3, <2>4 DEF Answers
<1>6. tries' \in [Devices -> 0..(TryLimit - 1) \cup 0..(ProgressTryLimit - 1)]
  BY UpgraderAssumption DEF Response, TypeOK
<1>7. QED
  BY <1>5, <1>6, HandlerType DEF Response, TypeOK, file

LEMMA NoResponseType ==
  ASSUME TypeOK, NEW d \in Devices, NoResponse(d)
  PROVE  TypeOK'
<1> DEFINE c == request[d]
<1>1. c \in Commands /\ offset[d] \in Nat
  BY DEF NoResponse, TypeOK
<1>2. Again[c] \in Events /\ Exhausted(c) \in Events
  BY <1>1 DEF Again, Exhausted, Commands, Events
<1>3. \E e \in Events : FsmEventHandler(d, e, offset[d])
  BY <1>2 DEF NoResponse
<1>4. tries' \in [Devices -> 0..(TryLimit - 1) \cup 0..(ProgressTryLimit - 1)]
  BY UpgraderAssumption DEF NoResponse, Limit, TypeOK
<1>5. QED
  BY <1>1, <1>3, <1>4, HandlerType DEF NoResponse, TypeOK, file

LEMMA DeviceType ==
  ASSUME TypeOK, NEW d \in Devices, DeviceStep(d)
  PROVE  TypeOK'
<1> DEFINE R == [received : SUBSET (0..(Length - 1)),
                 stage : {"running", "receiving", "verified", "installed"},
                 waits : 0..MaxWaits]
<1>1. device[d] \in R
  BY DEF TypeOK
<1>2. \E a \in Answers, r \in R : Answering(d, a, r)
  <2>1. CASE AsksToWait(d)
    BY <1>1, <2>1, UpgraderAssumption DEF AsksToWait, Answers
  <2>2. CASE Refuses(d)
    BY <1>1, <2>2 DEF Refuses, Answers
  <2>3. CASE Starts(d)
    BY <1>1, <2>3 DEF Starts, Answers
  <2>4. CASE Stores(d)
    BY <1>1, <2>4 DEF Stores, Block, Answers
  <2>5. CASE Verifies(d)
    BY <1>1, <2>5 DEF Verifies, Answers
  <2>6. CASE Installs(d)
    BY <1>1, <2>6 DEF Installs, Answers
  <2>7. CASE Reboots(d)
    BY <1>1, <2>7 DEF Reboots, Answers
  <2>8. QED
    BY <2>1, <2>2, <2>3, <2>4, <2>5, <2>6, <2>7 DEF DeviceStep
<1>3. QED
  BY <1>2 DEF Answering, DeviceStep, TypeOK, file, host

LEMMA NextType == TypeOK /\ [Next]_vars => TypeOK'
<1> SUFFICES ASSUME TypeOK, [Next]_vars PROVE TypeOK'
  OBVIOUS
<1>1. CASE UNCHANGED vars
  BY <1>1 DEF vars, file, host, TypeOK
<1>2. QED
  BY <1>1, FileType, CallType, StartType, DestroyType, ResponseType,
     NoResponseType, DeviceType DEF Next

\* Every variable keeps its type: in particular try_count_ stays below its
\* limit, and the machine only knows the states of its table.
THEOREM TypeCorrect == Spec => []TypeOK
  BY InitType, NextType, PTL DEF Spec

-----------------------------------------------------------------------------
\* The protocol

\* What the device must have done before an upgrader may move there.
Prepared(d, s, c, o) ==
  /\ c # "none" => s = Again[c]
  /\ c = "StartUpgrade" => o = 0
  /\ c = "XferFirmware" =>
       /\ o < FirmwareLength
       /\ \A x \in 0..(Length - 1) : x < o => x \in device[d].received
  /\ c = "CompleteXferFirmware" => device[d].received = 0..(Length - 1)
  /\ s = "GetProgress" => device[d].stage \in {"verified", "installed"}
  /\ s \in {"Complete", "Idle"} => device[d].stage = "installed"

Alive(d) == waitingAt > 0 /\ waitingAt <= d

LEMMA MoveSafe ==
  ASSUME TypeOK, Protocol, NEW d \in Devices, NEW s \in States,
         NEW c \in Commands \cup {"none"}, NEW o \in Nat,
         Alive(d), Moves(d, s, c, o), Prepared(d, s, c, o),
         started' = [started EXCEPT ![d] = TRUE],
         UNCHANGED <<file, waitingAt, device>>
  PROVE  Protocol'
<1> USE DEF TypeOK, Moves, Alive, Devices
<1> FirmwareLength' = FirmwareLength
  BY DEF FirmwareLength, file
<1> waitingAt' = waitingAt /\ device' = device
  OBVIOUS
<1>1. RequestOK'
  BY DEF Protocol, RequestOK, Prepared
<1>2. EndedOK'
  BY DEF Protocol, EndedOK
<1>3. NotStartedOK'
  BY DEF Protocol, NotStartedOK
<1>4. TransferOK'
  BY DEF Protocol, TransferOK, Prepared, Block
<1>5. StageOK'
  BY DEF Protocol, StageOK, Prepared
<1>6. WholeImage'
  BY DEF Protocol, WholeImage, Prepared
<1>7. SuccessIsInstalled'
  BY DEF Protocol, SuccessIsInstalled, Prepared
<1>8. QED
  BY <1>1, <1>2, <1>3, <1>4, <1>5, <1>6, <1>7 DEF Protocol

LEMMA InitSafe == Init => Protocol
  BY DEF Init, Protocol, RequestOK, EndedOK, NotStartedOK, TransferOK, StageOK,
         WholeImage, SuccessIsInstalled

\* What is known of an upgrader whose command is pending.
LEMMA Pending ==
  ASSUME TypeOK, Protocol, NEW d \in Devices, request[d] # "none"
  PROVE  /\ Alive(d) /\ started = [started EXCEPT ![d] = TRUE]
         /\ request[d] \in Commands /\ fsm[d] = Again[request[d]]
         /\ Row(fsm[d], fsm[d], fsm[d]) \in EventTable /\ fsm[d] # "Err"
<1>1. request[d] \in Commands /\ fsm[d] = Again[request[d]] /\ started[d]
  BY DEF TypeOK, Protocol, RequestOK
<1>2. /\ fsm[d] \notin {"Idle", "Err"}
      /\ Row(fsm[d], fsm[d], fsm[d]) \in EventTable
  BY <1>1 DEF Again, Commands, EventTable
<1>3. Alive(d)
  BY <1>2 DEF Alive, TypeOK, Protocol, EndedOK, Devices
<1>4. started = [started EXCEPT ![d] = TRUE]
  BY <1>1 DEF TypeOK
<1>5. QED
  BY <1>1, <1>2, <1>3, <1>4

\* The command is sent again.
LEMMA RepeatSafe ==
  ASSUME TypeOK, Protocol, NEW d \in Devices, request[d] # "none",
         FsmEventHandler(d, Again[request[d]], offset[d]),
         UNCHANGED <<file, waitingAt, started, device>>
  PROVE  Protocol'
<1> DEFINE c == request[d]
<1> DEFINE s == fsm[d]
<1>1. /\ Alive(d) /\ started = [started EXCEPT ![d] = TRUE]
      /\ c \in Commands /\ s = Again[c]
      /\ Row(s, s, s) \in EventTable /\ s # "Err"
  BY Pending
<1>2. Sends(s, offset[d]) = c
  BY <1>1 DEF Sends, Again, Commands, Protocol, TransferOK
<1>3. (IF s = "Request" THEN 0 ELSE offset[d]) = offset[d]
  BY <1>1 DEF Again, Commands, Protocol, TransferOK
<1>4. Moves(d, s, c, offset[d])
  BY <1>1, <1>2, <1>3, Handled
<1>5. s \notin {"Idle", "Err"}
  BY <1>1 DEF Again, Commands
<1>6. Prepared(d, s, c, offset[d])
  BY <1>1, <1>5
     DEF Prepared, Protocol, TransferOK, StageOK, WholeImage
<1>7. s \in States /\ offset[d] \in Nat
  BY DEF TypeOK
<1>8. QED
  BY <1>1, <1>4, <1>6, <1>7, MoveSafe

\* The upgrade is given up.
LEMMA ErrSafe ==
  ASSUME TypeOK, Protocol, NEW d \in Devices, request[d] # "none",
         FsmEventHandler(d, "Err", offset[d]),
         UNCHANGED <<file, waitingAt, started, device>>
  PROVE  Protocol'
<1>1. Alive(d) /\ started = [started EXCEPT ![d] = TRUE]
  BY Pending
<1>2. Moves(d, "Err", "none", offset[d])
  BY HandledErr
<1>3. Prepared(d, "Err", "none", offset[d])
  BY DEF Prepared
<1>4. "Err" \in States /\ offset[d] \in Nat
  BY DEF TypeOK, States
<1>5. QED
  BY <1>1, <1>2, <1>3, <1>4, MoveSafe

\* A row of the table takes the upgrader to the next step.
LEMMA AdvanceSafe ==
  ASSUME TypeOK, Protocol, NEW d \in Devices, request[d] # "none",
         NEW e \in Events \ {"Err", "Request"}, NEW n \in States, NEW o \in Nat,
         Row(fsm[d], e, n) \in EventTable, FsmEventHandler(d, e, o),
         Prepared(d, n, Sends(e, o), o),
         UNCHANGED <<file, waitingAt, started, device>>
  PROVE  Protocol'
<1>1. Alive(d) /\ started = [started EXCEPT ![d] = TRUE]
  BY Pending
<1>2. Moves(d, n, Sends(e, o), o)
  BY Handled
<1>3. Sends(e, o) \in Commands \cup {"none"}
  BY DEF Sends, Commands
<1>4. QED
  BY <1>1, <1>2, <1>3, MoveSafe

LEMMA StartSafe ==
  ASSUME TypeOK, Protocol, NEW d \in Devices, StartUpgradeLivoxLidar(d)
  PROVE  Protocol'
<1>1. Alive(d) /\ fsm[d] = "Idle"
  BY DEF StartUpgradeLivoxLidar, Alive, Protocol, EndedOK, NotStartedOK,
         TypeOK, Devices
<1>2. Row(fsm[d], "Request", "Request") \in EventTable
  BY <1>1 DEF EventTable
<1>3. Moves(d, "Request", "StartUpgrade", 0)
  <2>1. Sends("Request", 0) = "StartUpgrade"
    BY DEF Sends
  <2>2. FsmEventHandler(d, "Request", 0)
    BY DEF StartUpgradeLivoxLidar
  <2>3. QED
    BY <1>2, <2>1, <2>2, Handled
<1>4. Prepared(d, "Request", "StartUpgrade", 0)
  BY DEF Prepared, Again
<1>5. "Request" \in States /\ "StartUpgrade" \in Commands
  BY DEF States, Commands
<1>6. QED
  BY <1>1, <1>3, <1>4, <1>5, MoveSafe DEF StartUpgradeLivoxLidar

LEMMA NoResponseSafe ==
  ASSUME TypeOK, Protocol, NEW d \in Devices, NoResponse(d)
  PROVE  Protocol'
<1>1. request[d] # "none" /\ UNCHANGED <<file, waitingAt, started, device>>
  BY DEF NoResponse
<1>2. CASE FsmEventHandler(d, Again[request[d]], offset[d])
  BY <1>1, <1>2, RepeatSafe
<1>3. CASE FsmEventHandler(d, "Err", offset[d])
  BY <1>1, <1>3, ErrSafe
<1>4. CASE request[d] = "RequestReboot" /\ FsmEventHandler(d, "Reinit", offset[d])
  <2>1. fsm[d] = "Complete"
    BY <1>4, Pending DEF Again
  <2>2. Row(fsm[d], "Reinit", "Idle") \in EventTable
    BY <2>1 DEF EventTable
  <2>3. Prepared(d, "Idle", Sends("Reinit", offset[d]), offset[d])
    BY <2>1 DEF Prepared, Sends, Protocol, StageOK
  <2>4. "Reinit" \in Events /\ "Idle" \in States /\ offset[d] \in Nat
    BY DEF Events, States, TypeOK
  <2>5. QED
    BY <1>1, <1>4, <2>2, <2>3, <2>4, AdvanceSafe
<1>5. QED
  BY <1>2, <1>3, <1>4 DEF NoResponse, Exhausted

\* A block was accepted.
LEMMA XferSafe ==
  ASSUME TypeOK, Protocol, NEW d \in Devices, request[d] = "XferFirmware",
         answer[d] = "ok", XferResponse(d),
         UNCHANGED <<file, waitingAt, started, device>>
  PROVE  Protocol'
<1> DEFINE o == offset[d] + ReadLength
<1>1. o \in Nat /\ offset[d] \in Nat
  BY UpgraderAssumption DEF TypeOK
<1>2. fsm[d] = "Xfer"
  BY Pending DEF Again
<1>3. \A x \in 0..(Length - 1) : x < o => x \in device[d].received
  BY <1>1, UpgraderAssumption DEF Protocol, TransferOK, Block
<1>4. FirmwareLength = Length
  BY <1>1 DEF Protocol, TransferOK, FirmwareLength
<1>5. CASE o < FirmwareLength
  <2>1. Row(fsm[d], "Xfer", "Xfer") \in EventTable
    BY <1>2 DEF EventTable
  <2>2. FsmEventHandler(d, "Xfer", o)
    BY <1>5 DEF XferResponse
  <2>3. Prepared(d, "Xfer", Sends("Xfer", o), o)
    BY <1>3, <1>5 DEF Prepared, Sends, Again
  <2>4. "Xfer" \in Events /\ "Xfer" \in States
    BY DEF Events, States
  <2>5. QED
    BY <1>1, <2>1, <2>2, <2>3, <2>4, AdvanceSafe
<1>6. CASE ~(o < FirmwareLength)
  <2>1. Row(fsm[d], "CompleteXfer", "CompleteXfer") \in EventTable
    BY <1>2 DEF EventTable
  <2>2. FsmEventHandler(d, "CompleteXfer", o)
    BY <1>6 DEF XferResponse
  <2>3. \A x \in 0..(Length - 1) : x \in device[d].received
    BY <1>1, <1>3, <1>4, <1>6, UpgraderAssumption
  <2>4. device[d].received = 0..(Length - 1)
    BY <2>3 DEF TypeOK
  <2>5. Prepared(d, "CompleteXfer", Sends("CompleteXfer", o), o)
    BY <2>4 DEF Prepared, Sends, Again
  <2>6. "CompleteXfer" \in Events /\ "CompleteXfer" \in States
    BY DEF Events, States
  <2>7. QED
    BY <1>1, <2>1, <2>2, <2>5, <2>6, AdvanceSafe
<1>7. QED
  BY <1>5, <1>6

LEMMA ResponseSafe ==
  ASSUME TypeOK, Protocol, NEW d \in Devices, Response(d)
  PROVE  Protocol'
<1> DEFINE c == request[d]
<1> DEFINE o == offset[d]
<1>1. /\ c # "none" /\ o \in Nat /\ c \in Commands /\ fsm[d] = Again[c]
      /\ UNCHANGED <<file, waitingAt, started, device>>
  BY Pending DEF Response, TypeOK
<1>2. CASE answer[d] = "refused"
  BY <1>1, <1>2, ErrSafe DEF Response
<1>3. CASE answer[d] = "wait"
  BY <1>1, <1>3, RepeatSafe DEF Response
<1>4. CASE answer[d] = "ok" /\ c = "XferFirmware"
  BY <1>1, <1>4, XferSafe DEF Response
<1>5. CASE answer[d] = "ok" /\ c # "XferFirmware"
  <2>1. FsmEventHandler(d, Then[c], o)
    BY <1>5 DEF Response
  <2>2. \E n \in States :
          /\ Then[c] \in Events \ {"Err", "Request"}
          /\ Row(fsm[d], Then[c], n) \in EventTable
          /\ Prepared(d, n, Sends(Then[c], o), o)
    <3>1. CASE c = "StartUpgrade"
      <4>1. Then[c] = "Xfer" /\ fsm[d] = "Request" /\ o = 0
        BY <1>1, <3>1 DEF Then, Again, Protocol, TransferOK
      <4>2. Prepared(d, "Xfer", Sends("Xfer", o), o)
        BY <4>1, UpgraderAssumption DEF Prepared, Sends, Again
      <4>3. QED
        BY <4>1, <4>2 DEF EventTable, States, Events
    <3>2. CASE c = "CompleteXferFirmware"
      <4>1. Then[c] = "GetProgress" /\ fsm[d] = "CompleteXfer"
        BY <1>1, <3>2 DEF Then, Again
      <4>2. Prepared(d, "GetProgress", Sends("GetProgress", o), o)
        BY <1>5, <3>2 DEF Prepared, Sends, Again, Protocol, StageOK
      <4>3. QED
        BY <4>1, <4>2 DEF EventTable, States, Events
    <3>3. CASE c = "GetUpgradeProgress"
      <4>1. Then[c] = "Complete" /\ fsm[d] = "GetProgress"
        BY <1>1, <3>3 DEF Then, Again
      <4>2. Prepared(d, "Complete", Sends("Complete", o), o)
        BY <1>5, <4>1 DEF Prepared, Sends, Again, Protocol, StageOK
      <4>3. QED
        BY <4>1, <4>2 DEF EventTable, States, Events
    <3>4. CASE c = "RequestReboot"
      <4>1. Then[c] = "Reinit" /\ fsm[d] = "Complete"
        BY <1>1, <3>4 DEF Then, Again
      <4>2. Prepared(d, "Idle", Sends("Reinit", o), o)
        BY <4>1 DEF Prepared, Sends, Protocol, StageOK
      <4>3. QED
        BY <4>1, <4>2 DEF EventTable, States, Events
    <3>5. QED
      BY <1>1, <1>5, <3>1, <3>2, <3>3, <3>4 DEF Commands
  <2>3. QED
    BY <1>1, <2>1, <2>2, AdvanceSafe
<1>6. QED
  BY <1>1, <1>2, <1>3, <1>4, <1>5 DEF Response, TypeOK, Answers

\* The device accepts, refuses or asks to wait; the upgrader does not move.
LEMMA DeviceSafe ==
  ASSUME TypeOK, Protocol, NEW d \in Devices, DeviceStep(d)
  PROVE  Protocol'
<1> USE DEF Answering, TypeOK
<1>1. /\ UNCHANGED <<file, waitingAt, host>>
      /\ answer[d] = "none" /\ request[d] # "none"
      /\ FirmwareLength' = FirmwareLength
  BY DEF DeviceStep, file, FirmwareLength
<1>2. \A x \in Devices \ {d} :
        answer'[x] = answer[x] /\ device'[x] = device[x]
  BY DEF DeviceStep, AsksToWait, Refuses, Starts, Stores, Verifies, Installs,
         Reboots
<1>3. RequestOK' /\ EndedOK' /\ NotStartedOK'
  BY <1>1 DEF Protocol, RequestOK, EndedOK, NotStartedOK, host
<1>4. /\ device'[d].received = device[d].received
         \/ request[d] = "StartUpgrade"
         \/ /\ request[d] = "XferFirmware"
            /\ device'[d].received = device[d].received \cup Block(d)
      /\ answer'[d] = "ok" /\ request[d] = "XferFirmware"
           => Block(d) \subseteq device'[d].received
  BY <1>1 DEF DeviceStep, AsksToWait, Refuses, Starts, Stores, Verifies,
              Installs, Reboots
<1>5. fsm[d] = Again[request[d]] /\ request[d] \in Commands
  BY <1>1 DEF Protocol, RequestOK
<1>6. /\ device[d].stage = "verified" /\ request[d] # "StartUpgrade"
           => device'[d].stage \in {"verified", "installed"}
      /\ device[d].stage = "installed"
         /\ request[d] \notin {"StartUpgrade", "CompleteXferFirmware"}
           => device'[d].stage = "installed"
      /\ answer'[d] = "ok" /\ request[d] = "CompleteXferFirmware"
           => device'[d].stage = "verified"
      /\ answer'[d] = "ok" /\ request[d] = "GetUpgradeProgress"
           => device'[d].stage = "installed"
  BY <1>1 DEF DeviceStep, AsksToWait, Refuses, Starts, Stores, Verifies,
              Installs, Reboots
<1>7. TransferOK'
  BY <1>1, <1>2, <1>4 DEF Protocol, TransferOK, host, Block
<1>8. fsm[d] = "GetProgress" => request[d] = "GetUpgradeProgress"
  BY <1>5 DEF Again, Commands
<1>9. /\ fsm[d] = "Complete" => request[d] = "RequestReboot"
      /\ fsm[d] # "Idle"
  BY <1>5 DEF Again, Commands
<1>10. StageOK'
  BY <1>1, <1>2, <1>6, <1>8, <1>9 DEF Protocol, StageOK, host
<1>11. WholeImage'
  BY <1>1, <1>2, <1>4 DEF Protocol, WholeImage, host
<1>12. SuccessIsInstalled'
  BY <1>1, <1>2, <1>9 DEF Protocol, SuccessIsInstalled, host
<1>13. QED
  BY <1>3, <1>7, <1>10, <1>11, <1>12 DEF Protocol

LEMMA DestroySafe ==
  ASSUME TypeOK, Protocol, NEW d \in Devices, Destroy(d)
  PROVE  Protocol'
<1> USE DEF TypeOK, Protocol
<1>1. UNCHANGED <<file, host, answer, device>> /\ FirmwareLength' = FirmwareLength
  BY DEF Destroy, file, FirmwareLength
<1>2. RequestOK' /\ NotStartedOK'
  BY <1>1, UpgraderAssumption
     DEF Destroy, RequestOK, NotStartedOK, host, Devices
<1>3. EndedOK'
  <2>1. /\ waitingAt = d /\ d \in 1..Count /\ Count \in Nat
        /\ waitingAt' = IF d = Count THEN 0 ELSE d + 1
    BY UpgraderAssumption DEF Destroy, Devices
  <2>2. \A x \in Devices :
          waitingAt' = 0 \/ x < waitingAt' => x < waitingAt \/ x = d
    BY <2>1 DEF Devices
  <2>3. \A x \in Devices :
          x < waitingAt \/ x = d => fsm[x] \in {"Idle", "Err"} /\ started[x]
    BY <2>1 DEF EndedOK, Destroy, Devices
  <2>4. QED
    BY <1>1, <2>2, <2>3 DEF EndedOK, host
<1>4. TransferOK' /\ StageOK' /\ WholeImage'
  BY <1>1 DEF TransferOK, StageOK, WholeImage, host, Block
<1>5. SuccessIsInstalled'
  BY <1>1, UpgraderAssumption DEF SuccessIsInstalled, host, Destroy, Devices
<1>6. QED
  BY <1>2, <1>3, <1>4, <1>5

\* Outside the call every upgrader has ended: no command is pending.
LEMMA QuietOutside ==
  ASSUME TypeOK, Protocol, waitingAt = 0, NEW d \in Devices
  PROVE  request[d] = "none" /\ fsm[d] \in {"Idle", "Err"}
<1>1. fsm[d] \in {"Idle", "Err"}
  BY DEF Protocol, EndedOK
<1>2. request[d] = "none"
  BY <1>1 DEF Protocol, RequestOK, TypeOK, Again, Commands
<1>3. QED
  BY <1>1, <1>2

LEMMA CallSafe ==
  ASSUME TypeOK, Protocol, UpgradeLivoxLidars
  PROVE  Protocol'
<1>1. \A d \in Devices :
        /\ request'[d] = "none" /\ fsm'[d] = "Idle" /\ ~started'[d]
        /\ waitingAt' <= d /\ waitingAt' > 0
  BY QuietOutside, UpgraderAssumption DEF UpgradeLivoxLidars, Devices
<1>2. RequestOK' /\ EndedOK' /\ NotStartedOK'
  BY <1>1, UpgraderAssumption
     DEF UpgradeLivoxLidars, RequestOK, EndedOK, NotStartedOK, Devices
<1>3. TransferOK' /\ StageOK' /\ WholeImage' /\ SuccessIsInstalled'
  BY <1>1 DEF TransferOK, StageOK, WholeImage, SuccessIsInstalled
<1>4. QED
  BY <1>2, <1>3 DEF Protocol

LEMMA FileSafe ==
  ASSUME TypeOK, Protocol, NEW f \in Files, SetFirmwarePath(f)
  PROVE  Protocol'
<1>1. waitingAt = 0 /\ UNCHANGED <<waitingAt, host, answer, device>>
  BY DEF SetFirmwarePath
<1>2. \A d \in Devices : request[d] = "none" /\ fsm[d] \in {"Idle", "Err"}
  BY <1>1, QuietOutside
<1>3. RequestOK' /\ EndedOK' /\ NotStartedOK'
  BY <1>1 DEF Protocol, RequestOK, EndedOK, NotStartedOK, host
<1>4. TransferOK' /\ StageOK' /\ WholeImage' /\ SuccessIsInstalled'
  BY <1>1, <1>2
     DEF TransferOK, StageOK, WholeImage, SuccessIsInstalled, host
<1>5. QED
  BY <1>3, <1>4 DEF Protocol

LEMMA NextSafe == TypeOK /\ Protocol /\ [Next]_vars => Protocol'
<1> SUFFICES ASSUME TypeOK, Protocol, [Next]_vars PROVE Protocol'
  OBVIOUS
<1>1. CASE UNCHANGED vars
  BY <1>1 DEF vars, file, host, Protocol, RequestOK, EndedOK, NotStartedOK,
              TransferOK, StageOK, WholeImage, SuccessIsInstalled, Block,
              FirmwareLength
<1>2. QED
  BY <1>1, FileSafe, CallSafe, StartSafe, DestroySafe, ResponseSafe,
     NoResponseSafe, DeviceSafe DEF Next

LEMMA ProtocolInvariant == Spec => [](TypeOK /\ Protocol)
  BY InitType, InitSafe, NextType, NextSafe, PTL DEF Spec

\* XferFirmwareResponseHandler: whatever was lost, refused or sent again, the
\* checksum is only asked for after the device accepted every byte.
THEOREM WholeImageSent == Spec => []WholeImage
<1>1. Protocol => WholeImage
  BY DEF Protocol
<1>2. QED
  BY <1>1, ProtocolInvariant, PTL

\* FsmEventHandler: a state machine that ran and is back in Idle, which is
\* what UpgradeLivoxLidars reports as success, has installed a verified image.
THEOREM SuccessMeansInstalled == Spec => []SuccessIsInstalled
<1>1. Protocol => SuccessIsInstalled
  BY DEF Protocol
<1>2. QED
  BY <1>1, ProtocolInvariant, PTL

\* ~LivoxLidarUpgrader: no pending command holds a pointer to an upgrader that
\* was destroyed, in however many upgrades are run one after the other.
THEOREM NoOrphanedCommand == Spec => []NoOrphan
<1>1. TypeOK /\ Protocol => NoOrphan
  BY Pending DEF NoOrphan, Alive
<1>2. QED
  BY <1>1, ProtocolInvariant, PTL

==============================================================================
