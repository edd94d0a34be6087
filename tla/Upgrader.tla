------------------------------- MODULE Upgrader -------------------------------
(***************************************************************************)
(* The firmware upgrade: Firmware (the file), LivoxLidarUpgrader (a state  *)
(* machine per device, driven by the completions of its own commands) and  *)
(* UpgradeManager::UpgradeLivoxLidars (which blocks until every state      *)
(* machine has ended, in the destructors of its upgraders).                *)
(*                                                                         *)
(* One step is one FsmEventHandler call with the response handler that     *)
(* makes it, on an upgrade thread or an I/O thread.  A request that was    *)
(* registered completes once, by its ACK, a timeout or a failing send      *)
(* (CommandCompletion); ACKs of earlier attempts are dropped with their    *)
(* sequence number.  The observer is the application's and is left out.    *)
(*                                                                         *)
(* The device is external: it stores the blocks it gets, may ask to wait a *)
(* bounded number of times, refuses what it likes, and verifies the image  *)
(* against the checksum of the header.  A request or its answer may be     *)
(* lost.  The handles are those of devices with a family handler.          *)
(*                                                                         *)
(* Bytes come in units; a read takes ReadLength of them.                   *)
(***************************************************************************)
EXTENDS Naturals, FiniteSets

CONSTANTS
  Count,             \* lidar_num, the devices upgraded together
  Length,            \* header_.firmware_length of the application's file
  ReadLength,        \* read_length_ (1024 bytes)
  TryLimit,          \* kGeneralTryCountLimit (10)
  ProgressTryLimit,  \* kGetProcessTryCountLimit (30)
  MaxWaits,          \* how often a device may answer "not yet" in an upgrade
  Files              \* what the application may offer, of FileKinds

Devices == 1..Count

(***************************************************************************)
(* "short" is below MiniFileSize, "corrupt" fails the header's CRC,        *)
(* "truncated" has a valid header but too few data bytes.                  *)
(***************************************************************************)
FileKinds == {"good", "missing", "short", "corrupt", "truncated"}

ASSUME UpgraderAssumption ==
  /\ Count \in Nat /\ Length \in Nat \ {0} /\ ReadLength \in Nat \ {0}
  /\ TryLimit \in Nat \ {0} /\ ProgressTryLimit \in Nat \ {0}
  /\ MaxWaits \in Nat /\ Files \subseteq FileKinds

VARIABLES
  stream,    \* the file file_ has open, or "closed"
  header,    \* header_ : "zero" before a file was read
  data,      \* data_
  offered,   \* the last path set and what the call answered
  waitingAt, \* the upgrader whose destructor runs; 0 outside the call
  fsm,       \* fsm_state_
  started,   \* the upgrade thread has made its call
  offset,    \* read_offset_
  tries,     \* try_count_
  request,   \* the command of this upgrader that is pending
  answer,    \* the device's answer to it, on its way
  device     \* the device's side of the upgrade

file == <<stream, header, data, offered>>
host == <<fsm, started, offset, tries, request>>
vars == <<file, waitingAt, host, answer, device>>

States == {"Idle", "Request", "Xfer", "CompleteXfer", "GetProgress",
           "Complete", "Err"}
Events == {"Request", "Xfer", "CompleteXfer", "GetProgress", "Complete",
           "Reinit", "Err"}
Commands == {"StartUpgrade", "XferFirmware", "CompleteXferFirmware",
             "GetUpgradeProgress", "RequestReboot"}
Answers == {"ok", "wait", "refused"}

Fresh == [received |-> {}, stage |-> "running", waits |-> 0]

\* The types of the variables; try_count_ stays below the limits.
TypeOK ==
  /\ stream \in FileKinds \cup {"closed"}
  /\ header \in {"zero", "valid", "bad"}
  /\ data \in {"none", "image", "partial", "garbage"}
  /\ offered \in [path : FileKinds \cup {"none"}, answer : BOOLEAN]
  /\ waitingAt \in 0..Count
  /\ fsm \in [Devices -> States] /\ started \in [Devices -> BOOLEAN]
  /\ offset \in [Devices -> Nat]
  /\ tries \in [Devices -> 0..(TryLimit - 1) \cup 0..(ProgressTryLimit - 1)]
  /\ request \in [Devices -> Commands \cup {"none"}]
  /\ answer \in [Devices -> Answers \cup {"none"}]
  /\ device \in [Devices -> [received : SUBSET (0..(Length - 1)),
                             stage : {"running", "receiving", "verified",
                                      "installed"},
                             waits : 0..MaxWaits]]

Init ==
  /\ stream = "closed" /\ header = "zero" /\ data = "none"
  /\ offered = [path |-> "none", answer |-> FALSE]
  /\ waitingAt = 0
  /\ fsm = [d \in Devices |-> "Idle"]
  /\ started = [d \in Devices |-> FALSE]
  /\ offset = [d \in Devices |-> 0]
  /\ tries = [d \in Devices |-> 0]
  /\ request = [d \in Devices |-> "none"]
  /\ answer = [d \in Devices |-> "none"]
  /\ device = [d \in Devices |-> Fresh]

-------------------------------------------------------------------------------
(***************************************************************************)
(* The file.  open() of a stream that is open already fails and leaves the *)
(* stream as it was, in a failed state: is_open() is still true, tellg()   *)
(* is -1 (a huge file_size_), no read stores anything, and the CRC is      *)
(* computed over the header left from before.  The CRC of a zero header    *)
(* is zero, which is what it holds.  A failing read of the data is printed *)
(* and accepted.  A file that is refused stays open.                       *)
(***************************************************************************)
\* The header ReadAndCheckHeader checks, and the data it leaves, for file f.
HeaderOf(f) == IF f = "corrupt" THEN "bad" ELSE "valid"
DataOf(f) == IF f = "truncated" THEN "partial" ELSE "image"

ReadAndCheckHeader(h, d) ==
  /\ header' = h
  /\ data' = IF h = "bad" THEN data ELSE d

OpenFresh(f) ==
  /\ stream = "closed"
  /\ CASE f = "missing" -> UNCHANGED <<stream, header, data>>
       [] f = "short" -> stream' = f /\ UNCHANGED <<header, data>>
       [] OTHER -> stream' = f /\ ReadAndCheckHeader(HeaderOf(f), DataOf(f))
  /\ offered' = [path |-> f, answer |-> f \in {"good", "truncated"}]

OpenAgain(f) ==
  /\ stream # "closed"
  /\ ReadAndCheckHeader(header, "garbage")
  /\ offered' = [path |-> f, answer |-> header # "bad"]
  /\ UNCHANGED stream

SetFirmwarePath(f) ==
  /\ waitingAt = 0
  /\ OpenFresh(f) \/ OpenAgain(f)
  /\ UNCHANGED <<waitingAt, host, answer, device>>

FirmwareLength == IF header = "zero" THEN 0 ELSE Length

-------------------------------------------------------------------------------
(***************************************************************************)
(* upgrade_event_table, and FsmEventHandler: an Err event sets the state,  *)
(* then the first matching row sets the next state and calls its handler.  *)
(***************************************************************************)
Row(s, e, n) == [state |-> s, event |-> e, next |-> n]

\* Mutant: the table declares the upgrade over as soon as it asks to reboot.
EventTable_EarlyIdle ==
  { Row("Idle", "Request", "Request"), Row("Request", "Request", "Request"),
    Row("Request", "Xfer", "Xfer"), Row("Xfer", "Xfer", "Xfer"),
    Row("Xfer", "CompleteXfer", "CompleteXfer"),
    Row("CompleteXfer", "CompleteXfer", "CompleteXfer"),
    Row("CompleteXfer", "GetProgress", "GetProgress"),
    Row("GetProgress", "GetProgress", "GetProgress"),
    Row("GetProgress", "Complete", "Idle") }

\* Mutant: no row lets a failed reboot request be repeated.
EventTable_NoRepeat ==
  { Row("Idle", "Request", "Request"), Row("Request", "Request", "Request"),
    Row("Request", "Xfer", "Xfer"), Row("Xfer", "Xfer", "Xfer"),
    Row("Xfer", "CompleteXfer", "CompleteXfer"),
    Row("CompleteXfer", "CompleteXfer", "CompleteXfer"),
    Row("CompleteXfer", "GetProgress", "GetProgress"),
    Row("GetProgress", "GetProgress", "GetProgress"),
    Row("GetProgress", "Complete", "Complete"),
    Row("Complete", "Reinit", "Idle") }

EventTable ==
  { Row("Idle", "Request", "Request"), Row("Request", "Request", "Request"),
    Row("Request", "Xfer", "Xfer"), Row("Xfer", "Xfer", "Xfer"),
    Row("Xfer", "CompleteXfer", "CompleteXfer"),
    Row("CompleteXfer", "CompleteXfer", "CompleteXfer"),
    Row("CompleteXfer", "GetProgress", "GetProgress"),
    Row("GetProgress", "GetProgress", "GetProgress"),
    Row("GetProgress", "Complete", "Complete"),
    Row("Complete", "Complete", "Complete"),
    Row("Complete", "Reinit", "Idle") }

\* XferFirmware returns -1 and sends nothing past the end of the image.
Sends(e, o) ==
  CASE e = "Request" -> "StartUpgrade"
    [] e = "Xfer" -> IF o < FirmwareLength THEN "XferFirmware" ELSE "none"
    [] e = "CompleteXfer" -> "CompleteXferFirmware"
    [] e = "GetProgress" -> "GetUpgradeProgress"
    [] e = "Complete" -> "RequestReboot"
    [] OTHER -> "none"

FsmEventHandler(d, e, o) ==
  LET s == IF e = "Err" THEN "Err" ELSE fsm[d]
      rows == {r \in EventTable : r.state = s /\ r.event = e}
  IN /\ fsm' = [fsm EXCEPT ![d] =
                  IF rows = {} THEN s ELSE (CHOOSE r \in rows : TRUE).next]
     /\ request' = [request EXCEPT ![d] =
                      IF rows = {} THEN "none" ELSE Sends(e, o)]
     /\ offset' = [offset EXCEPT ![d] =
                     IF rows # {} /\ e = "Request" THEN 0 ELSE o]
     /\ answer' = [answer EXCEPT ![d] = "none"]

-------------------------------------------------------------------------------
(***************************************************************************)
(* UpgradeLivoxLidars: makes an upgrader per handle, starts their threads, *)
(* closes the file, and destroys them in order.  It is called after        *)
(* SetLivoxLidarUpgradeFirmwarePath answered true; without a handle it has *)
(* nobody to wait for.                                                     *)
(***************************************************************************)
UpgradeLivoxLidars ==
  /\ waitingAt = 0 /\ offered.answer
  /\ waitingAt' = IF Count > 0 THEN 1 ELSE 0
  /\ fsm' = [d \in Devices |-> "Idle"]
  /\ started' = [d \in Devices |-> FALSE]
  /\ offset' = [d \in Devices |-> 0]
  /\ tries' = [d \in Devices |-> 0]
  /\ stream' = "closed"
  /\ device' = [d \in Devices |-> [device[d] EXCEPT !.waits = 0]]
  /\ UNCHANGED <<header, data, offered, request, answer>>

StartUpgradeLivoxLidar(d) ==
  /\ waitingAt > 0 /\ ~started[d]
  /\ started' = [started EXCEPT ![d] = TRUE]
  /\ FsmEventHandler(d, "Request", 0)
  /\ UNCHANGED <<file, waitingAt, tries, device>>

(***************************************************************************)
(* ~LivoxLidarUpgrader looks at the state every 100 ms, the first time     *)
(* 100 ms after its call: the upgrade thread is assumed to have started by *)
(* then.  It ends when the state is Err or Idle.                           *)
(***************************************************************************)
Destroy(d) ==
  /\ waitingAt = d /\ started[d] /\ fsm[d] \in {"Idle", "Err"}
  /\ waitingAt' = IF d = Count THEN 0 ELSE d + 1
  /\ UNCHANGED <<file, host, answer, device>>

-------------------------------------------------------------------------------
(***************************************************************************)
(* The response handlers.  Every answer resets try_count_; "wait" (not     *)
(* ready, erasing, progress below 100) asks again without counting; any    *)
(* other return code is the end.                                           *)
(***************************************************************************)
Again == [ StartUpgrade |-> "Request", XferFirmware |-> "Xfer",
           CompleteXferFirmware |-> "CompleteXfer",
           GetUpgradeProgress |-> "GetProgress", RequestReboot |-> "Complete" ]

Then == [ StartUpgrade |-> "Xfer", CompleteXferFirmware |-> "GetProgress",
          GetUpgradeProgress |-> "Complete", RequestReboot |-> "Reinit" ]

\* Mutant: a block is dropped when the last one is not a full one.
XferResponse_DropsTail(d) ==
  LET o == offset[d] + ReadLength
  IN FsmEventHandler(d, IF o + ReadLength <= FirmwareLength THEN "Xfer"
                                                   ELSE "CompleteXfer", o)

XferResponse(d) ==
  LET o == offset[d] + ReadLength
  IN FsmEventHandler(d, IF o < FirmwareLength THEN "Xfer"
                                              ELSE "CompleteXfer", o)

Response(d) ==
  /\ request[d] # "none" /\ answer[d] # "none"
  /\ tries' = [tries EXCEPT ![d] = 0]
  /\ CASE answer[d] = "refused" -> FsmEventHandler(d, "Err", offset[d])
       [] answer[d] = "wait" ->
            FsmEventHandler(d, Again[request[d]], offset[d])
       [] OTHER -> IF request[d] = "XferFirmware"
                   THEN XferResponse(d)
                   ELSE FsmEventHandler(d, Then[request[d]], offset[d])
  /\ UNCHANGED <<file, waitingAt, started, device>>

Limit(c) == IF c = "GetUpgradeProgress" THEN ProgressTryLimit ELSE TryLimit

\* Mutant: progress that cannot be queried counts as complete.
Exhausted_Complete(c) ==
  CASE c = "RequestReboot" -> "Reinit"
    [] c = "GetUpgradeProgress" -> "Complete"
    [] OTHER -> "Err"

\* When its retries are exhausted, a reboot request is taken as done.
Exhausted(c) == IF c = "RequestReboot" THEN "Reinit" ELSE "Err"

\* The command timed out, or its send failed.
NoResponse(d) ==
  LET c == request[d]
      again == tries[d] + 1 < Limit(c)
  IN /\ c # "none"
     /\ tries' = [tries EXCEPT ![d] = IF again THEN @ + 1 ELSE 0]
     /\ FsmEventHandler(d, IF again THEN Again[c] ELSE Exhausted(c), offset[d])
     /\ UNCHANGED <<file, waitingAt, started, device>>

-------------------------------------------------------------------------------
(***************************************************************************)
(* The device.                                                             *)
(***************************************************************************)
Answering(d, a, new) ==
  /\ answer' = [answer EXCEPT ![d] = a]
  /\ device' = [device EXCEPT ![d] = new]

AsksToWait(d) ==
  /\ request[d] \in {"StartUpgrade", "GetUpgradeProgress"}
  /\ request[d] = "GetUpgradeProgress" => device[d].stage = "verified"
  /\ device[d].waits < MaxWaits
  /\ Answering(d, "wait", [device[d] EXCEPT !.waits = @ + 1])

Refuses(d) == Answering(d, "refused", device[d])

Starts(d) ==
  /\ request[d] = "StartUpgrade"
  /\ Answering(d, "ok", [device[d] EXCEPT !.received = {},
                                          !.stage = "receiving"])

Block(d) ==
  {o \in 0..(Length - 1) : offset[d] <= o /\ o < offset[d] + ReadLength}

Stores(d) ==
  /\ request[d] = "XferFirmware" /\ device[d].stage = "receiving"
  /\ Answering(d, "ok", [device[d] EXCEPT !.received = @ \cup Block(d)])

Verifies(d) ==
  /\ request[d] = "CompleteXferFirmware"
  /\ \/ device[d].stage \in {"verified", "installed"}
     \/ /\ device[d].stage = "receiving"
        /\ device[d].received = 0..(Length - 1) /\ data = "image"
  /\ Answering(d, "ok", [device[d] EXCEPT !.stage = "verified"])

Installs(d) ==
  /\ request[d] = "GetUpgradeProgress"
  /\ device[d].stage \in {"verified", "installed"}
  /\ Answering(d, "ok", [device[d] EXCEPT !.stage = "installed"])

Reboots(d) ==
  /\ request[d] = "RequestReboot"
  /\ Answering(d, "ok", device[d])

DeviceStep(d) ==
  /\ answer[d] = "none" /\ request[d] # "none"
  /\ \/ AsksToWait(d) \/ Refuses(d) \/ Starts(d) \/ Stores(d)
     \/ Verifies(d) \/ Installs(d) \/ Reboots(d)
  /\ UNCHANGED <<file, waitingAt, host>>

-------------------------------------------------------------------------------
Next ==
  \/ \E f \in Files : SetFirmwarePath(f)
  \/ UpgradeLivoxLidars
  \/ \E d \in Devices :
       \/ StartUpgradeLivoxLidar(d) \/ Destroy(d)
       \/ Response(d) \/ NoResponse(d) \/ DeviceStep(d)

Spec == Init /\ [][Next]_vars

(***************************************************************************)
(* The threads run, and a pending command completes.  Nothing is assumed   *)
(* of the device.                                                          *)
(***************************************************************************)
FairSpec ==
  /\ Spec
  /\ \A d \in Devices :
       /\ WF_vars(StartUpgradeLivoxLidar(d))
       /\ WF_vars(Destroy(d))
       /\ WF_vars(Response(d) \/ NoResponse(d))

-------------------------------------------------------------------------------
(***************************************************************************)
(* Properties.                                                             *)
(***************************************************************************)

\* XferFirmwareResponseHandler: whatever was lost and sent again, the
\* checksum is only verified after every byte of the image was accepted.
WholeImage ==
  \A d \in Devices :
    request[d] = "CompleteXferFirmware" => device[d].received = 0..(Length - 1)

\* FsmEventHandler: a state machine that was started and is back in Idle,
\* which is reported as success, has installed a verified image, even when
\* the reboot that ends it was never confirmed.
SuccessIsInstalled ==
  \A d \in Devices :
    waitingAt > 0 /\ started[d] /\ fsm[d] = "Idle"
      => device[d].stage = "installed"

\* ~LivoxLidarUpgrader: a pending command refers to its upgrader, so none is
\* pending for an upgrader that was destroyed.
NoOrphan ==
  \A d \in Devices :
    request[d] # "none" => waitingAt > 0 /\ waitingAt <= d

\* UpgradeLivoxLidars returns: retries are bounded, and a device that asks to
\* wait a bounded number of times cannot hold a state machine for ever.
UpgradeReturns == waitingAt > 0 ~> waitingAt = 0
===============================================================================
