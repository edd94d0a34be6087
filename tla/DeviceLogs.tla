------------------------------ MODULE DeviceLogs ------------------------------
(***************************************************************************)
(* Device logs.  A device pushes its log files block by block; the command *)
(* thread acknowledges a block and queues it (LoggerManager::Handler), a   *)
(* thread per device writes the queue to files (LoggerHandler), and one    *)
(* more thread removes the oldest files of a directory that has grown over *)
(* its share of the cache (CycleDelete).  Destory stops them all.          *)
(*                                                                         *)
(* A file is written as block 0, which creates it, data blocks, and block  *)
(* Last, which ends it.  The device is external: it sends a block until it *)
(* is acknowledged, or does not ask for that, and goes on to the next.     *)
(* Sizes are counted in blocks, time in seconds: a file name holds the     *)
(* second of its creation.                                                 *)
(***************************************************************************)
EXTENDS Integers, Sequences, FiniteSets, SequencesExt

CONSTANTS
  Devices,
  Types,       \* log types, each with a directory: 0 real time, 1 exceptions
  LastBlock,   \* the block that ends a file
  MaxFiles,    \* files a device writes of each type
  Quota,       \* what a directory may hold, in blocks
  MaxFaults,   \* bound: failing calls of the file system, blocks and answers
               \* that are lost, blocks that come late
  MaxSessions  \* bound: calls of Init

ASSUME DeviceLogsAssumption ==
  /\ Types \subseteq {0, 1} /\ LastBlock \in Nat \ {0} /\ MaxFiles \in Nat
  /\ Quota \in Nat /\ MaxFaults \in Nat
  /\ MaxSessions \in Nat

NoFile == 0

VARIABLES
  phase,    \* of the manager: "down", "up", or the next step of Destory
  enabled,  \* log_enable_
  sessions,
  known,    \* the keys of devices_info_
  writer,   \* handlers_ with their threads
  disk,     \* every file there was, in the order of creation
  cleaner,  \* the thread of CycleDelete
  cond,     \* cond_
  sending,  \* per device and type, the block the device is at
  acked,    \* the acknowledged blocks of files the handler saw created
  faults,
  repeats   \* lost answers: the block comes again

manager == <<phase, enabled, sessions, known>>
luck == <<faults, repeats>>
vars == <<manager, writer, disk, cleaner, cond, sending, acked, luck>>

Faulty == faults + repeats < MaxFaults

Block(t, f, n) == [type |-> t, file |-> f, trans |-> n]
IsCreate(b) == b.trans = 0
IsEnd(b) == b.trans = LastBlock

\* An entry of current_files_.
NotOpen == [fp |-> NoFile, file |-> 0, trans |-> 0]

NoWriter == [ on |-> FALSE, stop |-> FALSE, queue |-> <<>>, batch |-> <<>>,
              current |-> [t \in Types |-> NotOpen] ]
NewWriter == [NoWriter EXCEPT !.on = TRUE]

Idle == [ at |-> "off", enable |-> FALSE, dirs |-> <<>>, todo |-> {},
          listed |-> FALSE ]

Init ==
  /\ phase = "down" /\ enabled = FALSE /\ sessions = 0 /\ known = {}
  /\ writer = [d \in Devices |-> NoWriter]
  /\ disk = <<>>
  /\ cleaner = Idle /\ cond = FALSE
  /\ sending = [d \in Devices |-> [t \in Types |-> [file |-> 1, trans |-> 0]]]
  /\ acked = [d \in Devices |-> {}]
  /\ faults = 0 /\ repeats = 0

-------------------------------------------------------------------------------
(***************************************************************************)
(* LoggerManager::Init: logs may be off in the configuration, and creating *)
(* the directory may fail after they were enabled.                         *)
(***************************************************************************)
InitManager(outcome) ==
  /\ phase = "down" /\ sessions < MaxSessions
  /\ phase' = "up" /\ sessions' = sessions + 1
  /\ enabled' = (outcome # "disabled")
  /\ cleaner' = IF outcome = "enabled"
                THEN [Idle EXCEPT !.at = "checking", !.enable = TRUE]
                ELSE cleaner
  /\ UNCHANGED <<known, writer, disk, cond, sending, acked, luck>>

AddDevice(d) ==
  /\ phase = "up" /\ d \notin known
  /\ known' = known \cup {d}
  /\ UNCHANGED <<phase, enabled, sessions, writer, disk, cleaner, cond,
                 sending, acked, luck>>

\* A handler is made for a device that is known.
WithHandler(d) ==
  IF ~writer[d].on /\ d \in known THEN NewWriter ELSE writer[d]

StartLogger(d) ==
  /\ phase = "up" /\ enabled /\ ~writer[d].on /\ d \in known
  /\ writer' = [writer EXCEPT ![d] = WithHandler(d)]
  /\ UNCHANGED <<manager, disk, cleaner, cond, sending, acked, luck>>

-------------------------------------------------------------------------------
(***************************************************************************)
(* LoggerManager::Handler, under state_mutex_: it acknowledges the block,  *)
(* then queues it if there is a handler, which the first block of a file   *)
(* makes.  The last block also asks for a clean-up, under mutex_.          *)
(***************************************************************************)
Created(d, b) ==
  \/ IsCreate(b)
  \/ \E a \in acked[d] : a.type = b.type /\ a.file = b.file /\ IsCreate(a)

CleanerHasLock == cleaner.at = "round"

\* Mutant: a block that comes while the thread writes is not queued.
StoreLogBag_Busy(d, b) ==
  LET w == IF IsCreate(b) THEN WithHandler(d) ELSE writer[d]
  IN /\ writer' = [writer EXCEPT ![d] =
                     IF w.on /\ w.batch = <<>>
                     THEN [w EXCEPT !.queue = Append(@, b)] ELSE w]
     /\ cond' = (cond \/ (IsEnd(b) /\ w.on))

StoreLogBag(d, b) ==
  LET w == IF IsCreate(b) THEN WithHandler(d) ELSE writer[d]
  IN /\ writer' = [writer EXCEPT ![d] =
                     IF w.on THEN [w EXCEPT !.queue = Append(@, b)] ELSE w]
     /\ IsEnd(b) /\ w.on => ~CleanerHasLock
     /\ cond' = (cond \/ (IsEnd(b) /\ w.on))

Handle(d, b, asks) ==
  IF enabled
  THEN /\ StoreLogBag(d, b)
       /\ acked' = IF asks /\ Created(d, b) /\ writer'[d].on
                   THEN [acked EXCEPT ![d] = @ \cup {b}] ELSE acked
  ELSE UNCHANGED <<writer, cond, acked>>

\* The block after b.
Following(s) ==
  IF s.trans = LastBlock THEN [file |-> s.file + 1, trans |-> 0]
                         ELSE [s EXCEPT !.trans = @ + 1]

Current(d, t) == Block(t, sending[d][t].file, sending[d][t].trans)

\* The device sends a block and asks for an answer, which may be lost.
Push(d, t, answered) ==
  /\ sending[d][t].file <= MaxFiles
  /\ phase = "up"  \* Destory holds state_mutex_
  /\ answered \/ Faulty
  /\ repeats' = IF answered THEN repeats ELSE repeats + 1
  /\ Handle(d, Current(d, t), TRUE)
  /\ sending' = IF answered /\ enabled
                THEN [sending EXCEPT ![d][t] = Following(@)] ELSE sending
  /\ UNCHANGED <<manager, disk, cleaner, faults>>

\* It does not ask, and the block is lost.
LoseBlock(d, t) ==
  /\ phase = "up"
  /\ sending[d][t].file <= MaxFiles
  /\ Faulty /\ faults' = faults + 1
  /\ sending' = [sending EXCEPT ![d][t] = Following(@)]
  /\ UNCHANGED <<manager, writer, disk, cleaner, cond, acked, repeats>>

\* A block sent earlier arrives (again), after later ones.
PushLate(d, b) ==
  /\ Faulty /\ faults' = faults + 1
  /\ phase = "up"
  /\ \/ b.file < sending[d][b.type].file
     \/ /\ b.file = sending[d][b.type].file
        /\ b.trans < sending[d][b.type].trans
  /\ Handle(d, b, FALSE)
  /\ UNCHANGED <<manager, disk, cleaner, sending, repeats>>

-------------------------------------------------------------------------------
(***************************************************************************)
(* LoggerHandler::Write, on the thread of the device's handler.            *)
(***************************************************************************)
\* queue.swap(queue_): the loop leaves once it is to stop.
Swap(w) == [w EXCEPT !.batch = w.queue, !.queue = <<>>]

Take(d) ==
  /\ writer[d].on /\ ~writer[d].stop
  /\ writer[d].batch = <<>> /\ writer[d].queue # <<>>
  /\ writer' = [writer EXCEPT ![d] = Swap(@)]
  /\ UNCHANGED <<manager, disk, cleaner, cond, sending, acked, luck>>

\* Mutant: late blocks are not recognised.
IsStale_Never(c, b) == FALSE

IsStale(c, b) == b.trans < c.trans /\ ~IsCreate(b)

\* The clock when a file is made: the second of the file before, or later.
Seconds ==
  IF disk = <<>> THEN {0} ELSE {Last(disk).second, Last(disk).second + 1}

\* A name is a second, a serial number, a log type and a file index.
HasName(i, d, b, now) ==
  /\ ~disk[i].removed /\ disk[i].second = now
  /\ disk[i].device = d /\ disk[i].type = b.type /\ disk[i].file = b.file

\* fopen(.., "ab"): the file of that name, which exists if it is made twice
\* in a second; and the file with the block appended.
Named(d, b, now) ==
  IF \E i \in DOMAIN disk : HasName(i, d, b, now)
  THEN CHOOSE i \in DOMAIN disk : HasName(i, d, b, now)
  ELSE Len(disk) + 1

Written(i, d, b, now) ==
  IF i \in DOMAIN disk
  THEN [disk EXCEPT ![i].blocks = Append(@, b)]
  ELSE Append(disk, [ device |-> d, type |-> b.type, file |-> b.file,
                      second |-> now, removed |-> FALSE, blocks |-> <<b>> ])

\* What the head of the batch makes of the entry c of its type: the entry,
\* and the files.
Outcome(c, dk) == [entry |-> c, disk |-> dk]

\* Closes the open file; making the directory or the file may fail.
CreateFile(d, b, c) ==
  LET opened(fp) == [fp |-> fp, file |-> b.file, trans |-> b.trans]
      Made(now) == LET i == Named(d, b, now)
                   IN Outcome(opened(i), Written(i, d, b, now))
  IN [ done |-> {Made(now) : now \in Seconds},
       failed |-> {Outcome(c, disk), Outcome(opened(NoFile), disk)} ]

WriteFile(d, b, c) ==
  IF c.file # b.file THEN Outcome(c, disk)
  ELSE Outcome([c EXCEPT !.trans = b.trans],
               IF c.fp # NoFile THEN Written(c.fp, d, b, 0) ELSE disk)

StopFile(b, c) == Outcome([c EXCEPT !.fp = NoFile, !.trans = b.trans], disk)

Process(d) ==
  LET b == Head(writer[d].batch)
      c == writer[d].current[b.type]
      Done(o) == /\ writer' = [writer EXCEPT ![d].batch = Tail(@),
                                            ![d].current[b.type] = o.entry]
                 /\ disk' = o.disk
  IN /\ writer[d].on /\ writer[d].batch # <<>>
     /\ \/ IsStale(c, b) /\ Done(Outcome(c, disk)) /\ UNCHANGED faults
        \/ /\ IsCreate(b)
           /\ \/ /\ \E o \in CreateFile(d, b, c).done : Done(o)
                 /\ UNCHANGED faults
              \/ /\ Faulty /\ faults' = faults + 1
                 /\ \E o \in CreateFile(d, b, c).failed : Done(o)
        \/ ~IsStale(c, b) /\ IsEnd(b) /\ Done(StopFile(b, c))
           /\ UNCHANGED faults
        \/ ~IsStale(c, b) /\ ~IsEnd(b) /\ ~IsCreate(b)
           /\ Done(WriteFile(d, b, c)) /\ UNCHANGED faults
     /\ UNCHANGED <<manager, cleaner, cond, sending, acked, repeats>>

-------------------------------------------------------------------------------
(***************************************************************************)
(* CycleDelete: woken by cond_ or after ten minutes, it goes over the      *)
(* directories with mutex_ held.  The files of a directory are listed once *)
(* and removed in the order of their names' seconds; its size is looked up *)
(* before each removal.                                                    *)
(***************************************************************************)
Dirs == SetToSortSeq(Types, <)
Files(t) == {i \in DOMAIN disk : disk[i].type = t /\ ~disk[i].removed}
GetDirTotalSize(t) ==
  FoldSet(LAMBDA i, sum : sum + Len(disk[i].blocks), 0, Files(t))
Over(t) == GetDirTotalSize(t) > Quota

\* Mutant: files are removed in the order of their indices.
Oldest_ByIndex(S) == {i \in S : \A j \in S : disk[i].file <= disk[j].file}

Oldest(S) == {i \in S : \A j \in S : disk[i].second <= disk[j].second}

Wake(timeout) ==
  /\ cleaner.at = "waiting" /\ (cond \/ timeout)
  /\ cleaner' = [cleaner EXCEPT !.at = "round", !.dirs = Dirs]
  /\ UNCHANGED <<manager, writer, disk, cond, sending, acked, luck>>

InRound == cleaner.at = "round" /\ cleaner.dirs # <<>>

GetFileNames ==
  /\ InRound /\ ~cleaner.listed /\ Over(Head(cleaner.dirs))
  /\ cleaner' = [cleaner EXCEPT !.todo = Files(Head(cleaner.dirs)),
                               !.listed = TRUE]
  /\ UNCHANGED disk

RemoveOldest ==
  /\ InRound /\ cleaner.listed /\ Over(Head(cleaner.dirs))
  /\ \E i \in Oldest(cleaner.todo) :
       /\ disk' = [disk EXCEPT ![i].removed = TRUE]
       /\ cleaner' = [cleaner EXCEPT !.todo = @ \ {i}]

NextDir ==
  /\ InRound
  /\ ~Over(Head(cleaner.dirs)) \/ (cleaner.listed /\ cleaner.todo = {})
  /\ cleaner' = [cleaner EXCEPT !.dirs = Tail(@), !.todo = {},
                               !.listed = FALSE]
  /\ UNCHANGED disk

\* The round ends: cond_ = false; the loop asks whether to go on.
EndRound ==
  /\ cleaner.at = "round" /\ cleaner.dirs = <<>>
  /\ cleaner' = [cleaner EXCEPT !.at = "checking"]
  /\ cond' = FALSE
  /\ UNCHANGED <<manager, writer, disk, sending, acked, luck>>

CheckEnable ==
  /\ cleaner.at = "checking"
  /\ cleaner' = [cleaner EXCEPT !.at = IF cleaner.enable THEN "waiting"
                                                        ELSE "off"]
  /\ UNCHANGED <<manager, writer, disk, cond, sending, acked, luck>>

CycleDelete ==
  \/ Wake(FALSE) \/ EndRound \/ CheckEnable
  \/ /\ GetFileNames \/ RemoveOldest \/ NextDir
     /\ UNCHANGED <<manager, writer, cond, sending, acked, luck>>

-------------------------------------------------------------------------------
(***************************************************************************)
(* LoggerManager::Destory, with state_mutex_ held throughout.              *)
(***************************************************************************)
\* Mutant: the thread is woken before it is told to leave.
QuitSteps_Swapped == <<"notify", "disable">>

QuitSteps == <<"disable", "notify">>

QuitStep(step) ==
  \/ /\ step = "disable"
     /\ cleaner' = [cleaner EXCEPT !.enable = FALSE]
     /\ UNCHANGED cond
  \/ /\ step = "notify" /\ ~CleanerHasLock
     /\ cond' = TRUE
     /\ UNCHANGED cleaner

RequestQuit ==
  /\ \/ phase = "up" /\ QuitStep(QuitSteps[1]) /\ phase' = "quit"
     \/ phase = "quit" /\ QuitStep(QuitSteps[2]) /\ phase' = "join"
  /\ UNCHANGED <<enabled, sessions, known, writer, disk, sending, acked, luck>>

JoinCleaner ==
  /\ phase = "join" /\ cleaner.at = "off"
  /\ phase' = "handlers"
  /\ UNCHANGED <<enabled, sessions, known, writer, disk, cleaner, cond,
                 sending, acked, luck>>

\* LoggerHandler::Destory, one handler after the other: the thread finishes
\* its batch; what is still queued goes with the handler.
StopWriter(d) ==
  /\ phase = "handlers" /\ writer[d].on /\ \A e \in Devices : ~writer[e].stop
  /\ writer' = [writer EXCEPT ![d].stop = TRUE]
  /\ UNCHANGED <<manager, disk, cleaner, cond, sending, acked, luck>>

JoinWriter(d) ==
  /\ writer[d].stop /\ writer[d].batch = <<>>
  /\ writer' = [writer EXCEPT ![d] = NoWriter]
  /\ acked' = [acked EXCEPT ![d] = {}]
  /\ UNCHANGED <<manager, disk, cleaner, cond, sending, luck>>

EndDestory ==
  /\ phase = "handlers" /\ \A d \in Devices : ~writer[d].on
  /\ phase' = "down" /\ enabled' = FALSE /\ known' = {}
  /\ UNCHANGED <<sessions, writer, disk, cleaner, cond, sending, acked, luck>>

-------------------------------------------------------------------------------
Outcomes == {"disabled", "failed", "enabled"}

Blocks == {Block(t, f, n) : t \in Types, f \in 1..MaxFiles, n \in 0..LastBlock}

Stopping == RequestQuit \/ JoinCleaner \/ EndDestory

Next ==
  \/ \E o \in Outcomes : InitManager(o)
  \/ \E d \in Devices :
       \/ AddDevice(d) \/ StartLogger(d)
       \/ \E t \in Types :
            \/ \E answered \in BOOLEAN : Push(d, t, answered)
            \/ LoseBlock(d, t)
       \/ \E b \in Blocks : PushLate(d, b)
       \/ Take(d) \/ Process(d) \/ StopWriter(d) \/ JoinWriter(d)
  \/ CycleDelete \/ Wake(TRUE)
  \/ Stopping

Spec == Init /\ [][Next]_vars

\* The threads run.  The ten minutes of wait_for are not counted on.
FairSpec ==
  /\ Spec
  /\ WF_vars(CycleDelete)
  /\ WF_vars(phase # "up" /\ Stopping)
  /\ \A d \in Devices :
       WF_vars(Process(d)) /\ WF_vars(StopWriter(d)) /\ WF_vars(JoinWriter(d))

-------------------------------------------------------------------------------
(***************************************************************************)
(* Properties.                                                             *)
(***************************************************************************)
\* An entry of current_files_, a handler, where a device is, and a file.
Entries == [fp : Nat, file : 0..MaxFiles, trans : 0..LastBlock]
Writers == [ on : BOOLEAN, stop : BOOLEAN,
             queue : Seq(Blocks), batch : Seq(Blocks),
             current : [Types -> Entries] ]
Places == [file : 1..(MaxFiles + 1), trans : 0..LastBlock]
LogFiles == [ device : Devices, type : Types, file : 1..MaxFiles,
              second : Nat, removed : BOOLEAN, blocks : Seq(Blocks) ]

\* The types of the variables; the thread of CycleDelete is joined before the
\* handlers go, and only lists files there are.
TypeOK ==
  /\ phase \in {"down", "up", "quit", "join", "handlers"}
  /\ enabled \in BOOLEAN /\ cond \in BOOLEAN /\ known \subseteq Devices
  /\ writer \in [Devices -> Writers]
  /\ disk \in Seq(LogFiles)
  /\ sending \in [Devices -> [Types -> Places]]
  /\ acked \in [Devices -> SUBSET Blocks]
  /\ faults \in Nat /\ repeats \in Nat /\ sessions \in Nat
  /\ cleaner.at \in {"off", "checking", "waiting", "round"}
  /\ cleaner.enable \in BOOLEAN /\ cleaner.listed \in BOOLEAN
  /\ cleaner.todo \subseteq DOMAIN disk
  /\ phase \in {"down", "handlers"} => cleaner.at = "off"

\* LoggerHandler::Write: whatever is lost, sent again or late, a file holds
\* blocks of its own only, in their order, since it was created.
InOrder ==
  \A i \in DOMAIN disk :
    LET bs == disk[i].blocks
    IN \A k \in DOMAIN bs :
         /\ bs[k].file = disk[i].file /\ bs[k].type = disk[i].type
         /\ k > 1 /\ ~IsCreate(bs[k]) => bs[k - 1].trans <= bs[k].trans

\* LoggerManager::Handler acknowledges before it queues: while the handler
\* lives, an acknowledged block of a file it was told to create waits to be
\* written or was written, unless the file system failed or a block came late.
\* The data of the last block, which StopFile does not write, is left out.
AckedIsKept ==
  faults = 0 =>
    \A d \in Devices : \A b \in {x \in acked[d] : ~IsEnd(x)} :
      \/ \E k \in DOMAIN writer[d].queue : writer[d].queue[k] = b
      \/ \E k \in DOMAIN writer[d].batch : writer[d].batch[k] = b
      \/ \E i \in DOMAIN disk :
           disk[i].device = d /\ \E k \in DOMAIN disk[i].blocks :
                                   disk[i].blocks[k] = b

\* CycleDelete: whichever devices write meanwhile, a file is never gone while
\* an older one of its directory is there.
OldestFirst ==
  \A i, j \in DOMAIN disk :
    disk[i].type = disk[j].type /\ disk[i].removed /\ ~disk[j].removed
      => disk[i].second <= disk[j].second

\* Destory returns, and does not wait for the ten minutes to pass: its wake-up
\* reaches the thread wherever it is in its round.
StopReturns == phase = "quit" ~> phase = "down"
===============================================================================
