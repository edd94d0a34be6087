--------------------------- MODULE Discovery_proofs ---------------------------
(***************************************************************************)
(* Proofs about Discovery, for any devices, threads, limits and roles: the *)
(* types, that a receiving instance's discovery sends no command, and that *)
(* a device is announced once and only when it is ready.                   *)
(***************************************************************************)
EXTENDS Discovery, TLAPS

\* The steps of QueryFwTypeCallback, and those of LivoxLidarInfoChange.
Querying == {"failed", "store", "requery", "answered", "got", "mode", "reset"}
Announcing == {"mark", "flag", "notify"}

\* Only a device in the table is worked on; of the others nothing is left.
KnownOK ==
  /\ \A t \in Threads : pc[t].at # "idle" => pc[t].dev \in known
  /\ \A d \in Devices \ known :
       /\ queries[d] = 0 /\ infos[d] = 0 /\ configs[d] = 0
       /\ announced[d] = 0
       /\ d \notin gotMode /\ d \notin loader
       /\ d \notin updated /\ d \notin called

\* A device is asked for its type once at a time, until its type is decided.
OneQuery ==
  /\ \A t, u \in Threads :
       /\ pc[t].at \in Querying /\ pc[u].at \in Querying
       /\ pc[t].dev = pc[u].dev
       => t = u
  /\ \A t \in Threads : pc[t].at \in Querying => queries[pc[t].dev] = 0
  /\ \A d \in gotMode : queries[d] = 0

\* What is decided is stored at the end of the query, in two steps.
DecidedOK ==
  /\ loader \subseteq gotMode /\ loader \subseteq Loaders
  /\ \A t \in Threads :
       /\ pc[t].at \in Querying /\ pc[t].dev \in gotMode
            => pc[t].at \in {"mode", "reset"}
       /\ pc[t].at \in {"mode", "reset"} => pc[t].dev \in gotMode
       /\ pc[t].at \in Querying => pc[t].dev \notin loader

\* Repeated search replies do not pile up commands.
BoundOK ==
  /\ \A d \in Devices : infos[d] + configs[d] <= MaxPending
  /\ role = "view" /\ pc[Detection].at = "coordinate"
       => infos[pc[Detection].dev] + configs[pc[Detection].dev] < MaxPending

\* A receiving instance has no query on its way, nor one it would repeat.
ReceiverOK ==
  role = "receiver" =>
    /\ \A d \in Devices : queries[d] = 0 /\ infos[d] = 0 /\ configs[d] = 0
    /\ \A t \in Threads : pc[t].at \notin Querying

\* Only a device whose type is decided is configured.
ConfigOK == \A d \in Devices : infos[d] > 0 \/ configs[d] > 0 => d \in gotMode

\* A device about to be announced is ready.
MarkOK ==
  \A t \in Threads : pc[t].at \in Announcing =>
    /\ pc[t].dev \in gotMode
    /\ pc[t].dev \in accepted \cup loader \cup Haps
    /\ pc[t].at # "mark" => pc[t].dev \in updated

\* A device that cannot be announced by two threads: the thread at it has read
\* is_callback before any other, and sets it before it announces.
OnceOK ==
  /\ \A t \in Threads :
       pc[t].at \in Announcing /\ (pc[t].dev \notin Loaders \/ role = "view") =>
         /\ t = AckThread
         /\ pc[t].at # "mark" /\ ~pc[t].bit => announced[pc[t].dev] = 0
  /\ \A t \in Threads : pc[t].at = "notify" => pc[t].dev \in called
  /\ \A d \in Devices : announced[d] > 0 => d \in called

\* Such a device is announced at most once.
SingleOK ==
  \A d \in Devices : d \notin Loaders \/ role = "view" => announced[d] <= 1

\* Thread t has found that device d was not announced, and will announce it.
Owes(t, d) ==
  pc[t].at \in {"flag", "notify"} /\ pc[t].dev = d /\ ~pc[t].bit

\* Only two threads announce devices, and neither finds a device unannounced
\* that it announced itself.
TwiceOK ==
  /\ \A t \in Threads : pc[t].at \in Announcing => t \in {Detection, Command}
  /\ \A d \in Devices :
       announced[d] + (IF Owes(Detection, d) THEN 1 ELSE 0)
                    + (IF Owes(Command, d) THEN 1 ELSE 0) <= 2

IInv == /\ KnownOK /\ OneQuery /\ DecidedOK /\ BoundOK /\ ReceiverOK
        /\ ConfigOK /\ MarkOK /\ OnceOK /\ SingleOK /\ TwiceOK /\ AnnouncedIsReady

-----------------------------------------------------------------------------
\* Types

LEMMA GotoType ==
  ASSUME pc \in [Threads -> ThreadStates], NEW t \in Threads, NEW p \in Places, Goto(t, p)
  PROVE  pc' \in [Threads -> ThreadStates]
  BY DEF ThreadStates, Goto

LEMMA StartType ==
  ASSUME pc \in [Threads -> ThreadStates], NEW t \in Threads, NEW p \in Places, NEW d \in Devices,
         Start(t, p, d)
  PROVE  pc' \in [Threads -> ThreadStates]
  BY DEF ThreadStates, Start, Idle

LEMMA ReturnType ==
  ASSUME pc \in [Threads -> ThreadStates], NEW t \in Threads, Return(t)
  PROVE  pc' \in [Threads -> ThreadStates]
  BY DEF ThreadStates, Return, Idle, Places

\* A search reply.
LEMMA ReplyType ==
  ASSUME TypeOK, KnownOK, BoundOK, NEW d \in Devices, SearchReply(d)
  PROVE  TypeOK'
<1> USE DiscoveryAssumption DEF TypeOK
<1>1. CASE Register(d)
  BY <1>1 DEF Register, flags, pending
<1>2. CASE Discover(d)
  BY <1>2 DEF Discover, GetFirmwareType, Issue, KnownOK
<1>3. CASE Recognise(d)
  <2>1. configs' \in [Devices -> 0..MaxPending]
    BY <1>3 DEF Recognise, UpdateLidarCfg, Issue
  <2>2. pc' \in [Threads -> ThreadStates]
    BY <1>3, StartType DEF Recognise, Places
  <2>3. QED
    BY <1>3, <2>1, <2>2 DEF Recognise, tables, flags
<1>4. QED
  BY <1>1, <1>2, <1>3 DEF SearchReply

LEMMA CoordinateType ==
  ASSUME TypeOK, KnownOK, BoundOK, Coordinate
  PROVE  TypeOK'
<1> USE DiscoveryAssumption DEF TypeOK
<1> DEFINE d == pc[Detection].dev
<1>1. d \in Devices /\ At(Detection, "coordinate")
  BY DEF Coordinate, KnownOK, At
<1>2. pc' \in [Threads -> ThreadStates]
  <2>1. Goto(Detection, "mark") \/ Return(Detection)
    BY DEF Coordinate
  <2>2. QED
    BY <2>1, GotoType, ReturnType DEF Places
<1>3. infos' \in [Devices -> 0..MaxPending]
  BY <1>1 DEF Coordinate, Issue, Dev, At, BoundOK
<1>4. configs' \in [Devices -> 0..MaxPending]
  BY <1>1 DEF Coordinate, UpdateLidarCfg, Issue, Dev, At, BoundOK
<1>5. QED
  BY <1>2, <1>3, <1>4 DEF Coordinate, tables, flags

\* A command completes.
LEMMA CompletionType ==
  ASSUME TypeOK, BoundOK, NEW t \in Threads, NEW d \in Devices,
         \/ \E good \in BOOLEAN : QueryDone(t, d, good)
         \/ InfoDone(d) \/ InfoFails(t, d)
         \/ ConfigDone(d) \/ ConfigRefused(d) \/ ConfigTimesOut(t, d)
  PROVE  TypeOK'
<1> USE DiscoveryAssumption DEF TypeOK, Finish
<1>1. AckThread \in Threads
  BY DEF AckThread
<1>2. ASSUME NEW good \in BOOLEAN, QueryDone(t, d, good) PROVE TypeOK'
  <2>1. pc' \in [Threads -> ThreadStates]
    BY <1>2, StartType DEF QueryDone, Places
  <2>2. QED
    BY <1>2, <2>1 DEF QueryDone, tables, flags
<1>3. CASE InfoDone(d)
  BY <1>3 DEF InfoDone, UpdateLidarCfg, Issue, BoundOK, flags
<1>4. CASE InfoFails(t, d)
  BY <1>4 DEF InfoFails, tables, flags
<1>5. CASE ConfigDone(d)
  <2>1. pc' \in [Threads -> ThreadStates]
    BY <1>1, <1>5, StartType DEF ConfigDone, Places
  <2>2. QED
    BY <1>5, <2>1 DEF ConfigDone, flags
<1>6. CASE ConfigRefused(d)
  <2>1. pc' \in [Threads -> ThreadStates]
    BY <1>1, <1>6, StartType DEF ConfigRefused, Places
  <2>2. QED
    BY <1>6, <2>1 DEF ConfigRefused, tables, flags
<1>7. CASE ConfigTimesOut(t, d)
  BY <1>7 DEF ConfigTimesOut, tables, flags
<1>8. QED
  BY <1>2, <1>3, <1>4, <1>5, <1>6, <1>7

\* A thread inside QueryFwTypeCallback or LivoxLidarInfoChange goes on.
LEMMA StepType ==
  ASSUME TypeOK, KnownOK, OneQuery, NEW t \in Threads, Step(t)
  PROVE  TypeOK'
<1> USE DEF TypeOK, At, Dev
<1>1. pc[t].at # "idle" => pc[t].dev \in Devices
  BY DEF KnownOK
<1>2. pc[t] \in ThreadStates
  OBVIOUS
<1>3. CASE LoadCount(t)
  <2>1. pc' = [pc EXCEPT ![t] = [pc[t] EXCEPT !.at = "store", !.val = count]]
    BY <1>3 DEF LoadCount
  <2>2. pc' \in [Threads -> ThreadStates]
    BY <1>2, <2>1 DEF ThreadStates, Places
  <2>3. QED
    BY <1>1, <1>3, <2>2 DEF LoadCount, tables, flags, pending
<1>4. CASE StoreCount(t)
  <2>1. pc' \in [Threads -> ThreadStates]
    BY <1>4, GotoType DEF StoreCount, Places
  <2>2. count' \in Nat
    BY <1>2, <1>4 DEF StoreCount, ThreadStates
  <2>3. QED
    BY <1>4, <2>1, <2>2 DEF StoreCount, tables, flags, pending
<1>5. CASE Requery(t)
  <2>1. pc' \in [Threads -> ThreadStates]
    BY <1>5, ReturnType DEF Requery
  <2>2. queries' \in [Devices -> 0..1]
    BY <1>1, <1>5 DEF Requery, Issue, OneQuery, Querying
  <2>3. QED
    BY <1>5, <2>1, <2>2 DEF Requery, tables, flags
<1>6. CASE Answered(t)
  <2>1. pc' = [pc EXCEPT ![t] = [pc[t] EXCEPT !.at = "got", !.bit = TRUE]]
    BY <1>6 DEF Answered
  <2>2. pc' \in [Threads -> ThreadStates]
    BY <1>2, <2>1 DEF ThreadStates, Places
  <2>3. QED
    BY <1>1, <1>6, <2>2 DEF Answered, tables, flags, pending
<1>7. CASE StoreGot(t)
  <2>1. pc' \in [Threads -> ThreadStates]
    BY <1>7, GotoType DEF StoreGot, Places
  <2>2. QED
    BY <1>1, <1>7, <2>1 DEF StoreGot, tables, pending
<1>8. CASE StoreMode(t)
  <2>1. Return(t) \/ Goto(t, "reset")
    BY <1>8 DEF StoreMode
  <2>2. pc' \in [Threads -> ThreadStates]
    BY <2>1, GotoType, ReturnType DEF Places
  <2>3. QED
    BY <1>1, <1>8, <2>2 DEF StoreMode, tables, pending
<1>9. CASE ResetCount(t)
  <2>1. pc' \in [Threads -> ThreadStates]
    BY <1>9, ReturnType DEF ResetCount
  <2>2. QED
    BY <1>9, <2>1 DEF ResetCount, tables, flags, pending
<1>10. CASE Mark(t)
  <2>1. ASSUME NEW b \in BOOLEAN, NEW v \in Nat
        PROVE  [pc[t] EXCEPT !.at = "flag", !.bit = b, !.val = v]
                 \in ThreadStates
    BY <1>2 DEF ThreadStates, Places
  <2>2. /\ (Dev(t) \in called) \in BOOLEAN
        /\ (IF Dev(t) \in loader THEN 1 ELSE 0) \in Nat
    OBVIOUS
  <2>3. [pc[t] EXCEPT !.at = "flag", !.bit = Dev(t) \in called,
                      !.val = IF Dev(t) \in loader THEN 1 ELSE 0]
          \in ThreadStates
    BY <2>1, <2>2
  <2>4. pc' = [pc EXCEPT ![t] =
                 [pc[t] EXCEPT !.at = "flag", !.bit = Dev(t) \in called,
                               !.val = IF Dev(t) \in loader THEN 1 ELSE 0]]
    BY <1>10 DEF Mark
  <2>5. pc' \in [Threads -> ThreadStates]
    BY <2>3, <2>4
  <2>6. QED
    BY <1>1, <1>10, <2>5 DEF Mark, tables, pending
<1>11. CASE Flag(t)
  <2>1. pc' \in [Threads -> ThreadStates]
    BY <1>11, GotoType DEF Flag, Places
  <2>2. QED
    BY <1>1, <1>11, <2>1 DEF Flag, tables, pending
<1>12. CASE Notify(t)
  <2>1. pc' \in [Threads -> ThreadStates]
    BY <1>12, ReturnType DEF Notify
  <2>2. QED
    BY <1>1, <1>12, <2>1 DEF Notify, flags, pending
<1>13. QED
  BY <1>3, <1>4, <1>5, <1>6, <1>7, <1>8, <1>9, <1>10, <1>11, <1>12 DEF Step

LEMMA RestartType ==
  ASSUME TypeOK, Restart
  PROVE  TypeOK'
  BY DiscoveryAssumption DEF TypeOK, Restart

LEMMA InitType == Init => TypeOK
  BY DiscoveryAssumption
     DEF Init, TypeOK, Idle, ThreadStates, Places

LEMMA NextType == TypeOK /\ IInv /\ [Next]_vars => TypeOK'
<1> SUFFICES ASSUME TypeOK, IInv, [Next]_vars PROVE TypeOK'
  OBVIOUS
<1>1. CASE UNCHANGED vars
  BY <1>1 DEF vars, tables, flags, pending, TypeOK
<1>2. Detection \in Threads
  BY DiscoveryAssumption
<1>3. QED
  BY <1>1, <1>2, ReplyType, CoordinateType, CompletionType, StepType,
     RestartType DEF Next, IInv

-----------------------------------------------------------------------------
\* The invariant

\* Thread t is now at place p, and still at its device unless it is idle; the
\* other threads are where they were.
Moved(t, p) ==
  /\ pc'[t].at = p
  /\ p # "idle" => pc'[t].dev = pc[t].dev
  /\ \A u \in Threads : u # t => pc'[u] = pc[u]

\* A step in which nobody finds a device unannounced, or announces one.
LEMMA SameTwice ==
  ASSUME TypeOK, TwiceOK, announced' = announced,
         \A t \in Threads, d \in Devices : Owes(t, d)' => Owes(t, d),
         \A t \in Threads : pc'[t].at \in Announcing =>
           pc[t].at \in Announcing \/ t \in {Detection, Command}
  PROVE  TwiceOK'
<1>1. Detection \in Threads /\ Command \in Threads
  BY DiscoveryAssumption
<1>2. announced \in [Devices -> Nat]
  BY DEF TypeOK
<1>3. QED
  BY <1>1, <1>2 DEF TwiceOK

\* A step inside a query that leaves the tables as they are, also the last.
LEMMA CountingSafe ==
  ASSUME TypeOK, IInv, NEW t \in Threads, NEW p \in Querying \cup {"idle"},
         pc[t].at \in Querying, Moved(t, p),
         pc[t].at \in {"mode", "reset"} \/ p \notin {"mode", "reset"},
         pc[t].at \notin {"mode", "reset"} \/ p \in {"mode", "reset", "idle"},
         UNCHANGED <<role, tables, flags, pending, announced>>
  PROVE  IInv'
<1> USE DEF TypeOK, IInv, tables, flags, pending, Moved
<1> p # "coordinate" /\ p \notin Announcing
  BY DEF Querying, Announcing
<1>1. KnownOK'
  BY DEF KnownOK, Querying
<1>2. OneQuery'
  BY DEF OneQuery, Querying
<1>3. DecidedOK'
  <2>1. pc[t].at \in Querying => pc[t].dev \notin loader
    BY DEF DecidedOK
  <2>2. pc[t].dev \in gotMode <=> pc[t].at \in {"mode", "reset"}
    BY DEF DecidedOK
  <2>3. gotMode' = gotMode /\ loader' = loader
    OBVIOUS
  <2>4. \A u \in Threads :
          /\ pc'[u].at \in Querying /\ pc'[u].dev \in gotMode
               => pc'[u].at \in {"mode", "reset"}
          /\ pc'[u].at \in {"mode", "reset"} => pc'[u].dev \in gotMode
          /\ pc'[u].at \in Querying => pc'[u].dev \notin loader
    <3> TAKE u \in Threads
    <3>1. CASE u = t
      BY <2>1, <2>2, <3>1 DEF Querying
    <3>2. CASE u # t
      BY <3>2 DEF DecidedOK
    <3>3. QED
      BY <3>1, <3>2
  <2>5. QED
    BY <2>3, <2>4 DEF DecidedOK
<1>4. BoundOK'
  BY DiscoveryAssumption DEF BoundOK
<1>5. ReceiverOK'
  BY DEF ReceiverOK, Querying
<1>6. ConfigOK'
  BY DEF ConfigOK
<1>7. MarkOK'
  BY DEF MarkOK
<1>8. OnceOK'
  BY DEF OnceOK, AckThread, Announcing
<1>9. SingleOK' /\ AnnouncedIsReady'
  BY DEF SingleOK, AnnouncedIsReady
<1>10. TwiceOK'
  BY SameTwice DEF Owes, Announcing, Querying
<1>11. QED
  BY <1>1, <1>2, <1>3, <1>4, <1>5, <1>6, <1>7, <1>8, <1>9, <1>10

\* What the three ways of moving a thread come to.
LEMMA GotoMoves ==
  ASSUME TypeOK, NEW t \in Threads, NEW p \in Places \ {"idle"}, Goto(t, p)
  PROVE  Moved(t, p) /\ pc'[t].bit = pc[t].bit
  BY DEF TypeOK, Goto, Moved, ThreadStates

LEMMA ReturnMoves ==
  ASSUME TypeOK, NEW t \in Threads, Return(t)
  PROVE  Moved(t, "idle")
  BY DEF TypeOK, Return, Moved, Idle

LEMMA StartMoves ==
  ASSUME TypeOK, NEW t \in Threads, NEW p \in Places \ {"idle"},
         NEW d \in Devices, Start(t, p, d)
  PROVE  /\ pc'[t].at = p /\ pc'[t].dev = d
         /\ \A u \in Threads : u # t => pc'[u] = pc[u]
  BY DEF TypeOK, Start, Idle

LEMMA CountSafe ==
  ASSUME TypeOK, IInv, NEW t \in Threads,
         \/ LoadCount(t) \/ StoreCount(t) \/ Answered(t) \/ ResetCount(t)
  PROVE  IInv'
<1> USE DEF At
<1>1. CASE LoadCount(t)
  <2>1. pc' = [pc EXCEPT ![t] = [pc[t] EXCEPT !.at = "store", !.val = count]]
    BY <1>1 DEF LoadCount
  <2>2. Moved(t, "store")
    BY <2>1 DEF Moved, TypeOK, ThreadStates
  <2>3. QED
    BY <1>1, <2>2, CountingSafe DEF LoadCount, Querying
<1>2. CASE StoreCount(t)
  BY <1>2, GotoMoves, CountingSafe DEF StoreCount, Querying, Places
<1>3. CASE Answered(t)
  <2>1. pc' = [pc EXCEPT ![t] = [pc[t] EXCEPT !.at = "got", !.bit = TRUE]]
    BY <1>3 DEF Answered
  <2>2. Moved(t, "got")
    BY <2>1 DEF Moved, TypeOK, ThreadStates
  <2>3. QED
    BY <1>3, <2>2, CountingSafe DEF Answered, Querying
<1>4. CASE ResetCount(t)
  BY <1>4, ReturnMoves, CountingSafe DEF ResetCount, Querying
<1>5. QED
  BY <1>1, <1>2, <1>3, <1>4

\* The query is repeated: the thread leaves it, and no other is in it.
LEMMA RequerySafe ==
  ASSUME TypeOK, IInv, NEW t \in Threads, Requery(t)
  PROVE  IInv'
<1> DEFINE d == pc[t].dev
<1> USE DiscoveryAssumption DEF TypeOK, IInv, tables, flags, pending, Moved
<1>1. /\ pc[t].at = "requery" /\ Moved(t, "idle")
      /\ queries' = [queries EXCEPT ![d] = @ + 1]
      /\ UNCHANGED <<role, tables, flags, infos, configs, announced>>
  BY ReturnMoves DEF Requery, Issue, At, Dev
<1>2. /\ d \in known /\ d \in Devices /\ d \notin gotMode /\ role # "receiver"
      /\ \A u \in Threads : u # t /\ pc[u].at \in Querying => pc[u].dev # d
  BY <1>1 DEF KnownOK, DecidedOK, OneQuery, ReceiverOK, Querying
<1>3. \A x \in Devices : x # d => queries'[x] = queries[x]
  BY <1>1
<1>4. \A u \in Threads : pc'[u].at # "idle" => u # t /\ pc'[u] = pc[u]
  BY <1>1
<1>5. KnownOK'
  BY <1>1, <1>2, <1>3, <1>4 DEF KnownOK
<1>6. OneQuery'
  BY <1>1, <1>2, <1>3, <1>4 DEF OneQuery, KnownOK, Querying
<1>7. DecidedOK' /\ MarkOK'
  BY <1>1, <1>4 DEF DecidedOK, MarkOK, Querying, Announcing
<1>8. BoundOK' /\ ConfigOK'
  BY <1>1 DEF BoundOK, ConfigOK
<1>9. ReceiverOK'
  BY <1>1, <1>2 DEF ReceiverOK
<1>10. OnceOK'
  BY <1>1, <1>4 DEF OnceOK, Announcing, AckThread
<1>11. SingleOK' /\ AnnouncedIsReady'
  BY <1>1 DEF SingleOK, AnnouncedIsReady
<1>12. TwiceOK'
  BY <1>1, <1>4, SameTwice DEF Owes, Announcing
<1>13. QED
  BY <1>5, <1>6, <1>7, <1>8, <1>9, <1>10, <1>11, <1>12

\* The two stores of UpdateFwType.
LEMMA StoreGotSafe ==
  ASSUME TypeOK, IInv, NEW t \in Threads, StoreGot(t)
  PROVE  IInv'
<1> DEFINE d == pc[t].dev
<1> USE DiscoveryAssumption DEF TypeOK, IInv, tables, pending, Moved
<1>1. /\ pc[t].at = "got" /\ Moved(t, "mode")
      /\ gotMode' = gotMode \cup {d}
      /\ UNCHANGED <<role, tables, loader, updated, called, pending, announced>>
  BY GotoMoves DEF StoreGot, At, Dev, Places
<1>2. /\ d \in known /\ d \in Devices /\ d \notin loader /\ queries[d] = 0
      /\ \A u \in Threads : u # t /\ pc[u].at \in Querying => pc[u].dev # d
  BY <1>1 DEF KnownOK, DecidedOK, OneQuery, Querying
<1>3. KnownOK'
  BY <1>1, <1>2 DEF KnownOK
<1>4. OneQuery'
  BY <1>1, <1>2 DEF OneQuery, Querying
<1>5. DecidedOK'
  BY <1>1, <1>2 DEF DecidedOK, Querying
<1>6. BoundOK' /\ ConfigOK' /\ ReceiverOK'
  BY <1>1 DEF BoundOK, ConfigOK, ReceiverOK, Querying
<1>7. MarkOK'
  BY <1>1 DEF MarkOK, Announcing
<1>8. OnceOK'
  BY <1>1 DEF OnceOK, Announcing, AckThread
<1>9. SingleOK' /\ AnnouncedIsReady'
  BY <1>1 DEF SingleOK, AnnouncedIsReady
<1>10. TwiceOK'
  BY <1>1, SameTwice DEF Owes, Announcing
<1>11. QED
  BY <1>3, <1>4, <1>5, <1>6, <1>7, <1>8, <1>9, <1>10

LEMMA StoreModeSafe ==
  ASSUME TypeOK, IInv, NEW t \in Threads, StoreMode(t)
  PROVE  IInv'
<1> DEFINE d == pc[t].dev
<1> USE DiscoveryAssumption DEF TypeOK, IInv, tables, pending, Moved
<1>1. /\ pc[t].at = "mode"
      /\ \/ /\ Moved(t, "idle")
            /\ loader' = loader \cup {d} /\ d \in Loaders
         \/ (Moved(t, "idle") \/ Moved(t, "reset")) /\ loader' = loader \ {d}
      /\ UNCHANGED <<role, tables, gotMode, updated, called, pending, announced>>
  BY GotoMoves, ReturnMoves DEF StoreMode, At, Dev, Places
<1>2. /\ d \in known /\ d \in Devices /\ d \notin loader /\ d \in gotMode
      /\ \A u \in Threads : u # t /\ pc[u].at \in Querying => pc[u].dev # d
  BY <1>1 DEF KnownOK, DecidedOK, OneQuery, Querying
<1>3. KnownOK'
  BY <1>1, <1>2 DEF KnownOK
<1>4. OneQuery'
  BY <1>1, <1>2 DEF OneQuery, Querying
<1>5. DecidedOK'
  BY <1>1, <1>2 DEF DecidedOK, Querying
<1>6. BoundOK' /\ ConfigOK' /\ ReceiverOK'
  BY <1>1 DEF BoundOK, ConfigOK, ReceiverOK, Querying
<1>7. MarkOK'
  BY <1>1, <1>2 DEF MarkOK, Announcing
<1>8. OnceOK'
  BY <1>1 DEF OnceOK, Announcing, AckThread
<1>9. SingleOK' /\ AnnouncedIsReady'
  BY <1>1, <1>2 DEF SingleOK, AnnouncedIsReady
<1>10. TwiceOK'
  BY <1>1, SameTwice DEF Owes, Announcing
<1>11. QED
  BY <1>3, <1>4, <1>5, <1>6, <1>7, <1>8, <1>9, <1>10

\* LivoxLidarInfoChange.
LEMMA MarkSafe ==
  ASSUME TypeOK, IInv, NEW t \in Threads, Mark(t)
  PROVE  IInv'
<1> DEFINE d == pc[t].dev
<1> USE DiscoveryAssumption DEF TypeOK, IInv, tables, pending, Moved
<1>1. pc' = [pc EXCEPT ![t] =
               [pc[t] EXCEPT !.at = "flag", !.bit = d \in called,
                             !.val = IF d \in loader THEN 1 ELSE 0]]
  BY DEF Mark, Dev
<1>2. /\ pc[t].at = "mark" /\ Moved(t, "flag") /\ pc'[t].bit = (d \in called)
      /\ updated' = updated \cup {d}
      /\ UNCHANGED <<role, tables, gotMode, loader, called, pending, announced>>
  BY <1>1 DEF Mark, At, Dev, ThreadStates
<1>3. d \in known /\ d \in Devices
  BY <1>2 DEF KnownOK
<1>4. KnownOK'
  BY <1>2, <1>3 DEF KnownOK
<1>5. OneQuery' /\ DecidedOK'
  BY <1>2 DEF OneQuery, DecidedOK, Querying
<1>6. BoundOK' /\ ConfigOK' /\ ReceiverOK'
  BY <1>2 DEF BoundOK, ConfigOK, ReceiverOK, Querying
<1>7. MarkOK'
  BY <1>2 DEF MarkOK, Announcing
<1>8. d \notin called => announced[d] = 0
  BY <1>3 DEF OnceOK
<1>9. OnceOK'
  BY <1>2, <1>8 DEF OnceOK, Announcing, AckThread
<1>10. SingleOK' /\ AnnouncedIsReady'
  BY <1>2 DEF SingleOK, AnnouncedIsReady
<1>11. TwiceOK'
  <2>1. d \notin called => announced[d] = 0
    BY <1>3 DEF OnceOK
  <2>2. t \in {Detection, Command}
    BY <1>2 DEF TwiceOK, Announcing
  <2>3. \A u \in Threads : pc'[u].at \in Announcing => u \in {Detection, Command}
    BY <1>2, <2>2 DEF TwiceOK
  <2>4. announced \in [Devices -> Nat] /\ announced' = announced
    BY <1>2
  <2>5. Detection \in Threads /\ Command \in Threads
    OBVIOUS
  <2>6. ASSUME NEW x \in Devices
        PROVE  announced'[x] + (IF Owes(Detection, x)' THEN 1 ELSE 0)
                             + (IF Owes(Command, x)' THEN 1 ELSE 0) <= 2
    <3>1. CASE x = d /\ d \notin called
      BY <3>1, <2>1, <2>4
    <3>2. CASE x # d \/ d \in called
      <4>1. /\ Owes(Detection, x)' => Owes(Detection, x)
            /\ Owes(Command, x)' => Owes(Command, x)
        BY <1>2, <2>5, <3>2 DEF Owes
      <4>2. announced'[x] \in Nat /\ announced'[x] = announced[x]
        BY <2>4
      <4>3. announced[x] + (IF Owes(Detection, x) THEN 1 ELSE 0)
                         + (IF Owes(Command, x) THEN 1 ELSE 0) <= 2
        BY DEF TwiceOK
      <4>4. QED
        BY <4>1, <4>2, <4>3
    <3>3. QED
      BY <3>1, <3>2
  <2>7. QED
    BY <2>3, <2>6 DEF TwiceOK
<1>12. QED
  BY <1>4, <1>5, <1>6, <1>7, <1>9, <1>10, <1>11

LEMMA FlagSafe ==
  ASSUME TypeOK, IInv, NEW t \in Threads, Flag(t)
  PROVE  IInv'
<1> DEFINE d == pc[t].dev
<1> USE DiscoveryAssumption DEF TypeOK, IInv, tables, pending, Moved
<1>1. /\ pc[t].at = "flag" /\ Moved(t, "notify") /\ pc'[t].bit = pc[t].bit
      /\ called' = called \cup {d}
      /\ UNCHANGED <<role, tables, gotMode, loader, updated, pending, announced>>
  BY GotoMoves DEF Flag, At, Dev, Places
<1>2. d \in known /\ d \in Devices
  BY <1>1 DEF KnownOK
<1>3. KnownOK'
  BY <1>1, <1>2 DEF KnownOK
<1>4. OneQuery' /\ DecidedOK'
  BY <1>1 DEF OneQuery, DecidedOK, Querying
<1>5. BoundOK' /\ ConfigOK' /\ ReceiverOK'
  BY <1>1 DEF BoundOK, ConfigOK, ReceiverOK, Querying
<1>6. MarkOK'
  BY <1>1 DEF MarkOK, Announcing
<1>7. OnceOK'
  BY <1>1 DEF OnceOK, Announcing, AckThread
<1>8. SingleOK' /\ AnnouncedIsReady'
  BY <1>1 DEF SingleOK, AnnouncedIsReady
<1>9. TwiceOK'
  BY <1>1, SameTwice DEF Owes, Announcing
<1>10. QED
  BY <1>3, <1>4, <1>5, <1>6, <1>7, <1>8, <1>9

LEMMA NotifySafe ==
  ASSUME TypeOK, IInv, NEW t \in Threads, Notify(t)
  PROVE  IInv'
<1> DEFINE d == pc[t].dev
<1> USE DiscoveryAssumption DEF TypeOK, IInv, pending, Moved
<1>1. /\ pc[t].at = "notify" /\ Moved(t, "idle")
      /\ announced' = IF pc[t].bit THEN announced
                      ELSE [announced EXCEPT ![d] = @ + 1]
      /\ UNCHANGED <<role, listed, known, accepted, isGet, flags, pending>>
  BY ReturnMoves DEF Notify, At, Dev
<1>2. d \in known /\ d \in Devices /\ d \in called /\ d \in gotMode
      /\ d \in updated /\ d \in accepted \cup loader \cup Haps
  BY <1>1 DEF KnownOK, MarkOK, OnceOK, Announcing
<1>3. \A x \in Devices : announced'[x] # announced[x] => x = d /\ ~pc[t].bit
  BY <1>1
<1>4. \A u \in Threads : pc'[u].at # "idle" => u # t /\ pc'[u] = pc[u]
  BY <1>1
<1>5. KnownOK'
  BY <1>1, <1>2, <1>3, <1>4 DEF KnownOK, flags
<1>6. OneQuery' /\ DecidedOK'
  BY <1>1, <1>4 DEF OneQuery, DecidedOK, Querying, flags
<1>7. BoundOK' /\ ConfigOK' /\ ReceiverOK'
  BY <1>1, <1>4 DEF BoundOK, ConfigOK, ReceiverOK, Querying, flags
<1>8. MarkOK'
  BY <1>1, <1>4 DEF MarkOK, Announcing, flags
<1>9. /\ d \notin Loaders \/ role = "view" =>
           /\ t = AckThread /\ (~pc[t].bit => announced[d] = 0)
           /\ \A u \in Threads : pc[u].at \in Announcing /\ pc[u].dev = d => u = t
  BY <1>1 DEF OnceOK, Announcing
<1>10. SingleOK'
  BY <1>1, <1>2, <1>3, <1>9 DEF SingleOK
<1>11. OnceOK'
  BY <1>1, <1>2, <1>3, <1>4, <1>9 DEF OnceOK, Announcing, AckThread, flags
<1>12. AnnouncedIsReady'
  BY <1>1, <1>2, <1>3 DEF AnnouncedIsReady, flags
<1>13. TwiceOK'
  <2>1. \A u \in Threads : pc'[u].at \in Announcing => u \in {Detection, Command}
    BY <1>1, <1>4 DEF TwiceOK, Announcing
  <2>2. t \in {Detection, Command}
    BY <1>1 DEF TwiceOK, Announcing
  <2>3. \A x \in Devices, u \in Threads : Owes(u, x)' <=> Owes(u, x) /\ u # t
    BY <1>1 DEF Owes
  <2>4. \A x \in Devices : Owes(t, x) <=> x = d /\ ~pc[t].bit
    BY <1>1 DEF Owes
  <2>5. \A x \in Devices : announced'[x] = announced[x] + IF Owes(t, x) THEN 1 ELSE 0
    BY <1>1, <2>4
  <2>6. announced \in [Devices -> Nat]
    OBVIOUS
  <2>7. QED
    BY <2>1, <2>2, <2>3, <2>5, <2>6 DEF TwiceOK
<1>14. QED
  BY <1>5, <1>6, <1>7, <1>8, <1>10, <1>11, <1>12, <1>13

LEMMA StepSafe ==
  ASSUME TypeOK, IInv, NEW t \in Threads, Step(t)
  PROVE  IInv'
  BY CountSafe, RequerySafe, StoreGotSafe, StoreModeSafe, MarkSafe, FlagSafe,
     NotifySafe DEF Step

\* A query completes, and its callback starts.
LEMMA QueryDoneSafe ==
  ASSUME TypeOK, IInv, NEW t \in Threads, NEW d \in Devices,
         NEW good \in BOOLEAN, QueryDone(t, d, good)
  PROVE  IInv'
<1> USE DiscoveryAssumption DEF TypeOK, IInv, tables, flags
<1>1. PICK p \in {"got", "answered", "failed"} : Start(t, p, d)
  BY DEF QueryDone
<1>2. /\ pc[t].at = "idle" /\ pc'[t].at = p /\ pc'[t].dev = d
      /\ \A u \in Threads : u # t => pc'[u] = pc[u]
      /\ queries[d] = 1 /\ queries' = [queries EXCEPT ![d] = 0]
      /\ UNCHANGED <<role, tables, flags, infos, configs, announced>>
  <2>1. queries[d] > 0 /\ queries' = [queries EXCEPT ![d] = @ - 1]
    BY DEF QueryDone, Finish
  <2>2. queries[d] = 1 /\ queries' = [queries EXCEPT ![d] = 0]
    <3>1. queries[d] = 1 /\ queries[d] - 1 = 0
      BY <2>1
    <3>2. QED
      BY <2>1, <3>1
  <2>3. p \in Places \ {"idle"}
    BY DEF Places
  <2>4. /\ pc'[t].at = p /\ pc'[t].dev = d
        /\ \A u \in Threads : u # t => pc'[u] = pc[u]
    BY <1>1, <2>3, StartMoves
  <2>5. QED
    BY <2>2, <2>4 DEF QueryDone, IsIdle
<1>3. /\ d \in known /\ d \notin gotMode /\ d \notin loader
      /\ role # "receiver"
      /\ \A u \in Threads : pc[u].at \in Querying => pc[u].dev # d
  BY <1>2 DEF KnownOK, OneQuery, DecidedOK, ReceiverOK
<1>4. p \in Querying /\ p \notin Announcing /\ p # "coordinate" /\ p # "idle"
  BY DEF Querying, Announcing
<1>5. KnownOK'
  BY <1>2, <1>3 DEF KnownOK
<1>6. OneQuery'
  BY <1>2, <1>3 DEF OneQuery
<1>7. DecidedOK'
  BY <1>2, <1>3 DEF DecidedOK
<1>8. BoundOK' /\ ConfigOK' /\ ReceiverOK'
  BY <1>2, <1>3, <1>4 DEF BoundOK, ConfigOK, ReceiverOK
<1>9. MarkOK'
  BY <1>2, <1>4 DEF MarkOK
<1>10. OnceOK'
  BY <1>2, <1>4 DEF OnceOK, AckThread
<1>11. SingleOK' /\ AnnouncedIsReady'
  BY <1>2 DEF SingleOK, AnnouncedIsReady
<1>12. TwiceOK'
  BY <1>2, <1>4, SameTwice DEF Owes, Announcing
<1>13. QED
  BY <1>5, <1>6, <1>7, <1>8, <1>9, <1>10, <1>11, <1>12

\* Internal-info queries and configurations come and go while no thread moves.
LEMMA CommandsSafe ==
  ASSUME TypeOK, IInv, NEW d \in Devices,
         \A x \in Devices : x # d => infos'[x] = infos[x] /\ configs'[x] = configs[x],
         infos'[d] \in Nat, configs'[d] \in Nat,
         infos'[d] + configs'[d] <= infos[d] + configs[d],
         infos[d] > 0 \/ configs[d] > 0,
         UNCHANGED <<role, listed, known, accepted, isSet, flags, queries, pc,
                     announced>>
  PROVE  IInv'
<1> USE DiscoveryAssumption DEF TypeOK, IInv, flags
<1>1. d \in known /\ d \in gotMode /\ role # "receiver"
  BY DEF KnownOK, ConfigOK, ReceiverOK
<1>2. KnownOK'
  BY <1>1 DEF KnownOK
<1>3. OneQuery' /\ DecidedOK' /\ MarkOK'
  BY DEF OneQuery, DecidedOK, MarkOK
<1>4. BoundOK'
  <2>1. \A x \in Devices : infos'[x] + configs'[x] <= infos[x] + configs[x]
    OBVIOUS
  <2>2. \A x \in Devices : infos'[x] \in Nat /\ configs'[x] \in Nat
    OBVIOUS
  <2>3. pc[Detection].at = "coordinate" => pc[Detection].dev \in Devices
    BY DEF KnownOK
  <2>4. QED
    BY <2>1, <2>2, <2>3 DEF BoundOK
<1>5. ConfigOK' /\ ReceiverOK'
  BY <1>1 DEF ConfigOK, ReceiverOK
<1>6. OnceOK' /\ SingleOK' /\ AnnouncedIsReady'
  BY DEF OnceOK, AckThread, SingleOK, AnnouncedIsReady
<1>7. TwiceOK'
  BY SameTwice DEF Owes
<1>8. QED
  BY <1>2, <1>3, <1>4, <1>5, <1>6, <1>7

LEMMA InfoDoneSafe ==
  ASSUME TypeOK, IInv, NEW d \in Devices, InfoDone(d)
  PROVE  IInv'
<1> USE DiscoveryAssumption DEF TypeOK
<1>1. infos[d] > 0 /\ infos' = [infos EXCEPT ![d] = @ - 1]
  BY DEF InfoDone, Finish
<1>2. configs' = configs \/ configs' = [configs EXCEPT ![d] = @ + 1]
  BY DEF InfoDone, UpdateLidarCfg, Issue
<1>3. /\ infos[d] \in Nat /\ configs[d] \in Nat
      /\ infos'[d] = infos[d] - 1
      /\ configs'[d] = configs[d] \/ configs'[d] = configs[d] + 1
      /\ \A x \in Devices : x # d => infos'[x] = infos[x] /\ configs'[x] = configs[x]
  BY <1>1, <1>2
<1>4. QED
  BY <1>1, <1>3, CommandsSafe DEF InfoDone

LEMMA FailureSafe ==
  ASSUME TypeOK, IInv, NEW t \in Threads, NEW d \in Devices,
         InfoFails(t, d) \/ ConfigTimesOut(t, d)
  PROVE  IInv'
<1> USE DiscoveryAssumption DEF TypeOK
<1>1. CASE InfoFails(t, d)
  <2>1. /\ infos[d] > 0 /\ infos[d] \in Nat /\ configs[d] \in Nat
        /\ infos'[d] = infos[d] - 1 /\ configs' = configs
        /\ \A x \in Devices : x # d => infos'[x] = infos[x]
    BY <1>1 DEF InfoFails, Finish
  <2>2. QED
    BY <1>1, <2>1, CommandsSafe DEF InfoFails, tables
<1>2. CASE ConfigTimesOut(t, d)
  <2>1. /\ configs[d] > 0 /\ infos[d] \in Nat /\ configs[d] \in Nat
        /\ configs'[d] = configs[d] - 1 /\ infos' = infos
        /\ \A x \in Devices : x # d => configs'[x] = configs[x]
    BY <1>2 DEF ConfigTimesOut, Finish
  <2>2. QED
    BY <1>2, <2>1, CommandsSafe DEF ConfigTimesOut, tables
<1>3. QED
  BY <1>1, <1>2

\* A configuration ends, and LivoxLidarInfoChange is called.
LEMMA ConfiguredSafe ==
  ASSUME TypeOK, IInv, NEW d \in Devices,
         pc[AckThread].at = "idle", configs[d] > 0,
         configs' = [configs EXCEPT ![d] = @ - 1],
         Start(AckThread, "mark", d),
         accepted \subseteq accepted', d \in accepted' \cup Haps,
         UNCHANGED <<role, known, flags, queries, infos, announced>>
  PROVE  IInv'
<1> DEFINE a == AckThread
<1> USE DiscoveryAssumption DEF TypeOK, IInv, flags
<1>1. a \in Threads /\ "mark" \in Places \ {"idle"}
  BY DEF AckThread, Places
<1>2. /\ pc'[a].at = "mark" /\ pc'[a].dev = d
      /\ \A u \in Threads : u # a => pc'[u] = pc[u]
  BY <1>1, StartMoves
<1> HIDE DEF a
<1>3. d \in known /\ d \in gotMode /\ role # "receiver"
  BY DEF KnownOK, ConfigOK, ReceiverOK
<1>4. \A x \in Devices : configs'[x] \in Nat /\ configs'[x] <= configs[x]
  OBVIOUS
<1>5. KnownOK'
  BY <1>1, <1>2, <1>3 DEF KnownOK
<1>6. OneQuery' /\ DecidedOK'
  BY <1>1, <1>2 DEF OneQuery, DecidedOK, Querying
<1>7. BoundOK'
  <2>1. pc'[Detection].at = "coordinate" => pc'[Detection] = pc[Detection]
    BY <1>2
  <2>2. pc[Detection].at = "coordinate" => pc[Detection].dev \in Devices
    BY DEF KnownOK
  <2>3. QED
    BY <1>4, <2>1, <2>2 DEF BoundOK
<1>8. ConfigOK' /\ ReceiverOK'
  BY <1>3 DEF ConfigOK, ReceiverOK
<1>9. MarkOK'
  BY <1>1, <1>2, <1>3 DEF MarkOK, Announcing
<1>10. OnceOK'
  <2>1. AckThread' = a
    BY DEF a, AckThread
  <2>2. QED
    BY <1>1, <1>2, <2>1 DEF OnceOK, Announcing, a
<1>11. SingleOK' /\ AnnouncedIsReady'
  BY DEF SingleOK, AnnouncedIsReady
<1>12. TwiceOK'
  <2>1. a \in {Detection, Command}
    BY DEF a, AckThread
  <2>2. QED
    BY <1>1, <1>2, <2>1, SameTwice DEF Owes, Announcing
<1>13. QED
  BY <1>5, <1>6, <1>7, <1>8, <1>9, <1>10, <1>11, <1>12

LEMMA ConfigSafe ==
  ASSUME TypeOK, IInv, NEW d \in Devices, ConfigDone(d) \/ ConfigRefused(d)
  PROVE  IInv'
<1>1. pc[AckThread].at = "idle" /\ configs[d] > 0
      /\ configs' = [configs EXCEPT ![d] = @ - 1]
  BY DEF ConfigDone, ConfigRefused, IsIdle, Finish
<1>2. CASE ConfigDone(d)
  BY <1>1, <1>2, ConfiguredSafe DEF ConfigDone
<1>3. CASE ConfigRefused(d) /\ d \in Haps
  BY <1>1, <1>3, ConfiguredSafe DEF ConfigRefused, tables
<1>4. CASE ConfigRefused(d) /\ d \notin Haps
  <2>1. /\ infos[d] \in Nat /\ configs[d] \in Nat
        /\ configs'[d] = configs[d] - 1 /\ infos' = infos
        /\ \A x \in Devices : x # d => configs'[x] = configs[x]
    BY <1>1, <1>4, DiscoveryAssumption DEF ConfigRefused, TypeOK
  <2>2. QED
    BY <1>1, <1>4, <2>1, CommandsSafe DEF ConfigRefused, tables
<1>5. QED
  BY <1>2, <1>3, <1>4

\* Nothing the invariant reads changes.
LEMMA StutterSafe ==
  ASSUME TypeOK, IInv,
         UNCHANGED <<role, known, accepted, flags, pending, pc, announced>>
  PROVE  IInv'
<1> USE DEF IInv, flags, pending
<1>1. KnownOK' /\ OneQuery' /\ DecidedOK' /\ BoundOK' /\ ReceiverOK'
  BY DEF KnownOK, OneQuery, DecidedOK, BoundOK, ReceiverOK
<1>2. ConfigOK' /\ MarkOK' /\ OnceOK' /\ SingleOK' /\ AnnouncedIsReady'
  BY DEF ConfigOK, MarkOK, OnceOK, AckThread, SingleOK, AnnouncedIsReady
<1>3. TwiceOK'
  BY SameTwice DEF Owes
<1>4. QED
  BY <1>1, <1>2, <1>3

LEMMA DiscoverSafe ==
  ASSUME TypeOK, IInv, NEW d \in Devices, Discover(d)
  PROVE  IInv'
<1> USE DiscoveryAssumption DEF TypeOK, IInv
<1>1. /\ d \notin known /\ known' = known \cup {d}
      /\ \/ queries' = queries
         \/ role # "receiver" /\ queries' = [queries EXCEPT ![d] = @ + 1]
      /\ UNCHANGED <<role, accepted, loader, infos, configs, pc, announced>>
  BY DEF Discover, GetFirmwareType, Issue
<1>2. /\ d \notin gotMode /\ d \notin loader /\ announced[d] = 0 /\ queries[d] = 0
      /\ \A t \in Threads : pc[t].at # "idle" => pc[t].dev # d
  BY <1>1 DEF KnownOK
<1>3. /\ gotMode' = gotMode /\ updated' = updated /\ called' = called
  BY <1>1, <1>2 DEF Discover, KnownOK
<1>4. \A x \in Devices : x # d => queries'[x] = queries[x]
  BY <1>1
<1>5. KnownOK'
  BY <1>1, <1>3, <1>4 DEF KnownOK
<1>6. OneQuery'
  BY <1>1, <1>2, <1>3, <1>4 DEF OneQuery, KnownOK, Querying
<1>7. DecidedOK' /\ BoundOK' /\ ConfigOK' /\ MarkOK'
  BY <1>1, <1>3 DEF DecidedOK, BoundOK, ConfigOK, MarkOK
<1>8. ReceiverOK'
  BY <1>1 DEF ReceiverOK
<1>9. OnceOK' /\ SingleOK' /\ AnnouncedIsReady'
  BY <1>1, <1>3 DEF OnceOK, AckThread, SingleOK, AnnouncedIsReady
<1>10. TwiceOK'
  BY <1>1, SameTwice DEF Owes
<1>11. QED
  BY <1>5, <1>6, <1>7, <1>8, <1>9, <1>10

LEMMA RecogniseSafe ==
  ASSUME TypeOK, IInv, NEW d \in Devices, Recognise(d)
  PROVE  IInv'
<1> USE DiscoveryAssumption DEF TypeOK, IInv, tables, flags
<1>1. /\ pc[Detection].at = "idle" /\ d \in known
      /\ infos[d] + configs[d] < MaxPending
      /\ \/ configs' = configs
         \/ /\ role \notin {"view", "receiver"} /\ d \in gotMode
            /\ configs' = [configs EXCEPT ![d] = @ + 1]
      /\ UNCHANGED <<role, tables, flags, queries, infos, announced>>
  BY DEF Recognise, Admitted, IsIdle, UpdateLidarCfg, Issue
<1>2. /\ pc'[Detection].at = "coordinate" /\ pc'[Detection].dev = d
      /\ \A u \in Threads : u # Detection => pc'[u] = pc[u]
  BY StartMoves DEF Recognise, Places
<1>3. \A x \in Devices : x # d => configs'[x] = configs[x]
  BY <1>1
<1>4. configs'[d] \in Nat /\ configs'[d] <= configs[d] + 1
  BY <1>1
<1>5. KnownOK'
  BY <1>1, <1>2, <1>3 DEF KnownOK
<1>6. OneQuery' /\ DecidedOK'
  BY <1>1, <1>2 DEF OneQuery, DecidedOK, Querying
<1>7. BoundOK'
  <2>1. \A x \in Devices : infos'[x] + configs'[x] <= MaxPending
    BY <1>1, <1>3, <1>4 DEF BoundOK
  <2>2. role = "view" => infos'[d] + configs'[d] < MaxPending
    BY <1>1
  <2>3. QED
    BY <1>1, <1>2, <2>1, <2>2 DEF BoundOK
<1>8. ConfigOK' /\ ReceiverOK'
  BY <1>1, <1>2, <1>3 DEF ConfigOK, ReceiverOK, Querying
<1>9. MarkOK' /\ OnceOK'
  BY <1>1, <1>2 DEF MarkOK, OnceOK, AckThread, Announcing
<1>10. SingleOK' /\ AnnouncedIsReady'
  BY <1>1 DEF SingleOK, AnnouncedIsReady
<1>11. TwiceOK'
  BY <1>1, <1>2, SameTwice DEF Owes, Announcing
<1>12. QED
  BY <1>5, <1>6, <1>7, <1>8, <1>9, <1>10, <1>11

LEMMA ReplySafe ==
  ASSUME TypeOK, IInv, NEW d \in Devices, SearchReply(d)
  PROVE  IInv'
<1>1. CASE Register(d)
  BY <1>1, StutterSafe DEF Register
<1>2. QED
  BY <1>1, DiscoverSafe, RecogniseSafe DEF SearchReply

\* A device in loader mode goes on to be announced; a device seen in view mode
\* is asked or configured, once more than before.
LEMMA CoordinateSafe ==
  ASSUME TypeOK, IInv, Coordinate
  PROVE  IInv'
<1> DEFINE d == pc[Detection].dev
<1> USE DiscoveryAssumption DEF TypeOK, IInv, tables, flags
<1>1. /\ pc[Detection].at = "coordinate" /\ d \in known /\ d \in Devices
      /\ UNCHANGED <<role, tables, flags, queries, announced>>
  BY DEF Coordinate, At, KnownOK
<1>2. \/ Moved(Detection, "mark") /\ d \in gotMode /\ d \in loader
      \/ Moved(Detection, "idle")
  BY GotoMoves, ReturnMoves DEF Coordinate, Dev, Places
<1>3. /\ \A x \in Devices : x # d => infos'[x] = infos[x] /\ configs'[x] = configs[x]
      /\ infos'[d] \in Nat /\ configs'[d] \in Nat
      /\ \/ infos' = infos /\ configs' = configs
         \/ /\ role = "view" /\ d \in gotMode
            /\ infos'[d] + configs'[d] <= infos[d] + configs[d] + 1
  BY <1>1 DEF Coordinate, UpdateLidarCfg, Issue, Dev
<1>4. KnownOK'
  BY <1>1, <1>2, <1>3 DEF KnownOK, Moved
<1>5. OneQuery' /\ DecidedOK'
  BY <1>1, <1>2 DEF OneQuery, DecidedOK, Querying, Moved
<1>6. BoundOK'
  <2>1. role = "view" => infos[d] + configs[d] < MaxPending
    BY <1>1 DEF BoundOK
  <2>2. \A x \in Devices : infos'[x] + configs'[x] <= MaxPending
    BY <1>3, <2>1 DEF BoundOK
  <2>3. pc'[Detection].at # "coordinate"
    BY <1>2 DEF Moved
  <2>4. QED
    BY <2>2, <2>3 DEF BoundOK
<1>7. ConfigOK'
  BY <1>1, <1>3 DEF ConfigOK
<1>8. ReceiverOK'
  BY <1>1, <1>2, <1>3 DEF ReceiverOK, Querying, Moved
<1>9. MarkOK'
  BY <1>1, <1>2 DEF MarkOK, Announcing, Moved
<1>10. OnceOK'
  <2>1. d \in loader => d \in Loaders
    BY DEF DecidedOK
  <2>2. role = "view" => AckThread = Detection
    BY DEF AckThread
  <2>3. AckThread' = AckThread
    BY <1>1 DEF AckThread
  <2>4. QED
    BY <1>1, <1>2, <2>1, <2>2, <2>3 DEF OnceOK, Announcing, Moved
<1>11. SingleOK' /\ AnnouncedIsReady'
  BY <1>1 DEF SingleOK, AnnouncedIsReady
<1>12. TwiceOK'
  BY <1>1, <1>2, SameTwice DEF Owes, Announcing, Moved
<1>13. QED
  BY <1>4, <1>5, <1>6, <1>7, <1>8, <1>9, <1>10, <1>11, <1>12

LEMMA RestartSafe ==
  ASSUME TypeOK, IInv, Restart
  PROVE  IInv'
<1> USE DiscoveryAssumption DEF TypeOK, Restart, IsIdle, IInv
<1>1. /\ KnownOK' /\ OneQuery' /\ DecidedOK' /\ BoundOK' /\ ReceiverOK'
  BY DEF KnownOK, OneQuery, DecidedOK, BoundOK, ReceiverOK, Querying
<1>2. ConfigOK' /\ MarkOK' /\ OnceOK'
  BY DEF ConfigOK, MarkOK, OnceOK, Announcing
<1>3. SingleOK' /\ AnnouncedIsReady'
  BY DEF SingleOK, AnnouncedIsReady
<1>4. TwiceOK'
  BY DEF TwiceOK, Owes, Announcing
<1>5. QED
  BY <1>1, <1>2, <1>3, <1>4

LEMMA InitSafe == Init => IInv
<1> SUFFICES ASSUME Init PROVE IInv
  OBVIOUS
<1> USE DiscoveryAssumption DEF Init, Idle, IInv
<1>1. /\ KnownOK /\ OneQuery /\ DecidedOK /\ BoundOK /\ ReceiverOK
  BY DEF KnownOK, OneQuery, DecidedOK, BoundOK, ReceiverOK, Querying
<1>2. ConfigOK /\ MarkOK /\ OnceOK /\ SingleOK /\ AnnouncedIsReady
  BY DEF ConfigOK, MarkOK, OnceOK, Announcing, SingleOK, AnnouncedIsReady
<1>3. TwiceOK
  BY DEF TwiceOK, Owes, Announcing
<1>4. QED
  BY <1>1, <1>2, <1>3

LEMMA NextSafe == TypeOK /\ IInv /\ [Next]_vars => IInv'
<1> SUFFICES ASSUME TypeOK, IInv, [Next]_vars PROVE IInv'
  OBVIOUS
<1>1. CASE UNCHANGED vars
  BY <1>1, StutterSafe DEF vars, tables
<1>2. QED
  BY <1>1, ReplySafe, InfoDoneSafe, ConfigSafe, QueryDoneSafe, FailureSafe,
     CoordinateSafe, StepSafe, RestartSafe DEF Next

LEMMA Invariant == Spec => [](TypeOK /\ IInv)
  BY InitType, InitSafe, NextType, NextSafe, PTL DEF Spec

\* Every variable keeps its type; in particular no device is asked for its type
\* twice at a time, whichever threads its queries end on.
THEOREM TypeCorrect == Spec => []TypeOK
  BY Invariant, PTL

\* In a receiving instance discovery sends no command, also after a session in
\* another role.
THEOREM ReceiverIsSilent == Spec => []SilentReceiver
<1>1. IInv => SilentReceiver
  BY DEF IInv, ReceiverOK, SilentReceiver
<1>2. QED
  BY <1>1, Invariant, PTL

\* LivoxLidarInfoChange calls the application at most once for a device, and at
\* most once on each of the two threads that can announce a device in loader mode
\* under a JSON configuration.
THEOREM AnnouncesOnce == Spec => []AnnouncedOnce
<1>1. TypeOK /\ IInv => AnnouncedOnce
  <2> SUFFICES ASSUME TypeOK, IInv, NEW d \in Devices
               PROVE  announced[d] <= IF d \in Loaders /\ role # "view" THEN 2 ELSE 1
    BY DEF AnnouncedOnce
  <2>1. announced[d] \in Nat
    BY DEF TypeOK
  <2>2. announced[d] <= 2
    BY <2>1 DEF IInv, TwiceOK
  <2>3. d \notin Loaders \/ role = "view" => announced[d] <= 1
    BY DEF IInv, SingleOK
  <2>4. QED
    BY <2>1, <2>2, <2>3
<1>2. QED
  BY <1>1, Invariant, PTL

\* A device is announced only after its type was decided and it accepted its
\* configuration, runs its loader, or is a HAP.
THEOREM AnnouncesReady == Spec => []AnnouncedIsReady
<1>1. IInv => AnnouncedIsReady
  BY DEF IInv
<1>2. QED
  BY <1>1, Invariant, PTL

==============================================================================
