-------------------------- MODULE SdkLifecycle_proofs --------------------------
(***************************************************************************)
(* Proofs about SdkLifecycle for every set of devices.  The inductive      *)
(* invariant says, for each position in Startup, what has been acquired,   *)
(* and for each position in Teardown, what has been released for good: the *)
(* joins make busy handlers impossible, and only those refill the tables.  *)
(***************************************************************************)
EXTENDS SdkLifecycle, TLAPS

-----------------------------------------------------------------------------
\* The inductive invariant

CallOK ==
  /\ op \in {"init", "failing"} => ~initialized
  /\ op = "uninit" => initialized

\* A destroyed log manager has nothing left; a handler runs on a live thread.
ManagerOK ==
  /\ destroyed => ~logging /\ logged = {}
  /\ busy \subseteq running

\* What the running threads use is there.
UsersOK ==
  /\ running \cap IoThreads # {} => {"codec", "managers"} \subseteq have /\ ~destroyed
  /\ running \cap IoThreads \subseteq have
  /\ "sender" \in running => {"codec", "search"} \subseteq have

\* What Init has acquired so far.
StartOK ==
  op = "init" =>
    /\ at > 1 => "codec" \in have
    /\ at > 2 => ~destroyed
    /\ at > 3 => "managers" \in have
    /\ at > 8 => "search" \in have

\* What a session keeps until its log collection is stopped.
SessionOK ==
  (op = "none" /\ initialized) \/ (op = "uninit" /\ at <= 7) =>
    {"search", "managers"} \subseteq have

\* What a teardown has released so far.
StopOK ==
  op \in {"failing", "uninit"} =>
    /\ at > 1 => "sender" \notin running
    /\ at > 2 => Detection \notin running
    /\ at > 3 => Data \notin running
    /\ at > 4 => Command \notin running
    /\ at > 5 => "cleaner" \notin running
    /\ at > 6 => "writer" \notin running
    /\ at > 7 => ~logging /\ logged = {}
    /\ at > 8 => "recorder" \notin running /\ recordable = {} /\ ~recording
    /\ at > 9 => have \subseteq {"managers"}
    /\ at > 10 => have = {} /\ known = {}

IInv ==
  /\ TypeOK /\ CallOK /\ ManagerOK /\ UsersOK /\ StartOK /\ SessionOK /\ StopOK
  /\ CleanWhenDown

-----------------------------------------------------------------------------
\* The two sequences, step by step

LEMMA StartupSteps ==
  /\ Len(Startup) = 10
  /\ Startup[1] = "codec" /\ Startup[2] = "logs" /\ Startup[3] = "managers"
  /\ Startup[4] = Detection /\ Startup[5] = Command /\ Startup[6] = Data
  /\ Startup[7] = "broadcast" /\ Startup[8] = "search"
  /\ Startup[9] = "channels" /\ Startup[10] = "sender"
  BY DEF Startup

LEMMA TeardownSteps ==
  /\ Len(Teardown) = 10
  /\ Teardown[1] = "sender" /\ Teardown[2] = Detection /\ Teardown[3] = Data
  /\ Teardown[4] = Command /\ Teardown[5] = "cleaner" /\ Teardown[6] = "writer"
  /\ Teardown[7] = "logs" /\ Teardown[8] = "recorder"
  /\ Teardown[9] = "devices" /\ Teardown[10] = "managers"
  BY DEF Teardown

\* What the threads' names are not.
LEMMA Names ==
  /\ Detection # Data /\ Detection # Command /\ Data # Command
  /\ \A t \in IoThreads :
       t \notin {"sender", "cleaner", "writer", "recorder", "codec", "managers",
                "broadcast", "search", "channels", "logs", "devices"}
  /\ Control \notin IoThreads
  BY LifecycleAssumption

LEMMA StartingAt ==
  ASSUME TypeOK, Starting
  PROVE  /\ at \in 1..10
         /\ at = 1 => Startup[at] = "codec"
         /\ at = 3 => Startup[at] = "managers"
         /\ at = 8 => Startup[at] = "search"
         /\ Startup[at] = "logs" <=> at = 2
         /\ Startup[at] = "sender" <=> at = 10
         /\ Startup[at] \in IoThreads <=> at \in 4..6
<1>1. at \in 1..10
  BY StartupSteps DEF TypeOK, Steps, Starting
<1>2. CASE at \in 4..6
  BY <1>2, StartupSteps, Names DEF IoThreads
<1>3. CASE at \in {1, 2, 3, 7, 8, 9, 10}
  BY <1>3, StartupSteps, Names
<1>4. QED
  BY <1>1, <1>2, <1>3

LEMMA EndingAt ==
  ASSUME TypeOK, Ending
  PROVE  /\ at \in 1..10
         /\ at = 1 => Step = "sender"
         /\ at = 2 => Step = Detection
         /\ at = 3 => Step = Data
         /\ at = 4 => Step = Command
         /\ at = 5 => Step = "cleaner"
         /\ at = 6 => Step = "writer"
         /\ Step = "logs" <=> at = 7
         /\ Step = "recorder" <=> at = 8
         /\ Step = "devices" <=> at = 9
         /\ Step = "managers" <=> at = 10
         /\ Step \in Workers <=> at \notin {7, 9, 10}
<1>1. at \in 1..10
  BY TeardownSteps DEF TypeOK, Steps, Ending
<1>2. CASE at \in 2..4
  BY <1>2, TeardownSteps, Names DEF IoThreads, Workers, Step
<1>3. CASE at \in {1, 5, 6, 8}
  BY <1>3, TeardownSteps, Names DEF Workers, Step
<1>4. CASE at \in {7, 9, 10}
  BY <1>4, TeardownSteps, Names DEF Workers, Step
<1>5. QED
  BY <1>1, <1>2, <1>3, <1>4

-----------------------------------------------------------------------------
\* Every step preserves the invariant

LEMMA InitIInv == Init => IInv
<1> SUFFICES ASSUME Init PROVE IInv
  OBVIOUS
<1>1. at \in Steps
  BY DEF Init, Steps
<1>2. TypeOK
  BY <1>1 DEF Init, TypeOK
<1>3. CallOK /\ ManagerOK /\ StartOK /\ SessionOK /\ StopOK /\ CleanWhenDown
  BY DEF Init, CallOK, ManagerOK, StartOK, SessionOK, StopOK, CleanWhenDown
<1>4. UsersOK
  BY DEF Init, UsersOK
<1>5. QED
  BY <1>2, <1>3, <1>4 DEF IInv

LEMMA TypeStep == TypeOK /\ [Next]_vars => TypeOK'
<1> SUFFICES ASSUME TypeOK, [Next]_vars PROVE TypeOK'
  OBVIOUS
<1> USE DEF TypeOK
<1>1. CASE BeginInit
  BY <1>1 DEF BeginInit, threads, tables, Steps
<1>2. CASE Acquire
  <2>1. at' \in Steps
    BY <1>2, StartingAt DEF Acquire, Steps
  <2>2. Started(Startup[at]) \subseteq Workers
    BY DEF Started, Workers
  <2>3. Acquired(Startup[at]) \subseteq Resources
    BY DEF Acquired
  <2>4. QED
    BY <1>2, <2>1, <2>2, <2>3 DEF Acquire, tables
<1>3. CASE Abort
  <2>1. Acquired(Startup[at]) \subseteq Resources
    BY DEF Acquired
  <2>2. at' \in Steps
    BY <1>3 DEF Abort, Fail, Steps
  <2>3. QED
    BY <1>3, <2>1, <2>2 DEF Abort, Fail, threads, tables
<1>4. CASE EndInit
  BY <1>4 DEF EndInit, threads, tables, logs, Steps
<1>5. CASE \E t \in {Control} \cup IoThreads : BeginUninit(t)
  BY <1>5 DEF BeginUninit, IsIOThread, threads, tables, logs, Steps
<1>6. CASE RequestQuit
  BY <1>6 DEF RequestQuit, call, tables
<1>7. CASE Join
  <2>1. at' \in Steps
    BY <1>7, EndingAt DEF Join, Steps
  <2>2. QED
    BY <1>7, <2>1 DEF Join, threads
<1>8. CASE StopLogging
  <2>1. at' \in Steps
    BY <1>8, EndingAt DEF StopLogging, Steps
  <2>2. QED
    BY <1>8, <2>1 DEF StopLogging, threads
<1>9. CASE ReleaseDevices
  <2>1. at' \in Steps
    BY <1>9, EndingAt DEF ReleaseDevices, Steps
  <2>2. QED
    BY <1>9, <2>1 DEF ReleaseDevices, threads, tables, logs
<1>10. CASE ReleaseManagers
  <2>1. at' \in Steps
    BY <1>10, EndingAt DEF ReleaseManagers, Steps
  <2>2. QED
    BY <1>10, <2>1 DEF ReleaseManagers, threads, logs
<1>11. CASE EndTeardown
  <2>1. at' \in Steps
    BY <1>11 DEF EndTeardown, Steps
  <2>2. QED
    BY <1>11, <2>1 DEF EndTeardown, threads, tables, logs
<1>12. CASE \E t \in IoThreads : EnterHandler(t) \/ LeaveHandler(t)
  BY <1>12 DEF EnterHandler, LeaveHandler, call, tables, logs
<1>13. CASE \E d \in Devices : Discover(d)
  BY <1>13 DEF Discover, call, threads, logs, Resources
<1>14. CASE StartWriter
  BY <1>14 DEF StartWriter, call, tables, logs, Workers
<1>15. CASE StartRecorder
  BY <1>15 DEF StartRecorder, call, tables, logs, Workers
<1>16. CASE \E on \in BOOLEAN : SetRecording(on)
  BY <1>16 DEF SetRecording, call, tables
<1>17. CASE \E w \in Workers : Exit(w)
  BY <1>17 DEF Exit, call, tables, logs
<1>18. CASE UNCHANGED vars
  BY <1>18 DEF vars, call, threads, tables, logs
<1>19. QED
  BY <1>1, <1>2, <1>3, <1>4, <1>5, <1>6, <1>7, <1>8, <1>9, <1>10, <1>11, <1>12, <1>13,
     <1>14, <1>15, <1>16, <1>17, <1>18
  DEF Next, Proceed

LEMMA CallStep == IInv /\ [Next]_vars => CallOK'
<1> SUFFICES ASSUME IInv, [Next]_vars PROVE CallOK'
  OBVIOUS
<1> USE DEF IInv, CallOK
<1>1. CASE BeginInit
  BY <1>1 DEF BeginInit, threads, tables
<1>2. CASE Acquire
  BY <1>2 DEF Acquire, Acquired, Started, tables
<1>3. CASE Abort
  BY <1>3 DEF Abort, Fail, MayFail, Acquired, threads, tables, Starting
<1>4. CASE EndInit
  BY <1>4 DEF EndInit, threads, tables, logs
<1>5. CASE \E t \in {Control} \cup IoThreads : BeginUninit(t)
  BY <1>5 DEF BeginUninit, IsIOThread, threads, tables, logs
<1>6. CASE RequestQuit
  BY <1>6 DEF RequestQuit, call, tables
<1>7. CASE Join
  BY <1>7 DEF Join, threads
<1>8. CASE StopLogging
  BY <1>8 DEF StopLogging, threads
<1>9. CASE ReleaseDevices
  BY <1>9 DEF ReleaseDevices, threads, tables, logs
<1>10. CASE ReleaseManagers
  BY <1>10 DEF ReleaseManagers, threads, logs
<1>11. CASE EndTeardown
  BY <1>11 DEF EndTeardown, threads, tables, logs
<1>12. CASE \E t \in IoThreads : EnterHandler(t) \/ LeaveHandler(t)
  BY <1>12 DEF EnterHandler, LeaveHandler, call, tables, logs
<1>13. CASE \E d \in Devices : Discover(d)
  BY <1>13 DEF Discover, call, threads, logs
<1>14. CASE StartWriter
  BY <1>14 DEF StartWriter, call, tables, logs
<1>15. CASE StartRecorder
  BY <1>15 DEF StartRecorder, call, tables, logs
<1>16. CASE \E on \in BOOLEAN : SetRecording(on)
  BY <1>16 DEF SetRecording, call, tables
<1>17. CASE \E w \in Workers : Exit(w)
  BY <1>17 DEF Exit, call, tables, logs
<1>18. CASE UNCHANGED vars
  BY <1>18 DEF vars, call, threads, tables, logs
<1>19. QED
  BY <1>1, <1>2, <1>3, <1>4, <1>5, <1>6, <1>7, <1>8, <1>9, <1>10, <1>11, <1>12, <1>13,
     <1>14, <1>15, <1>16, <1>17, <1>18
  DEF Next, Proceed

LEMMA ManagerStep == IInv /\ [Next]_vars => ManagerOK'
<1> SUFFICES ASSUME IInv, [Next]_vars PROVE ManagerOK'
  OBVIOUS
<1> USE DEF IInv, ManagerOK
<1>1. CASE BeginInit
  BY <1>1 DEF BeginInit, threads, tables
<1>2. CASE Acquire
  BY <1>2 DEF Acquire, Acquired, Started, tables
<1>3. CASE Abort
  BY <1>3 DEF Abort, Fail, MayFail, Acquired, threads, tables
<1>4. CASE EndInit
  BY <1>4 DEF EndInit, threads, tables, logs
<1>5. CASE \E t \in {Control} \cup IoThreads : BeginUninit(t)
  BY <1>5 DEF BeginUninit, IsIOThread, threads, tables, logs
<1>6. CASE RequestQuit
  BY <1>6 DEF RequestQuit, call, tables
<1>7. CASE Join
  BY <1>7 DEF Join, threads
<1>8. CASE StopLogging
  BY <1>8 DEF StopLogging, threads
<1>9. CASE ReleaseDevices
  BY <1>9 DEF ReleaseDevices, threads, tables, logs
<1>10. CASE ReleaseManagers
  BY <1>10 DEF ReleaseManagers, threads, logs
<1>11. CASE EndTeardown
  BY <1>11 DEF EndTeardown, threads, tables, logs
<1>12. CASE \E t \in IoThreads : EnterHandler(t) \/ LeaveHandler(t)
  BY <1>12 DEF EnterHandler, LeaveHandler, call, tables, logs
<1>13. CASE \E d \in Devices : Discover(d)
  BY <1>13 DEF Discover, call, threads, logs
<1>14. CASE StartWriter
  BY <1>14 DEF StartWriter, call, tables, logs
<1>15. CASE StartRecorder
  BY <1>15 DEF StartRecorder, call, tables, logs
<1>16. CASE \E on \in BOOLEAN : SetRecording(on)
  BY <1>16, Names DEF SetRecording, call, tables, TypeOK
<1>17. CASE \E w \in Workers : Exit(w)
  BY <1>17 DEF Exit, call, tables, logs, TypeOK
<1>18. CASE UNCHANGED vars
  BY <1>18 DEF vars, call, threads, tables, logs
<1>19. QED
  BY <1>1, <1>2, <1>3, <1>4, <1>5, <1>6, <1>7, <1>8, <1>9, <1>10, <1>11, <1>12, <1>13,
     <1>14, <1>15, <1>16, <1>17, <1>18
  DEF Next, Proceed

LEMMA UsersStep == IInv /\ [Next]_vars => UsersOK'
<1> SUFFICES ASSUME IInv, [Next]_vars PROVE UsersOK'
  OBVIOUS
<1> USE DEF IInv, UsersOK
<1>1. CASE BeginInit
  BY <1>1 DEF BeginInit, threads, tables
<1>2. CASE Acquire
  BY <1>2, StartingAt, Names DEF Acquire, Acquired, Started, tables, StartOK, IoThreads,
     Resources, Starting
<1>3. CASE Abort
  BY <1>3 DEF Abort, Fail, MayFail, Acquired, threads, tables
<1>4. CASE EndInit
  BY <1>4 DEF EndInit, threads, tables, logs
<1>5. CASE \E t \in {Control} \cup IoThreads : BeginUninit(t)
  BY <1>5 DEF BeginUninit, IsIOThread, threads, tables, logs
<1>6. CASE RequestQuit
  BY <1>6 DEF RequestQuit, call, tables
<1>7. CASE Join
  BY <1>7 DEF Join, threads
<1>8. CASE StopLogging
  BY <1>8, EndingAt DEF StopLogging, threads, StopOK, TypeOK, IoThreads, Ending
<1>9. CASE ReleaseDevices
  BY <1>9, EndingAt DEF ReleaseDevices, threads, tables, logs, StopOK, TypeOK, IoThreads,
     Ending
<1>10. CASE ReleaseManagers
  BY <1>10, EndingAt DEF ReleaseManagers, threads, logs, StopOK, TypeOK, IoThreads, Ending
<1>11. CASE EndTeardown
  BY <1>11 DEF EndTeardown, threads, tables, logs
<1>12. CASE \E t \in IoThreads : EnterHandler(t) \/ LeaveHandler(t)
  BY <1>12 DEF EnterHandler, LeaveHandler, call, tables, logs
<1>13. CASE \E d \in Devices : Discover(d)
  BY <1>13 DEF Discover, call, threads, logs
<1>14. CASE StartWriter
  BY <1>14, Names DEF StartWriter, call, tables, logs
<1>15. CASE StartRecorder
  BY <1>15, Names DEF StartRecorder, call, tables, logs
<1>16. CASE \E on \in BOOLEAN : SetRecording(on)
  BY <1>16 DEF SetRecording, call, tables
<1>17. CASE \E w \in Workers : Exit(w)
  BY <1>17 DEF Exit, call, tables, logs
<1>18. CASE UNCHANGED vars
  BY <1>18 DEF vars, call, threads, tables, logs
<1>19. QED
  BY <1>1, <1>2, <1>3, <1>4, <1>5, <1>6, <1>7, <1>8, <1>9, <1>10, <1>11, <1>12, <1>13,
     <1>14, <1>15, <1>16, <1>17, <1>18
  DEF Next, Proceed

LEMMA StartStep == IInv /\ [Next]_vars => StartOK'
<1> SUFFICES ASSUME IInv, [Next]_vars PROVE StartOK'
  OBVIOUS
<1> USE DEF IInv, StartOK
<1>1. CASE BeginInit
  BY <1>1 DEF BeginInit, threads, tables
<1>2. CASE Acquire
  BY <1>2, StartingAt DEF Acquire, Acquired, Started, tables, Resources
<1>3. CASE Abort
  BY <1>3 DEF Abort, Fail, MayFail, Acquired, threads, tables
<1>4. CASE EndInit
  BY <1>4 DEF EndInit, threads, tables, logs
<1>5. CASE \E t \in {Control} \cup IoThreads : BeginUninit(t)
  BY <1>5 DEF BeginUninit, IsIOThread, threads, tables, logs
<1>6. CASE RequestQuit
  BY <1>6 DEF RequestQuit, call, tables
<1>7. CASE Join
  BY <1>7 DEF Join, threads, Ending
<1>8. CASE StopLogging
  BY <1>8 DEF StopLogging, threads, Ending
<1>9. CASE ReleaseDevices
  BY <1>9 DEF ReleaseDevices, threads, tables, logs, Ending
<1>10. CASE ReleaseManagers
  BY <1>10 DEF ReleaseManagers, threads, logs, Ending
<1>11. CASE EndTeardown
  BY <1>11 DEF EndTeardown, threads, tables, logs
<1>12. CASE \E t \in IoThreads : EnterHandler(t) \/ LeaveHandler(t)
  BY <1>12 DEF EnterHandler, LeaveHandler, call, tables, logs
<1>13. CASE \E d \in Devices : Discover(d)
  BY <1>13 DEF Discover, call, threads, logs
<1>14. CASE StartWriter
  BY <1>14 DEF StartWriter, call, tables, logs
<1>15. CASE StartRecorder
  BY <1>15 DEF StartRecorder, call, tables, logs
<1>16. CASE \E on \in BOOLEAN : SetRecording(on)
  BY <1>16 DEF SetRecording, call, tables
<1>17. CASE \E w \in Workers : Exit(w)
  BY <1>17 DEF Exit, call, tables, logs
<1>18. CASE UNCHANGED vars
  BY <1>18 DEF vars, call, threads, tables, logs
<1>19. QED
  BY <1>1, <1>2, <1>3, <1>4, <1>5, <1>6, <1>7, <1>8, <1>9, <1>10, <1>11, <1>12, <1>13,
     <1>14, <1>15, <1>16, <1>17, <1>18
  DEF Next, Proceed

LEMMA SessionStep == IInv /\ [Next]_vars => SessionOK'
<1> SUFFICES ASSUME IInv, [Next]_vars PROVE SessionOK'
  OBVIOUS
<1> USE DEF IInv, SessionOK
<1>1. CASE BeginInit
  BY <1>1 DEF BeginInit, threads, tables
<1>2. CASE Acquire
  BY <1>2 DEF Acquire, Acquired, Started, tables, Starting
<1>3. CASE Abort
  BY <1>3 DEF Abort, Fail, MayFail, Acquired, threads, tables
<1>4. CASE EndInit
  BY <1>4, StartupSteps DEF EndInit, threads, tables, logs, StartOK, TypeOK, Steps
<1>5. CASE \E t \in {Control} \cup IoThreads : BeginUninit(t)
  BY <1>5 DEF BeginUninit, IsIOThread, threads, tables, logs
<1>6. CASE RequestQuit
  BY <1>6 DEF RequestQuit, call, tables
<1>7. CASE Join
  BY <1>7, EndingAt DEF Join, threads, Ending, CallOK
<1>8. CASE StopLogging
  BY <1>8, EndingAt DEF StopLogging, threads, Ending, CallOK
<1>9. CASE ReleaseDevices
  BY <1>9, EndingAt DEF ReleaseDevices, threads, tables, logs, CallOK, Ending
<1>10. CASE ReleaseManagers
  BY <1>10, EndingAt DEF ReleaseManagers, threads, logs, CallOK, Ending
<1>11. CASE EndTeardown
  BY <1>11, TeardownSteps DEF EndTeardown, threads, tables, logs
<1>12. CASE \E t \in IoThreads : EnterHandler(t) \/ LeaveHandler(t)
  BY <1>12 DEF EnterHandler, LeaveHandler, call, tables, logs
<1>13. CASE \E d \in Devices : Discover(d)
  BY <1>13 DEF Discover, call, threads, logs
<1>14. CASE StartWriter
  BY <1>14 DEF StartWriter, call, tables, logs
<1>15. CASE StartRecorder
  BY <1>15 DEF StartRecorder, call, tables, logs
<1>16. CASE \E on \in BOOLEAN : SetRecording(on)
  BY <1>16 DEF SetRecording, call, tables
<1>17. CASE \E w \in Workers : Exit(w)
  BY <1>17 DEF Exit, call, tables, logs
<1>18. CASE UNCHANGED vars
  BY <1>18 DEF vars, call, threads, tables, logs
<1>19. QED
  BY <1>1, <1>2, <1>3, <1>4, <1>5, <1>6, <1>7, <1>8, <1>9, <1>10, <1>11, <1>12, <1>13,
     <1>14, <1>15, <1>16, <1>17, <1>18
  DEF Next, Proceed

LEMMA StopStep == IInv /\ [Next]_vars => StopOK'
<1> SUFFICES ASSUME IInv, [Next]_vars PROVE StopOK'
  OBVIOUS
<1> USE DEF IInv, StopOK
<1>1. CASE BeginInit
  BY <1>1 DEF BeginInit, threads, tables
<1>2. CASE Acquire
  BY <1>2 DEF Acquire, Acquired, Started, tables, Starting
<1>3. CASE Abort
  BY <1>3 DEF Abort, Fail, MayFail, Acquired, threads, tables
<1>4. CASE EndInit
  BY <1>4 DEF EndInit, threads, tables, logs
<1>5. CASE \E t \in {Control} \cup IoThreads : BeginUninit(t)
  BY <1>5 DEF BeginUninit, IsIOThread, threads, tables, logs
<1>6. CASE RequestQuit
  BY <1>6 DEF RequestQuit, call, tables
<1>7. CASE Join
  BY <1>7, EndingAt DEF Join, threads, Ending
<1>8. CASE StopLogging
  BY <1>8, EndingAt DEF StopLogging, threads, Ending, ManagerOK
<1>9. CASE ReleaseDevices
  BY <1>9, EndingAt DEF ReleaseDevices, threads, tables, logs, Ending
<1>10. CASE ReleaseManagers
  BY <1>10, EndingAt DEF ReleaseManagers, threads, logs, Ending
<1>11. CASE EndTeardown
  BY <1>11 DEF EndTeardown, threads, tables, logs
<1>12. CASE \E t \in IoThreads : EnterHandler(t) \/ LeaveHandler(t)
  BY <1>12 DEF EnterHandler, LeaveHandler, call, tables, logs, ManagerOK
<1>13. CASE \E d \in Devices : Discover(d)
  <2>1. op \in {"failing", "uninit"} => ~(at > 2)
    BY <1>13 DEF Discover, ManagerOK
  <2>2. at \in Nat
    BY DEF TypeOK, Steps
  <2>3. QED
    BY <1>13, <2>1, <2>2 DEF Discover, call, threads, logs
<1>14. CASE StartWriter
  <2>1. at \in Nat
    BY DEF TypeOK, Steps
  <2>2. ASSUME op \in {"failing", "uninit"} PROVE ~(at > 4)
    <3>1. PICK t \in IoThreads : t \in busy
      BY <1>14, <2>2 DEF StartWriter, TypeOK
    <3>2. t \in running
      BY <3>1 DEF ManagerOK
    <3>3. QED
      BY <3>1, <3>2, <2>1, <2>2 DEF IoThreads
  <2>3. QED
    BY <1>14, <2>1, <2>2, Names DEF StartWriter, IoThreads, call, tables, logs
<1>15. CASE StartRecorder
  <2>1. at \in Nat
    BY DEF TypeOK, Steps
  <2>2. ASSUME op \in {"failing", "uninit"} PROVE ~(at > 4)
    <3>1. PICK t \in IoThreads : t \in busy
      BY <1>15, <2>2 DEF StartRecorder, TypeOK
    <3>2. t \in running
      BY <3>1 DEF ManagerOK
    <3>3. QED
      BY <3>1, <3>2, <2>1, <2>2 DEF IoThreads
  <2>3. QED
    BY <1>15, <2>1, <2>2, Names DEF StartRecorder, IoThreads, call, tables, logs
<1>16. CASE \E on \in BOOLEAN : SetRecording(on)
  BY <1>16 DEF SetRecording, call, tables
<1>17. CASE \E w \in Workers : Exit(w)
  BY <1>17 DEF Exit, call, tables, logs
<1>18. CASE UNCHANGED vars
  BY <1>18 DEF vars, call, threads, tables, logs
<1>19. QED
  BY <1>1, <1>2, <1>3, <1>4, <1>5, <1>6, <1>7, <1>8, <1>9, <1>10, <1>11, <1>12, <1>13,
     <1>14, <1>15, <1>16, <1>17, <1>18
  DEF Next, Proceed

LEMMA DownStep == IInv /\ [Next]_vars => CleanWhenDown'
<1> SUFFICES ASSUME IInv, [Next]_vars PROVE CleanWhenDown'
  OBVIOUS
<1> USE DEF IInv, CleanWhenDown
<1>1. CASE BeginInit
  BY <1>1 DEF BeginInit, threads, tables
<1>2. CASE Acquire
  BY <1>2 DEF Acquire, Acquired, Started, tables, Starting
<1>3. CASE Abort
  BY <1>3 DEF Abort, Fail, MayFail, Acquired, threads, tables
<1>4. CASE EndInit
  BY <1>4 DEF EndInit, threads, tables, logs
<1>5. CASE \E t \in {Control} \cup IoThreads : BeginUninit(t)
  BY <1>5 DEF BeginUninit, IsIOThread, threads, tables, logs
<1>6. CASE RequestQuit
  BY <1>6 DEF RequestQuit, call, tables
<1>7. CASE Join
  BY <1>7 DEF Join, threads, Ending
<1>8. CASE StopLogging
  BY <1>8 DEF StopLogging, threads, Ending
<1>9. CASE ReleaseDevices
  BY <1>9 DEF ReleaseDevices, threads, tables, logs, Ending
<1>10. CASE ReleaseManagers
  BY <1>10 DEF ReleaseManagers, threads, logs, Ending
<1>11. CASE EndTeardown
  BY <1>11, TeardownSteps DEF EndTeardown, threads, tables, logs, StopOK, ManagerOK,
     TypeOK, Steps, IoThreads, Workers
<1>12. CASE \E t \in IoThreads : EnterHandler(t) \/ LeaveHandler(t)
  BY <1>12 DEF EnterHandler, LeaveHandler, call, tables, logs
<1>13. CASE \E d \in Devices : Discover(d)
  BY <1>13 DEF Discover, call, threads, logs
<1>14. CASE StartWriter
  BY <1>14 DEF StartWriter, call, tables, logs
<1>15. CASE StartRecorder
  BY <1>15 DEF StartRecorder, call, tables, logs
<1>16. CASE \E on \in BOOLEAN : SetRecording(on)
  BY <1>16 DEF SetRecording, call, tables
<1>17. CASE \E w \in Workers : Exit(w)
  BY <1>17 DEF Exit, call, tables, logs
<1>18. CASE UNCHANGED vars
  BY <1>18 DEF vars, call, threads, tables, logs
<1>19. QED
  BY <1>1, <1>2, <1>3, <1>4, <1>5, <1>6, <1>7, <1>8, <1>9, <1>10, <1>11, <1>12, <1>13,
     <1>14, <1>15, <1>16, <1>17, <1>18
  DEF Next, Proceed

LEMMA NextIInv == IInv /\ [Next]_vars => IInv'
  BY TypeStep, CallStep, ManagerStep, UsersStep, StartStep, SessionStep, StopStep, DownStep
  DEF IInv

LEMMA Invariance == Spec => []IInv
  BY InitIInv, NextIInv, PTL DEF Spec

-----------------------------------------------------------------------------
\* The theorems

(***************************************************************************)
(* Every variable keeps its type through any sequence of sessions.         *)
(***************************************************************************)
THEOREM TypeCorrect == Spec => []TypeOK
<1>1. IInv => TypeOK
  BY DEF IInv
<1>2. QED
  BY <1>1, Invariance, PTL

(***************************************************************************)
(* A failed Init (at any step) and an Uninit leave nothing behind.         *)
(***************************************************************************)
THEOREM LeavesNothing == Spec => []CleanWhenDown
<1>1. IInv => CleanWhenDown
  BY DEF IInv
<1>2. QED
  BY <1>1, Invariance, PTL

(***************************************************************************)
(* Handlers and the sender never outlive what they use.                    *)
(***************************************************************************)
THEOREM UsersHaveState == Spec => []StateOutlivesUsers
<1>1. IInv => StateOutlivesUsers
  BY DEF IInv, TypeOK, ManagerOK, UsersOK, StateOutlivesUsers
<1>2. QED
  BY <1>1, Invariance, PTL

(***************************************************************************)
(* No device that could be told to stop collecting logs is forgotten.      *)
(***************************************************************************)
THEOREM StopsCollection == Spec => CollectionStopped
<1>1. IInv /\ [Next]_vars =>
        [initialized /\ logging => logged \cap known \subseteq logged' \cup told']_vars
  <2> SUFFICES ASSUME IInv, Next, initialized, logging
               PROVE  logged \cap known \subseteq logged' \cup told'
    BY DEF IInv
  <2>1. CASE StopLogging
    <3>1. op = "uninit" /\ at = 7
      BY <2>1, EndingAt DEF StopLogging, Ending, IInv, CallOK
    <3>2. {"search", "managers"} \subseteq have
      BY <3>1 DEF IInv, SessionOK
    <3>3. QED
      BY <2>1, <3>2 DEF StopLogging
  <2>2. CASE \E d \in Devices : Discover(d)
    BY <2>2 DEF Discover
  <2>3. CASE BeginInit \/ Acquire \/ Abort \/ EndInit
    BY <2>3 DEF BeginInit, Acquire, Abort, Fail, EndInit, tables
  <2>4. CASE \/ RequestQuit \/ Join \/ ReleaseDevices \/ ReleaseManagers \/ EndTeardown
             \/ \E t \in {Control} \cup IoThreads : BeginUninit(t)
    BY <2>4 DEF RequestQuit, Join, ReleaseDevices, ReleaseManagers, EndTeardown,
                BeginUninit, tables
  <2>5. CASE \/ \E t \in IoThreads : EnterHandler(t) \/ LeaveHandler(t)
             \/ StartWriter \/ StartRecorder
             \/ \E on \in BOOLEAN : SetRecording(on)
             \/ \E w \in Workers : Exit(w)
    BY <2>5 DEF EnterHandler, LeaveHandler, StartWriter, StartRecorder, SetRecording,
                Exit, tables
  <2>6. QED
    BY <2>1, <2>2, <2>3, <2>4, <2>5 DEF Next, Proceed
<1>2. QED
  BY <1>1, Invariance, PTL DEF Spec, CollectionStopped

=============================================================================
