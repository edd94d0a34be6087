------------------------------- MODULE IoLoop -------------------------------
(***************************************************************************)
(* The three I/O threads of DeviceManager (detection, data, command), each *)
(* running an IOLoop: a poll over sockets and a wake-up pipe, and a queue  *)
(* of tasks that other threads post to add or remove a socket.  The        *)
(* control thread starts and stops them; the detection thread posts to the *)
(* other two when it opens channels for a new device.                      *)
(*                                                                         *)
(* The pipe is what matters of it, whether it is readable: every byte in   *)
(* it stands for a socket opened or closed since the last poll, so the     *)
(* limit on file descriptors keeps it far from full.  The poll may return  *)
(* at any time (traffic, or its timeout of 50 ms), but nothing relies on   *)
(* that: it must return when the pipe is readable.                         *)
(***************************************************************************)
EXTENDS Naturals, Sequences

CONSTANTS
  Detection, Data, Command,  \* the loops and their threads
  Control,                   \* the application's control thread
  MaxTasks                   \* bound, per loop: tasks posted to it in a session

Loops == {Detection, Data, Command}
Actors == Loops \cup {Control}
NoLoop == "none"

ASSUME IoLoopAssumption ==
  /\ Detection # Data /\ Detection # Command /\ Data # Command
  /\ Control \notin Loops /\ NoLoop \notin Loops
  /\ MaxTasks \in [Loops -> Nat]

VARIABLES
  pc,        \* where each loop's thread is
  pending,   \* pending_tasks_
  taken,     \* the tasks a loop swapped out and has not run yet
  readable,  \* the wake-up pipe holds a byte
  reported,  \* the running poll reported the pipe, which is not drained yet
  quit,      \* ThreadBase::quit_
  waking,    \* the loop an actor must still wake, or NoLoop
  phase,     \* what the control thread is doing
  at,        \* the position in StopOrder of the loop being stopped
  posted,    \* history: number of tasks posted to each loop
  ran        \* history: the tasks each loop ran

vars == <<pc, pending, taken, readable, reported, quit, waking, phase, at, posted, ran>>

Phases == {"running", "quit", "wake", "join", "stopped"}

TypeOK ==
  /\ pc \in [Loops -> {"check", "poll", "handle", "run", "exited"}]
  /\ pending \in [Loops -> Seq(Nat)]
  /\ taken \in [Loops -> Seq(Nat)]
  /\ readable \in [Loops -> BOOLEAN]
  /\ reported \in [Loops -> BOOLEAN]
  /\ quit \in [Loops -> BOOLEAN]
  /\ waking \in [Actors -> Loops \cup {NoLoop}]
  /\ phase \in Phases
  /\ at \in 1..3
  /\ posted \in [Loops -> Nat]
  /\ ran \in [Loops -> Seq(Nat)]

-----------------------------------------------------------------------------
\* StopIOThreads

\* Mutant: the consumers are stopped before the thread that feeds them.
StopOrder_DataFirst == <<Data, Command, Detection>>

\* "Stop discovery admission before the command and data consumers."
StopOrder == <<Detection, Data, Command>>
Stopping == StopOrder[at]

Uninit ==
  /\ phase = "running" /\ waking[Control] = NoLoop
  /\ phase' = "quit"
  /\ at' = 1
  /\ UNCHANGED <<pc, pending, taken, readable, reported, quit, waking, posted, ran>>

\* IOThread::Stop publishes the request, wakes the poll and joins.
RequestQuit ==
  /\ phase = "quit"
  /\ quit' = [quit EXCEPT ![Stopping] = TRUE]
  /\ phase' = "wake"
  /\ UNCHANGED <<pc, pending, taken, readable, reported, waking, at, posted, ran>>

\* Mutant: only the request is published.
StopWakeup_Skip ==
  /\ phase = "wake"
  /\ phase' = "join"
  /\ UNCHANGED <<pc, pending, taken, readable, reported, quit, waking, at, posted, ran>>

StopWakeup ==
  /\ phase = "wake"
  /\ readable' = [readable EXCEPT ![Stopping] = TRUE]
  /\ phase' = "join"
  /\ UNCHANGED <<pc, pending, taken, reported, quit, waking, at, posted, ran>>

Join ==
  /\ phase = "join" /\ pc[Stopping] = "exited"
  /\ IF at < 3 THEN phase' = "quit" /\ at' = at + 1
     ELSE phase' = "stopped" /\ at' = at
  /\ UNCHANGED <<pc, pending, taken, readable, reported, quit, waking, posted, ran>>

\* DeviceManager::Destory drops the loops; a later Init makes new ones.
Reset ==
  /\ phase = "stopped" /\ waking[Control] = NoLoop
  /\ phase' = "running"
  /\ at' = 1
  /\ pc' = [l \in Loops |-> "check"]
  /\ pending' = [l \in Loops |-> <<>>]
  /\ taken' = [l \in Loops |-> <<>>]
  /\ readable' = [l \in Loops |-> FALSE]
  /\ reported' = [l \in Loops |-> FALSE]
  /\ quit' = [l \in Loops |-> FALSE]
  /\ posted' = [l \in Loops |-> 0]
  /\ ran' = [l \in Loops |-> <<>>]
  /\ UNCHANGED waking

-----------------------------------------------------------------------------
\* PostTask

\* The control thread opens and closes sockets around a session; the
\* detection thread opens some from its data callbacks.
MayPost(a, l) ==
  \/ a = Control /\ phase \in {"running", "stopped"}
  \/ a = Detection /\ l # Detection /\ pc[a] = "handle"

\* The task is queued under the mutex ...
Push(a, l) ==
  /\ MayPost(a, l) /\ waking[a] = NoLoop
  /\ posted[l] < MaxTasks[l]
  /\ posted' = [posted EXCEPT ![l] = @ + 1]
  /\ pending' = [pending EXCEPT ![l] = Append(@, posted[l] + 1)]
  /\ waking' = [waking EXCEPT ![a] = l]
  /\ UNCHANGED <<pc, taken, readable, reported, quit, phase, at, ran>>

\* Mutant: the loop is left to its timeout.
Wakeup_Skip(a) ==
  /\ waking[a] # NoLoop
  /\ waking' = [waking EXCEPT ![a] = NoLoop]
  /\ UNCHANGED <<pc, pending, taken, readable, reported, quit, phase, at, posted, ran>>

\* ... and then, without it, the wake-up byte is written.
Wakeup(a) ==
  /\ waking[a] # NoLoop
  /\ readable' = [readable EXCEPT ![waking[a]] = TRUE]
  /\ waking' = [waking EXCEPT ![a] = NoLoop]
  /\ UNCHANGED <<pc, pending, taken, reported, quit, phase, at, posted, ran>>

-----------------------------------------------------------------------------
\* The loop's thread

Goto(l, place) == pc' = [pc EXCEPT ![l] = place]

CheckQuit(l) ==
  /\ pc[l] = "check"
  /\ Goto(l, IF quit[l] THEN "exited" ELSE "poll")
  /\ UNCHANGED <<pending, taken, readable, reported, quit, waking, phase, at, posted, ran>>

PollReturns(l) ==
  /\ pc[l] = "poll"
  /\ Goto(l, "handle")
  /\ reported' = [reported EXCEPT ![l] = readable[l]]
  /\ UNCHANGED <<pending, taken, readable, quit, waking, phase, at, posted, ran>>

\* The pipe's event callback, before, between or after those of the sockets.
Drain(l) ==
  /\ pc[l] = "handle" /\ reported[l] /\ waking[l] = NoLoop
  /\ readable' = [readable EXCEPT ![l] = FALSE]
  /\ reported' = [reported EXCEPT ![l] = FALSE]
  /\ UNCHANGED <<pc, pending, taken, quit, waking, phase, at, posted, ran>>

\* Mutant: the queue is cleared without looking at what came in meanwhile.
RunTask_Clear(l) ==
  /\ pc[l] = "run"
  /\ IF taken[l] = <<>>
     THEN /\ pending' = [pending EXCEPT ![l] = <<>>]
          /\ Goto(l, "check") /\ UNCHANGED <<taken, ran>>
     ELSE /\ ran' = [ran EXCEPT ![l] = Append(@, Head(taken[l]))]
          /\ taken' = [taken EXCEPT ![l] = Tail(@)]
          /\ UNCHANGED <<pc, pending>>
  /\ UNCHANGED <<readable, reported, quit, waking, phase, at, posted>>

\* Mutant: the pipe is drained once more, after the tasks.
RunTask_Drain(l) ==
  /\ pc[l] = "run"
  /\ IF taken[l] = <<>>
     THEN /\ readable' = [readable EXCEPT ![l] = FALSE]
          /\ Goto(l, "check") /\ UNCHANGED <<taken, ran>>
     ELSE /\ ran' = [ran EXCEPT ![l] = Append(@, Head(taken[l]))]
          /\ taken' = [taken EXCEPT ![l] = Tail(@)]
          /\ UNCHANGED <<pc, readable>>
  /\ UNCHANGED <<pending, reported, quit, waking, phase, at, posted>>

\* Mutant: the queue is copied, not swapped.
SwapTasks_Copy(l) ==
  /\ pc[l] = "handle" /\ ~reported[l] /\ waking[l] = NoLoop
  /\ taken' = [taken EXCEPT ![l] = pending[l]]
  /\ Goto(l, "run")
  /\ UNCHANGED <<pending, readable, reported, quit, waking, phase, at, posted, ran>>

\* All callbacks and timers are done; take the tasks under the mutex.
SwapTasks(l) ==
  /\ pc[l] = "handle" /\ ~reported[l] /\ waking[l] = NoLoop
  /\ taken' = [taken EXCEPT ![l] = pending[l]]
  /\ pending' = [pending EXCEPT ![l] = <<>>]
  /\ Goto(l, "run")
  /\ UNCHANGED <<readable, reported, quit, waking, phase, at, posted, ran>>

RunTask(l) ==
  /\ pc[l] = "run"
  /\ IF taken[l] = <<>>
     THEN Goto(l, "check") /\ UNCHANGED <<taken, ran>>
     ELSE /\ ran' = [ran EXCEPT ![l] = Append(@, Head(taken[l]))]
          /\ taken' = [taken EXCEPT ![l] = Tail(@)]
          /\ UNCHANGED pc
  /\ UNCHANGED <<pending, readable, reported, quit, waking, phase, at, posted>>

-----------------------------------------------------------------------------

Init ==
  /\ pc = [l \in Loops |-> "check"]
  /\ pending = [l \in Loops |-> <<>>]
  /\ taken = [l \in Loops |-> <<>>]
  /\ readable = [l \in Loops |-> FALSE]
  /\ reported = [l \in Loops |-> FALSE]
  /\ quit = [l \in Loops |-> FALSE]
  /\ waking = [a \in Actors |-> NoLoop]
  /\ phase = "running"
  /\ at = 1
  /\ posted = [l \in Loops |-> 0]
  /\ ran = [l \in Loops |-> <<>>]

Loop(l) == CheckQuit(l) \/ PollReturns(l) \/ Drain(l) \/ SwapTasks(l) \/ RunTask(l)
Stop == RequestQuit \/ StopWakeup \/ Join

Next ==
  \/ \E l \in Loops : Loop(l)
  \/ \E a \in Actors : Wakeup(a) \/ \E l \in Loops : Push(a, l)
  \/ Uninit \/ Stop \/ Reset

Spec == Init /\ [][Next]_vars

\* What a loop's thread does by itself: it polls again only when woken.
Driven(l) ==
  CheckQuit(l) \/ (readable[l] /\ PollReturns(l)) \/ Drain(l) \/ SwapTasks(l) \/ RunTask(l)

(***************************************************************************)
(* Threads run.  The poll's timeout and traffic are not counted on.        *)
(***************************************************************************)
FairSpec ==
  /\ Spec
  /\ \A l \in Loops : WF_vars(Driven(l))
  /\ \A a \in Actors : WF_vars(Wakeup(a))
  /\ WF_vars(Stop)

-----------------------------------------------------------------------------
\* Properties

Owed(l) == \/ \E a \in Actors : waking[a] = l
           \/ phase = "wake" /\ Stopping = l

(***************************************************************************)
(* No wake-up is lost: a thread that blocks in its poll although a task is *)
(* queued or the loop must quit has a byte in its pipe, or is about to get *)
(* one from the thread that queued the task or asked it to quit.           *)
(***************************************************************************)
NoLostWakeup ==
  \A l \in Loops :
    pc[l] = "poll" /\ (pending[l] # <<>> \/ quit[l]) => readable[l] \/ Owed(l)

\* The tasks posted to a loop so far.
Numbers(n) == [i \in 1..n |-> i]

(***************************************************************************)
(* Every posted task is run once and in the order of the posts, or still   *)
(* waits its turn, whatever was queued while others were being run.        *)
(***************************************************************************)
RunInOrder ==
  \A l \in Loops : ran[l] \o taken[l] \o pending[l] = Numbers(posted[l])

\* The tasks a loop has still to run: those it took, then those queued since.
Waiting == [l \in Loops |-> taken[l] \o pending[l]]

Tasks == INSTANCE TaskQueue WITH waiting <- Waiting, done <- ran

(***************************************************************************)
(* The mutex, the swap of the queues, the pipe and the threads amount to a *)
(* queue of tasks per loop that is run from its front: no step drops,      *)
(* repeats or reorders a task, or runs one before it was posted.           *)
(***************************************************************************)
TaskQueueSpec == Tasks!Spec

(***************************************************************************)
(* "Stop discovery admission before the command and data consumers": no    *)
(* I/O thread posts to a loop whose thread was asked to quit.              *)
(***************************************************************************)
NoPostToStopped ==
  \A a \in Loops : waking[a] # NoLoop => ~quit[waking[a]]

(***************************************************************************)
(* Stopping the I/O threads ends: each join returns without the help of    *)
(* the poll's timeout.                                                     *)
(***************************************************************************)
StopReturns == phase = "quit" ~> phase = "stopped"

(***************************************************************************)
(* A posted task is run, unless the session is shut down first.            *)
(***************************************************************************)
TaskRuns ==
  \A l \in Loops : \A n \in 1..MaxTasks[l] :
    posted[l] = n ~> Len(ran[l]) >= n \/ phase # "running"

=============================================================================
