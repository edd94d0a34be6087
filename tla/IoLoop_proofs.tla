--------------------------- MODULE IoLoop_proofs ---------------------------
(***************************************************************************)
(* Proofs of the safety properties of IoLoop, for any number of tasks.     *)
(* That no wake-up is lost rests on where the queue is swapped: after the  *)
(* pipe was drained, so that whatever is queued later has its own byte.    *)
(* That no thread posts to a stopped loop rests on the order of the stops. *)
(***************************************************************************)
EXTENDS IoLoop, SequenceTheorems, TLAPS

\* A task queued since the last swap has a byte in the pipe, or is owed one.
QueuedIsSignalled ==
  \A l \in Loops :
    pc[l] \in {"run", "check", "poll"} /\ pending[l] # <<>> => readable[l] \/ Owed(l)

\* A loop asked to quit after it last looked is woken.
QuitIsSignalled ==
  \A l \in Loops : pc[l] = "poll" /\ quit[l] => readable[l] \/ Owed(l)

\* Only a loop that runs tasks holds some.
TakenOK == \A l \in Loops : taken[l] # <<>> => pc[l] = "run"

\* The detection thread is the only I/O thread that posts, from its callbacks.
PosterOK ==
  \A a \in Loops : waking[a] # NoLoop =>
    a = Detection /\ pc[a] = "handle" /\ waking[a] # Detection

\* It is gone when the other loops are asked to quit.
OrderOK ==
  /\ quit[Data] \/ quit[Command] => pc[Detection] = "exited"
  /\ at >= 2 => pc[Detection] = "exited"
  /\ phase = "stopped" => at = 3

LEMMA OrderOfStops ==
  ASSUME TypeOK
  PROVE  /\ Stopping \in Loops
         /\ at = 1 => Stopping = Detection
         /\ at >= 2 => Stopping # Detection
BY IoLoopAssumption DEF TypeOK, Stopping, StopOrder, Loops

-----------------------------------------------------------------------------
\* Types

(***************************************************************************)
(* The queues, flags and positions of the three loops keep their types.    *)
(***************************************************************************)
THEOREM TypeCorrect == Spec => []TypeOK
<1>1. Init => TypeOK
  <2>1. <<>> \in Seq(Nat)
    BY EmptySeq
  <2>2. QED
    BY <2>1 DEF Init, TypeOK, Actors, Phases
<1>2. TypeOK /\ [Next]_vars => TypeOK'
  <2> SUFFICES ASSUME TypeOK, [Next]_vars PROVE TypeOK'
    OBVIOUS
  <2>1. CASE \E l \in Loops : Loop(l)
    <3> SUFFICES ASSUME NEW l \in Loops, Loop(l) PROVE TypeOK'
      BY <2>1
    <3>1. CASE CheckQuit(l)
      BY <3>1 DEF CheckQuit, Goto, TypeOK
    <3>2. CASE PollReturns(l)
      BY <3>2 DEF PollReturns, Goto, TypeOK
    <3>3. CASE Drain(l)
      BY <3>3 DEF Drain, TypeOK
    <3>4. CASE SwapTasks(l)
      <4>1. <<>> \in Seq(Nat)
        BY EmptySeq
      <4>2. QED
        BY <3>4, <4>1 DEF SwapTasks, Goto, TypeOK
    <3>5. CASE RunTask(l)
      <4>1. ran[l] \in Seq(Nat) /\ taken[l] \in Seq(Nat)
        BY DEF TypeOK
      <4>2. taken[l] # <<>> => /\ Tail(taken[l]) \in Seq(Nat)
                               /\ Append(ran[l], Head(taken[l])) \in Seq(Nat)
        BY <4>1, HeadTailProperties, AppendProperties
      <4>3. QED
        BY <3>5, <4>2 DEF RunTask, Goto, TypeOK
    <3>6. QED
      BY <3>1, <3>2, <3>3, <3>4, <3>5 DEF Loop
  <2>2. CASE \E a \in Actors : Wakeup(a)
    BY <2>2 DEF Wakeup, TypeOK
  <2>3. CASE \E a \in Actors, l \in Loops : Push(a, l)
    <3> SUFFICES ASSUME NEW a \in Actors, NEW l \in Loops, Push(a, l) PROVE TypeOK'
      BY <2>3
    <3>1. pending[l] \in Seq(Nat) /\ posted[l] + 1 \in Nat
      BY DEF TypeOK
    <3>2. Append(pending[l], posted[l] + 1) \in Seq(Nat)
      BY <3>1, AppendProperties
    <3>3. QED
      BY <3>1, <3>2 DEF Push, TypeOK
  <2>4. CASE Uninit
    BY <2>4 DEF Uninit, TypeOK, Phases
  <2>5. CASE RequestQuit
    BY <2>5 DEF RequestQuit, TypeOK, Phases
  <2>6. CASE StopWakeup
    BY <2>6 DEF StopWakeup, TypeOK, Phases
  <2>7. CASE Join
    BY <2>7 DEF Join, TypeOK, Phases
  <2>8. CASE Reset
    <3>1. <<>> \in Seq(Nat)
      BY EmptySeq
    <3>2. QED
      BY <2>8, <3>1 DEF Reset, TypeOK, Phases
  <2>9. CASE UNCHANGED vars
    BY <2>9 DEF vars, TypeOK
  <2>10. QED
    BY <2>1, <2>2, <2>3, <2>4, <2>5, <2>6, <2>7, <2>8, <2>9 DEF Next, Stop
<1>3. QED
  BY <1>1, <1>2, PTL DEF Spec

-----------------------------------------------------------------------------
\* Wake-ups

LEMMA SignalsStep ==
  ASSUME TypeOK, QueuedIsSignalled, QuitIsSignalled, [Next]_vars
  PROVE  QueuedIsSignalled' /\ QuitIsSignalled'
<1> USE DEF QueuedIsSignalled, QuitIsSignalled
<1>1. CASE \E l \in Loops : Loop(l)
  <2> SUFFICES ASSUME NEW l \in Loops, Loop(l), NEW k \in Loops
               PROVE  /\ QueuedIsSignalled!(k)'
                      /\ QuitIsSignalled!(k)'
    BY <1>1
  <2>0. Owed(k) <=> Owed(k)'
    BY DEF Loop, CheckQuit, PollReturns, Drain, SwapTasks, RunTask, Owed, Stopping
  <2>1. CASE CheckQuit(l)
    BY <2>0, <2>1 DEF CheckQuit, Goto, TypeOK
  <2>2. CASE PollReturns(l)
    BY <2>0, <2>2 DEF PollReturns, Goto, TypeOK
  <2>3. CASE Drain(l)
    BY <2>0, <2>3 DEF Drain, TypeOK
  <2>4. CASE SwapTasks(l)
    BY <2>0, <2>4 DEF SwapTasks, Goto, TypeOK
  <2>5. CASE RunTask(l)
    BY <2>0, <2>5 DEF RunTask, Goto, TypeOK
  <2>6. QED
    BY <2>1, <2>2, <2>3, <2>4, <2>5 DEF Loop
<1>2. CASE \E a \in Actors : Wakeup(a)
  BY <1>2 DEF Wakeup, Owed, Stopping, TypeOK
<1>3. CASE \E a \in Actors, l \in Loops : Push(a, l)
  <2> SUFFICES ASSUME NEW a \in Actors, NEW l \in Loops, Push(a, l), NEW k \in Loops
               PROVE  QueuedIsSignalled!(k)' /\ QuitIsSignalled!(k)'
    BY <1>3
  <2>1. waking[a] = NoLoop /\ waking'[a] = l
    BY DEF Push, TypeOK
  <2>2. Owed(k) => Owed(k)'
    BY <2>1, IoLoopAssumption DEF Push, Owed, Stopping, TypeOK
  <2>3. Owed(l)'
    BY <2>1 DEF Owed
  <2>4. QED
    BY <2>2, <2>3 DEF Push, TypeOK
<1>4. CASE Uninit
  BY <1>4 DEF Uninit, Owed
<1>5. CASE RequestQuit
  <2>1. \A k \in Loops : k = Stopping => Owed(k)'
    BY <1>5 DEF RequestQuit, Owed, Stopping
  <2>2. \A k \in Loops : Owed(k) => Owed(k)'
    BY <1>5 DEF RequestQuit, Owed
  <2>3. QED
    BY <1>5, <2>1, <2>2 DEF RequestQuit, TypeOK
<1>6. CASE StopWakeup
  BY <1>6 DEF StopWakeup, Owed, TypeOK
<1>7. CASE Join
  BY <1>7 DEF Join, Owed
<1>8. CASE Reset
  BY <1>8 DEF Reset
<1>9. CASE UNCHANGED vars
  BY <1>9 DEF vars, Owed, Stopping
<1>10. QED
  BY <1>1, <1>2, <1>3, <1>4, <1>5, <1>6, <1>7, <1>8, <1>9 DEF Next, Stop

(***************************************************************************)
(* No thread sleeps on a queued task or on a request to quit, for any      *)
(* interleaving of posts, stops and polls.                                 *)
(***************************************************************************)
THEOREM WakesUp == Spec => []NoLostWakeup
<1>1. Init => QueuedIsSignalled /\ QuitIsSignalled
  BY DEF Init, QueuedIsSignalled, QuitIsSignalled
<1>2. TypeOK /\ QueuedIsSignalled /\ QuitIsSignalled /\ [Next]_vars
        => QueuedIsSignalled' /\ QuitIsSignalled'
  BY SignalsStep
<1>3. QueuedIsSignalled /\ QuitIsSignalled => NoLostWakeup
  BY DEF QueuedIsSignalled, QuitIsSignalled, NoLostWakeup
<1>4. QED
  BY <1>1, <1>2, <1>3, TypeCorrect, PTL DEF Spec

-----------------------------------------------------------------------------
\* The order of the stops

LEMMA OrderStep ==
  ASSUME TypeOK, PosterOK, OrderOK, [Next]_vars
  PROVE  PosterOK' /\ OrderOK'
<1> USE DEF PosterOK, OrderOK
<1>0. Detection \in Loops /\ Data \in Loops /\ Command \in Loops
  BY DEF Loops
<1>1. CASE \E l \in Loops : Loop(l)
  <2> SUFFICES ASSUME NEW l \in Loops, Loop(l) PROVE PosterOK' /\ OrderOK'
    BY <1>1
  <2>1. CASE CheckQuit(l)
    BY <1>0, <2>1 DEF CheckQuit, Goto, TypeOK
  <2>2. CASE PollReturns(l)
    BY <1>0, <2>2 DEF PollReturns, Goto, TypeOK
  <2>3. CASE Drain(l)
    BY <2>3 DEF Drain
  <2>4. CASE SwapTasks(l)
    BY <1>0, <2>4 DEF SwapTasks, Goto, TypeOK
  <2>5. CASE RunTask(l)
    BY <1>0, <2>5 DEF RunTask, Goto, TypeOK
  <2>6. QED
    BY <2>1, <2>2, <2>3, <2>4, <2>5 DEF Loop
<1>2. CASE \E a \in Actors : Wakeup(a)
  BY <1>2, IoLoopAssumption DEF Wakeup, TypeOK, Actors
<1>3. CASE \E a \in Actors, l \in Loops : Push(a, l)
  BY <1>3, IoLoopAssumption DEF Push, MayPost, TypeOK, Actors
<1>4. CASE Uninit
  BY <1>4 DEF Uninit
<1>5. CASE RequestQuit
  <2>1. at = 1 => Stopping = Detection
    BY OrderOfStops
  <2>2. at \in {1, 2, 3}
    BY DEF TypeOK
  <2>3. OrderOK'
    BY <1>0, <1>5, <2>1, <2>2, IoLoopAssumption DEF RequestQuit, TypeOK
  <2>4. QED
    BY <1>5, <2>3 DEF RequestQuit
<1>6. CASE StopWakeup
  BY <1>6 DEF StopWakeup
<1>7. CASE Join
  <2>1. at \in {1, 2, 3} /\ (at = 1 => Stopping = Detection)
    BY OrderOfStops DEF TypeOK
  <2>2. QED
    BY <1>7, <2>1 DEF Join
<1>8. CASE Reset
  <2>1. \A a \in Loops : waking[a] = NoLoop
    BY <1>8 DEF Reset
  <2>2. QED
    BY <1>0, <1>8, <2>1 DEF Reset
<1>9. CASE UNCHANGED vars
  BY <1>9 DEF vars
<1>10. QED
  BY <1>1, <1>2, <1>3, <1>4, <1>5, <1>6, <1>7, <1>8, <1>9 DEF Next, Stop

(***************************************************************************)
(* No I/O thread posts to a loop that was asked to quit: the only one that *)
(* posts was joined before.                                                *)
(***************************************************************************)
THEOREM NoLatePost == Spec => []NoPostToStopped
<1>1. Init => PosterOK /\ OrderOK
  BY DEF Init, PosterOK, OrderOK, Loops, Actors
<1>2. TypeOK /\ PosterOK /\ OrderOK /\ [Next]_vars => PosterOK' /\ OrderOK'
  BY OrderStep
<1>3. TypeOK /\ PosterOK /\ OrderOK => NoPostToStopped
  BY DEF TypeOK, PosterOK, OrderOK, NoPostToStopped, Loops, Actors
<1>4. QED
  BY <1>1, <1>2, <1>3, TypeCorrect, PTL DEF Spec

-----------------------------------------------------------------------------
\* The tasks

LEMMA NumbersIsSeq ==
  ASSUME NEW n \in Nat
  PROVE  Numbers(n) \in Seq(Nat) /\ Len(Numbers(n)) = n
BY DEF Numbers

LEMMA NumbersAppend ==
  ASSUME NEW n \in Nat
  PROVE  Append(Numbers(n), n + 1) = Numbers(n + 1)
<1>1. Append(Numbers(n), n + 1) \in Seq(Nat) /\ Len(Append(Numbers(n), n + 1)) = n + 1
  BY NumbersIsSeq, AppendProperties
<1>2. \A i \in 1..(n + 1) : Append(Numbers(n), n + 1)[i] = Numbers(n + 1)[i]
  BY NumbersIsSeq, AppendProperties DEF Numbers
<1>3. Numbers(n + 1) \in Seq(Nat) /\ Len(Numbers(n + 1)) = n + 1
  BY NumbersIsSeq
<1>4. QED
  BY <1>1, <1>2, <1>3, SeqEqual

\* Queueing extends the whole of the tasks at its end.
LEMMA QueueAtEnd ==
  ASSUME NEW r \in Seq(Nat), NEW t \in Seq(Nat), NEW p \in Seq(Nat), NEW n \in Nat
  PROVE  r \o t \o Append(p, n) = Append(r \o t \o p, n)
<1>1. r \o t \in Seq(Nat) /\ <<n>> \in Seq(Nat) /\ r \o t \o p \in Seq(Nat)
  BY ConcatProperties
<1>2. Append(p, n) = p \o <<n>> /\ Append(r \o t \o p, n) = (r \o t \o p) \o <<n>>
  BY <1>1, AppendIsConcat
<1>3. QED
  BY <1>1, <1>2, ConcatAssociative

\* Running the first of the tasks taken leaves the whole as it was.
LEMMA RunAtFront ==
  ASSUME NEW r \in Seq(Nat), NEW t \in Seq(Nat), t # <<>>
  PROVE  Append(r, Head(t)) \o Tail(t) = r \o t
<1>1. Head(t) \in Nat /\ Tail(t) \in Seq(Nat) /\ <<Head(t)>> \in Seq(Nat)
  BY HeadTailProperties
<1>2. Append(r, Head(t)) = r \o <<Head(t)>>
  BY <1>1, AppendIsConcat
<1>3. <<Head(t)>> \o Tail(t) = t
  BY <1>1
<1>4. (r \o <<Head(t)>>) \o Tail(t) = r \o (<<Head(t)>> \o Tail(t))
  BY <1>1, ConcatAssociative
<1>5. QED
  BY <1>2, <1>3, <1>4

LEMMA TasksStep ==
  ASSUME TypeOK, TakenOK, RunInOrder, [Next]_vars
  PROVE  TakenOK' /\ RunInOrder'
<1> USE DEF TakenOK, RunInOrder
<1>1. CASE \E l \in Loops : Loop(l)
  <2> SUFFICES ASSUME NEW l \in Loops, Loop(l) PROVE TakenOK' /\ RunInOrder'
    BY <1>1
  <2>0. ran[l] \in Seq(Nat) /\ taken[l] \in Seq(Nat) /\ pending[l] \in Seq(Nat)
    BY DEF TypeOK
  <2>1. CASE CheckQuit(l)
    BY <2>1 DEF CheckQuit, Goto, TypeOK
  <2>2. CASE PollReturns(l)
    BY <2>2 DEF PollReturns, Goto, TypeOK
  <2>3. CASE Drain(l)
    BY <2>3 DEF Drain
  <2>4. CASE SwapTasks(l)
    <3>1. taken[l] = <<>>
      BY <2>4 DEF SwapTasks
    <3>2. (ran[l] \o pending[l]) \o <<>> = (ran[l] \o <<>>) \o pending[l]
      BY <2>0, ConcatEmptySeq, ConcatProperties
    <3>3. QED
      BY <2>4, <3>1, <3>2 DEF SwapTasks, Goto, TypeOK
  <2>5. CASE RunTask(l)
    <3>1. taken[l] # <<>> => Append(ran[l], Head(taken[l])) \o Tail(taken[l]) = ran[l] \o taken[l]
      BY <2>0, RunAtFront
    <3>2. QED
      BY <2>5, <3>1 DEF RunTask, Goto, TypeOK
  <2>6. QED
    BY <2>1, <2>2, <2>3, <2>4, <2>5 DEF Loop
<1>2. CASE \E a \in Actors : Wakeup(a)
  BY <1>2 DEF Wakeup
<1>3. CASE \E a \in Actors, l \in Loops : Push(a, l)
  <2> SUFFICES ASSUME NEW a \in Actors, NEW l \in Loops, Push(a, l)
               PROVE  TakenOK' /\ RunInOrder'
    BY <1>3
  <2>1. /\ ran[l] \in Seq(Nat) /\ taken[l] \in Seq(Nat) /\ pending[l] \in Seq(Nat)
        /\ posted[l] \in Nat /\ posted[l] + 1 \in Nat
    BY DEF TypeOK
  <2>2. ran[l] \o taken[l] \o Append(pending[l], posted[l] + 1) = Numbers(posted[l] + 1)
    <3>1. ran[l] \o taken[l] \o Append(pending[l], posted[l] + 1)
            = Append(ran[l] \o taken[l] \o pending[l], posted[l] + 1)
      BY <2>1, QueueAtEnd
    <3>2. ran[l] \o taken[l] \o pending[l] = Numbers(posted[l])
      OBVIOUS
    <3>3. Append(Numbers(posted[l]), posted[l] + 1) = Numbers(posted[l] + 1)
      BY <2>1, NumbersAppend
    <3>4. QED
      BY <3>1, <3>2, <3>3
  <2>3. /\ pending' = [pending EXCEPT ![l] = Append(pending[l], posted[l] + 1)]
        /\ posted' = [posted EXCEPT ![l] = posted[l] + 1]
        /\ UNCHANGED <<pc, taken, ran>>
    BY DEF Push
  <2>4. ASSUME NEW k \in Loops
        PROVE  ran'[k] \o taken'[k] \o pending'[k] = Numbers(posted'[k])
    <3>1. CASE k = l
      <4>1. pending'[l] = Append(pending[l], posted[l] + 1) /\ posted'[l] = posted[l] + 1
        BY <2>3 DEF TypeOK
      <4>2. QED
        BY <2>2, <2>3, <3>1, <4>1
    <3>2. CASE k # l
      <4>1. pending'[k] = pending[k] /\ posted'[k] = posted[k]
        BY <2>3, <3>2 DEF TypeOK
      <4>2. QED
        BY <2>3, <4>1
    <3>3. QED
      BY <3>1, <3>2
  <2>5. QED
    BY <2>3, <2>4
<1>4. CASE Uninit
  BY <1>4 DEF Uninit
<1>5. CASE RequestQuit
  BY <1>5 DEF RequestQuit
<1>6. CASE StopWakeup
  BY <1>6 DEF StopWakeup
<1>7. CASE Join
  BY <1>7 DEF Join
<1>8. CASE Reset
  <2>1. <<>> \o <<>> \o <<>> = Numbers(0)
    BY EmptySeq, ConcatEmptySeq DEF Numbers
  <2>2. QED
    BY <1>8, <2>1 DEF Reset
<1>9. CASE UNCHANGED vars
  BY <1>9 DEF vars
<1>10. QED
  BY <1>1, <1>2, <1>3, <1>4, <1>5, <1>6, <1>7, <1>8, <1>9 DEF Next, Stop

(***************************************************************************)
(* Each loop runs its tasks in the order they were posted, each once, and  *)
(* drops none while it is not reset.                                       *)
(***************************************************************************)
THEOREM InOrder == Spec => []RunInOrder
<1>1. Init => TakenOK /\ RunInOrder
  <2>1. <<>> \o <<>> \o <<>> = Numbers(0)
    BY EmptySeq, ConcatEmptySeq DEF Numbers
  <2>2. QED
    BY <2>1 DEF Init, TakenOK, RunInOrder
<1>2. TypeOK /\ TakenOK /\ RunInOrder /\ [Next]_vars => TakenOK' /\ RunInOrder'
  BY TasksStep
<1>3. QED
  BY <1>1, <1>2, TypeCorrect, PTL DEF Spec

-----------------------------------------------------------------------------
\* The refinement

LEMMA SizeOfThree ==
  ASSUME NEW r \in Seq(Nat), NEW t \in Seq(Nat), NEW p \in Seq(Nat)
  PROVE  Len(r \o t \o p) = Len(r) + Len(t \o p)
<1>1. t \o p \in Seq(Nat) /\ r \o t \o p = r \o (t \o p)
  BY ConcatProperties, ConcatAssociative
<1>2. QED
  BY <1>1, ConcatProperties

LEMMA AppendAtEnd ==
  ASSUME NEW t \in Seq(Nat), NEW p \in Seq(Nat), NEW n \in Nat
  PROVE  t \o Append(p, n) = Append(t \o p, n)
<1>1. <<n>> \in Seq(Nat) /\ t \o p \in Seq(Nat)
  BY ConcatProperties
<1>2. Append(p, n) = p \o <<n>> /\ Append(t \o p, n) = (t \o p) \o <<n>>
  BY <1>1, AppendIsConcat
<1>3. QED
  BY <1>1, <1>2, ConcatAssociative

LEMMA FrontOfTwo ==
  ASSUME NEW t \in Seq(Nat), NEW p \in Seq(Nat), t # <<>>
  PROVE  /\ t \o p # <<>>
         /\ Head(t \o p) = Head(t)
         /\ Tail(t \o p) = Tail(t) \o p
<1>1. t \o p \in Seq(Nat) /\ Len(t \o p) = Len(t) + Len(p) /\ Len(t) \in Nat \ {0} /\ Len(p) \in Nat
  BY ConcatProperties, EmptySeq, LenProperties
<1>2. t \o p # <<>> /\ Head(t \o p) = Head(t)
  BY <1>1
<1>3. /\ Tail(t) \in Seq(Nat) /\ Len(Tail(t)) = Len(t) - 1
      /\ Tail(t \o p) \in Seq(Nat) /\ Len(Tail(t \o p)) = Len(t) + Len(p) - 1
      /\ \A i \in 1..(Len(t) - 1) : Tail(t)[i] = t[i + 1]
      /\ \A i \in 1..(Len(t) + Len(p) - 1) : Tail(t \o p)[i] = (t \o p)[i + 1]
  BY <1>1, <1>2, HeadTailProperties
<1>4. Tail(t) \o p \in Seq(Nat) /\ Len(Tail(t) \o p) = Len(t) + Len(p) - 1
  BY <1>1, <1>3, ConcatProperties
<1>5. ASSUME NEW i \in 1..(Len(t) + Len(p) - 1)
      PROVE  Tail(t \o p)[i] = (Tail(t) \o p)[i]
  BY <1>1, <1>3, <1>4
<1>6. QED
  BY <1>3, <1>4, <1>5, SeqEqual

LEMMA SizeOfTasks ==
  ASSUME TypeOK, RunInOrder, NEW l \in Loops
  PROVE  posted[l] = Len(ran[l]) + Len(Waiting[l])
<1>1. ran[l] \in Seq(Nat) /\ taken[l] \in Seq(Nat) /\ pending[l] \in Seq(Nat) /\ posted[l] \in Nat
  BY DEF TypeOK
<1>4. Len(ran[l] \o taken[l] \o pending[l]) = Len(ran[l]) + Len(taken[l] \o pending[l])
  BY <1>1, SizeOfThree
<1>5. Len(Numbers(posted[l])) = posted[l]
  BY <1>1, NumbersIsSeq
<1>6. ran[l] \o taken[l] \o pending[l] = Numbers(posted[l])
  BY DEF RunInOrder
<1>7. Waiting[l] = taken[l] \o pending[l]
  BY DEF Waiting
<1>8. QED
  BY <1>4, <1>5, <1>6, <1>7

\* The queue of the abstract specification when its parts do not change.
LEMMA WaitingSame ==
  ASSUME UNCHANGED <<taken, pending>>
  PROVE  UNCHANGED Waiting
BY DEF Waiting

LEMMA PushPosts ==
  ASSUME TypeOK, RunInOrder, NEW a \in Actors, NEW l \in Loops, Push(a, l)
  PROVE  Tasks!PostTask(l)
<1>1. taken[l] \in Seq(Nat) /\ pending[l] \in Seq(Nat) /\ posted[l] + 1 \in Nat
  BY DEF TypeOK
<1>2. taken[l] \o Append(pending[l], posted[l] + 1) = Append(taken[l] \o pending[l], posted[l] + 1)
  BY <1>1, AppendAtEnd
<1>3. posted[l] + 1 = Len(ran[l]) + Len(Waiting[l]) + 1
  BY SizeOfTasks
<1>4. /\ pending' = [pending EXCEPT ![l] = Append(pending[l], posted[l] + 1)]
      /\ UNCHANGED <<taken, ran>>
  BY DEF Push
<1>5. \A k \in Loops : pending'[k] = IF k = l THEN Append(pending[l], posted[l] + 1) ELSE pending[k]
  BY <1>4 DEF TypeOK
<1>6. Waiting' = [Waiting EXCEPT ![l] = Append(Waiting[l], posted[l] + 1)]
  <2>1. Waiting' = [k \in Loops |-> taken[k] \o pending'[k]]
    BY <1>4 DEF Waiting
  <2>2. Waiting[l] = taken[l] \o pending[l]
    BY DEF Waiting
  <2>3. [Waiting EXCEPT ![l] = Append(Waiting[l], posted[l] + 1)]
          = [k \in Loops |-> IF k = l THEN Append(Waiting[l], posted[l] + 1) ELSE taken[k] \o pending[k]]
    BY DEF Waiting
  <2>4. ASSUME NEW k \in Loops
        PROVE  taken[k] \o pending'[k]
                 = IF k = l THEN Append(Waiting[l], posted[l] + 1) ELSE taken[k] \o pending[k]
    BY <1>2, <1>5, <2>2
  <2>5. QED
    BY <2>1, <2>3, <2>4, Zenon
<1>7. QED
  BY <1>3, <1>4, <1>6 DEF Tasks!PostTask

LEMMA RunTaskRuns ==
  ASSUME TypeOK, NEW l \in Loops, RunTask(l), taken[l] # <<>>
  PROVE  Tasks!Run(l)
<1>1. taken[l] \in Seq(Nat) /\ pending[l] \in Seq(Nat)
  BY DEF TypeOK
<1>2. Waiting[l] = taken[l] \o pending[l]
  BY DEF Waiting
<1>3. /\ Waiting[l] # <<>>
      /\ Head(Waiting[l]) = Head(taken[l])
      /\ Tail(Waiting[l]) = Tail(taken[l]) \o pending[l]
  BY <1>1, <1>2, FrontOfTwo
<1>4. /\ ran' = [ran EXCEPT ![l] = Append(ran[l], Head(taken[l]))]
      /\ taken' = [taken EXCEPT ![l] = Tail(taken[l])]
      /\ UNCHANGED pending
  BY DEF RunTask
<1>5. \A k \in Loops : taken'[k] = IF k = l THEN Tail(taken[l]) ELSE taken[k]
  BY <1>4 DEF TypeOK
<1>6. Waiting' = [Waiting EXCEPT ![l] = Tail(Waiting[l])]
  <2>1. Waiting' = [k \in Loops |-> taken'[k] \o pending[k]]
    BY <1>4 DEF Waiting
  <2>2. [Waiting EXCEPT ![l] = Tail(Waiting[l])]
          = [k \in Loops |-> IF k = l THEN Tail(Waiting[l]) ELSE taken[k] \o pending[k]]
    BY DEF Waiting
  <2>3. ASSUME NEW k \in Loops
        PROVE  taken'[k] \o pending[k]
                 = IF k = l THEN Tail(Waiting[l]) ELSE taken[k] \o pending[k]
    BY <1>3, <1>5
  <2>4. QED
    BY <2>1, <2>2, <2>3, Zenon
<1>7. QED
  BY <1>3, <1>4, <1>6 DEF Tasks!Run

\* The swap moves the queue as a whole and is not seen.
LEMMA SwapIsUnseen ==
  ASSUME TypeOK, TakenOK, NEW l \in Loops, SwapTasks(l)
  PROVE  UNCHANGED <<Waiting, ran>>
<1>1. taken[l] = <<>>
  BY DEF SwapTasks, TakenOK
<1>2. \A k \in Loops : /\ taken'[k] = IF k = l THEN pending[l] ELSE taken[k]
                       /\ pending'[k] = IF k = l THEN <<>> ELSE pending[k]
  BY DEF SwapTasks, TypeOK
<1>3. pending[l] \o <<>> = <<>> \o pending[l]
  BY ConcatEmptySeq DEF TypeOK
<1>4. \A k \in Loops : taken'[k] \o pending'[k] = taken[k] \o pending[k]
  BY <1>1, <1>2, <1>3
<1>5. Waiting' = Waiting
  BY <1>4 DEF Waiting
<1>6. QED
  BY <1>5 DEF SwapTasks

LEMMA QueueStep ==
  ASSUME TypeOK, TakenOK, RunInOrder, [Next]_vars
  PROVE  [Tasks!Next]_<<Waiting, ran>>
<1>1. CASE \E l \in Loops : Loop(l)
  <2> SUFFICES ASSUME NEW l \in Loops, Loop(l) PROVE [Tasks!Next]_<<Waiting, ran>>
    BY <1>1
  <2>1. CASE CheckQuit(l) \/ PollReturns(l) \/ Drain(l)
    BY <2>1, WaitingSame DEF CheckQuit, PollReturns, Drain
  <2>2. CASE SwapTasks(l)
    BY <2>2, SwapIsUnseen
  <2>3. CASE RunTask(l) /\ taken[l] # <<>>
    BY <2>3, RunTaskRuns DEF Tasks!Next
  <2>4. CASE RunTask(l) /\ taken[l] = <<>>
    BY <2>4, WaitingSame DEF RunTask
  <2>5. QED
    BY <2>1, <2>2, <2>3, <2>4 DEF Loop
<1>2. CASE \E a \in Actors : Wakeup(a)
  BY <1>2, WaitingSame DEF Wakeup
<1>3. CASE \E a \in Actors, l \in Loops : Push(a, l)
  BY <1>3, PushPosts DEF Tasks!Next
<1>4. CASE Uninit \/ RequestQuit \/ StopWakeup \/ Join
  BY <1>4, WaitingSame DEF Uninit, RequestQuit, StopWakeup, Join
<1>5. CASE Reset
  <2>1. Waiting' = [l \in Loops |-> <<>>]
    BY <1>5, EmptySeq, ConcatEmptySeq DEF Reset, Waiting
  <2>2. QED
    BY <1>5, <2>1 DEF Reset, Tasks!Next, Tasks!DropLoops
<1>6. CASE UNCHANGED vars
  BY <1>6, WaitingSame DEF vars
<1>7. QED
  BY <1>1, <1>2, <1>3, <1>4, <1>5, <1>6 DEF Next, Stop

(***************************************************************************)
(* The mutex, the swap of the queues, the wake-up pipe and the threads     *)
(* implement a queue of tasks per loop, for any number of tasks: a Push is *)
(* a PostTask, a RunTask that finds one a Run, a Reset drops the loops,    *)
(* and no other step is seen.                                              *)
(***************************************************************************)
THEOREM ImplementsQueue == Spec => TaskQueueSpec
<1>1. Init => Tasks!Init /\ TakenOK /\ RunInOrder
  <2>1. <<>> \o <<>> \o <<>> = Numbers(0) /\ <<>> \o <<>> = <<>>
    BY EmptySeq, ConcatEmptySeq DEF Numbers
  <2>2. Init => Tasks!Init
    BY <2>1 DEF Init, Tasks!Init, Waiting
  <2>3. QED
    BY <2>1, <2>2 DEF Init, TakenOK, RunInOrder
<1>2. TypeOK /\ TakenOK /\ RunInOrder /\ [Next]_vars => TakenOK' /\ RunInOrder'
  BY TasksStep
<1>3. TypeOK /\ TakenOK /\ RunInOrder /\ [Next]_vars => [Tasks!Next]_<<Waiting, ran>>
  BY QueueStep
<1>4. QED
  BY <1>1, <1>2, <1>3, TypeCorrect, PTL DEF Spec, TaskQueueSpec, Tasks!Spec

=============================================================================
