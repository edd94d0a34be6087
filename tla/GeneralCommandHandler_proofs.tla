-------------------- MODULE GeneralCommandHandler_proofs --------------------
(***************************************************************************)
(* Proofs about the two tables of GeneralCommandHandler.                   *)
(*                                                                         *)
(* CommandTable, for any number of threads and commands and any range of   *)
(* sequence numbers: the types; that a command whose sequence number       *)
(* belongs to no other command is neither forgotten nor completed twice,   *)
(* and is there for the answer of the device once it was sent;             *)
(* that the table implements CommandCompletion as long as commands out at  *)
(* a time have different numbers, which they have before the numbers wrap; *)
(* and that until then an answer is one the device sent.                   *)
(*                                                                         *)
(* CallbackGate, for any number of I/O threads, registrations and          *)
(* sessions: its safety properties.                                        *)
(***************************************************************************)
EXTENDS CommandTable, CallbackGate, SequenceTheorems, FiniteSetTheorems, TLAPS

\* An entry is filed under the number of its command.
KeyOK == \A s \in 1..MaxSeq : table[s] # None => seqOf[table[s]] = s

\* Only a command that has not been submitted has no number.
NumberOK == \A c \in Commands : stage[c] = "fresh" <=> seqOf[c] = 0

\* A command that was not yet registered is nowhere and was not called back.
UntouchedOK ==
  \A c \in Commands : stage[c] \in {"fresh", "numbered"} =>
    c \notin Pending /\ holder[c] = None /\ calls[c] = 0 /\ fate[c] = "new"

\* A collected command has left the table; so has one whose send failed.
LeftOK ==
  \A c \in Commands : holder[c] # None \/ stage[c] = "cleanup" => c \notin Pending

\* Whatever may still call back has not done so.
OnceOK ==
  \A c \in Commands : Unshared(c) =>
    /\ calls[c] <= 1
    /\ c \in Pending \/ holder[c] # None => calls[c] = 0

\* The history of a command agrees with where it is.
FateOK ==
  \A c \in Commands : Unshared(c) =>
    /\ fate[c] \notin {"displaced", "removed"}
    /\ fate[c] = "pending" <=> c \in Pending
    /\ fate[c] = "collected" <=> holder[c] # None

\* A thread that holds collected commands is inside the CommandsHandle that
\* collected them, its outermost call.
TimerOK ==
  \A c \in Commands : holder[c] # None =>
    stack[holder[c]] # <<>> /\ stack[holder[c]][1].op = "timer"

Core == KeyOK /\ NumberOK /\ UntouchedOK /\ LeftOK /\ OnceOK /\ FateOK

-----------------------------------------------------------------------------
\* Stacks

LEMMA PushFacts ==
  ASSUME NEW S, NEW f \in S, NEW q \in Seq(S)
  PROVE  /\ Append(q, f) \in Seq(S)
         /\ Append(q, f) # <<>>
         /\ Len(Append(q, f)) = Len(q) + 1
         /\ \A i \in 1..Len(q) : Append(q, f)[i] = q[i]
         /\ Append(q, f)[Len(q) + 1] = f
  BY AppendProperties

LEMMA PopFacts ==
  ASSUME NEW S, NEW q \in Seq(S), q # <<>>
  PROVE  /\ SubSeq(q, 1, Len(q) - 1) \in Seq(S)
         /\ Len(SubSeq(q, 1, Len(q) - 1)) = Len(q) - 1
         /\ \A i \in 1..Len(q) - 1 : SubSeq(q, 1, Len(q) - 1)[i] = q[i]
         /\ q[Len(q)] \in S
         /\ Len(q) \in Nat \ {0}
<1>1. Len(q) \in Nat \ {0}
  BY EmptySeq, LenProperties
<1>2. \A i \in 1..Len(q) : q[i] \in S
  BY ElementOfSeq
<1>3. 1 \in Int /\ Len(q) - 1 \in Int /\ \A i \in 1..Len(q) - 1 : q[i] \in S
  BY <1>1, <1>2
<1>4. /\ SubSeq(q, 1, Len(q) - 1) \in Seq(S)
      /\ Len(SubSeq(q, 1, Len(q) - 1)) =
           IF 1 <= Len(q) - 1 THEN (Len(q) - 1) - 1 + 1 ELSE 0
      /\ \A i \in 1..(Len(q) - 1) - 1 + 1 : SubSeq(q, 1, Len(q) - 1)[i] = q[1 + i - 1]
  BY <1>3, SubSeqProperties
<1>5. \A n \in Nat \ {0} : (IF 1 <= n - 1 THEN (n - 1) - 1 + 1 ELSE 0) = n - 1
  OBVIOUS
<1>6. Len(SubSeq(q, 1, Len(q) - 1)) = Len(q) - 1
  BY <1>1, <1>4, <1>5, Zenon
<1>7. \A i \in 1..Len(q) - 1 : SubSeq(q, 1, Len(q) - 1)[i] = q[i]
  BY <1>1, <1>4
<1>8. q[Len(q)] \in S
  BY <1>1, <1>2
<1>9. QED
  BY <1>1, <1>4, <1>6, <1>7, <1>8

LEMMA TopFacts ==
  ASSUME TypeOK, NEW t \in Threads, NEW op, IsTop(t, op)
  PROVE  /\ Top(t) \in Frames
         /\ op \in {"send", "callback"} => Top(t).cmd \in Commands
         /\ op = "timer" => Top(t) = [op |-> "timer", cmd |-> None]
<1>1. stack[t] \in Seq(Frames) /\ stack[t] # <<>>
  BY DEF TypeOK, IsTop
<1>2. Top(t) \in Frames
  BY <1>1, PopFacts DEF Top
<1>3. QED
  BY <1>2 DEF IsTop, Frames

LEMMA PushType ==
  ASSUME TypeOK, NEW t \in Threads, NEW op, NEW c, [op |-> op, cmd |-> c] \in Frames,
         Push(t, op, c)
  PROVE  stack' \in [Threads -> Seq(Frames)]
  BY PushFacts DEF TypeOK, Push, Pushed

LEMMA PopType ==
  ASSUME TypeOK, NEW t \in Threads, stack[t] # <<>>, Pop(t)
  PROVE  stack' \in [Threads -> Seq(Frames)]
<1>1. stack[t] \in Seq(Frames)
  BY DEF TypeOK
<1>2. Popped(t) \in Seq(Frames)
  BY <1>1, PopFacts DEF Popped
<1>3. QED
  BY <1>2 DEF TypeOK, Pop

-----------------------------------------------------------------------------
\* Types

LEMMA InitType == Init => TypeOK
<1> SUFFICES ASSUME Init PROVE TypeOK
  OBVIOUS
<1>1. seq \in 1..MaxSeq /\ 0 \in 0..MaxSeq
  BY ConstantsAssumption DEF Init
<1>2. <<>> \in Seq(Frames)
  BY EmptySeq
<1>3. QED
  BY <1>1, <1>2 DEF Init, TypeOK, Stages, Fates

LEMMA NextType == TypeOK /\ [Next]_vars => TypeOK'
<1> SUFFICES ASSUME TypeOK, [Next]_vars PROVE TypeOK'
  OBVIOUS
<1>1. Threads = Callers \cup IoThreads
  BY DEF Threads
<1>2. /\ \A c \in Commands : [op |-> "send", cmd |-> c] \in Frames
      /\ \A c \in Commands : [op |-> "callback", cmd |-> c] \in Frames
      /\ [op |-> "timer", cmd |-> None] \in Frames
  BY DEF Frames
<1>3. ASSUME NEW t \in Threads, NEW c \in Commands, Submit(t, c) PROVE TypeOK'
  <2>1. NextSeq(seq) \in 1..MaxSeq /\ NextSeq(seq) \in 0..MaxSeq
    BY ConstantsAssumption DEF TypeOK, NextSeq
  <2>2. seq' \in 1..MaxSeq /\ seqOf' \in [Commands -> 0..MaxSeq]
    BY <1>3, <2>1 DEF Submit, TypeOK
  <2>3. stack' \in [Threads -> Seq(Frames)]
    BY <1>3, <1>2, PushType DEF Submit, TypeOK
  <2>4. stage' \in [Commands -> Stages] /\ fate' \in [Commands -> Fates]
    BY <1>3 DEF Submit, TypeOK, Stages, Fates
  <2>5. QED
    BY <1>3, <2>2, <2>3, <2>4 DEF Submit, TypeOK
<1>4. ASSUME NEW t \in Threads, AddCommand(t) PROVE TypeOK'
  <2>1. Top(t).cmd \in Commands
    BY <1>4, TopFacts DEF AddCommand
  <2>2. QED
    BY <1>4, <2>1 DEF AddCommand, TypeOK, Stages, Fates
<1>5. ASSUME NEW t \in Threads, SendOk(t) PROVE TypeOK'
  <2>1. Top(t).cmd \in Commands
    BY <1>5, TopFacts DEF SendOk
  <2>2. stack' \in [Threads -> Seq(Frames)]
    BY <1>5, PopType DEF SendOk, IsTop
  <2>3. QED
    BY <1>5, <2>1, <2>2 DEF SendOk, TypeOK, Stages
<1>6. ASSUME NEW t \in Threads, SendFails(t) PROVE TypeOK'
  BY <1>6 DEF SendFails, TypeOK, Stages
<1>7. ASSUME NEW t \in Threads, FailSend(t) PROVE TypeOK'
  <2>1. Top(t).cmd \in Commands
    BY <1>7, TopFacts DEF FailSend
  <2>2. stack' \in [Threads -> Seq(Frames)]
    BY <1>7, <2>1, <1>2, PushType DEF FailSend, TypeOK
  <2>3. fate' \in [Commands -> Fates]
    BY <1>7 DEF FailSend, FateOfRemoved, TypeOK, Fates
  <2>4. calls' \in [Commands -> Nat]
    BY <1>7 DEF FailSend, TypeOK
  <2>5. QED
    BY <1>7, <2>1, <2>2, <2>3, <2>4 DEF FailSend, Erase, TypeOK, Stages
<1>8. ASSUME NEW t \in Threads, CleanUp(t) PROVE TypeOK'
  <2>1. stack' \in [Threads -> Seq(Frames)]
    BY <1>8, PopType DEF CleanUp, IsTop
  <2>2. fate' \in [Commands -> Fates]
    BY <1>8 DEF CleanUp, FateOfRemoved, TypeOK, Fates
  <2>3. QED
    BY <1>8, <2>1, <2>2 DEF CleanUp, Erase, TypeOK, Stages
<1>9. ASSUME NEW t \in Threads, CallTimedOut(t) PROVE TypeOK'
  <2>1. stack' \in [Threads -> Seq(Frames)]
    BY <1>9, <1>2, PushType DEF CallTimedOut, TypeOK
  <2>2. QED
    BY <1>9, <2>1 DEF CallTimedOut, TypeOK, Fates
<1>10. ASSUME NEW t \in Threads, TimerDone(t) \/ CallbackReturns(t) PROVE TypeOK'
  <2>1. stack' \in [Threads -> Seq(Frames)]
    BY <1>10, PopType DEF TimerDone, CallbackReturns, IsTop
  <2>2. QED
    BY <1>10, <2>1 DEF TimerDone, CallbackReturns, TypeOK
<1>11. ASSUME NEW t \in IoThreads, NEW a \in Deliverable, TakeAck(t, a) PROVE TypeOK'
  <2>1. table[a.seq] \in Commands
    BY <1>11 DEF TakeAck, TypeOK
  <2>2. stack' \in [Threads -> Seq(Frames)]
    BY <1>11, <2>1, <1>2, <1>1, PushType DEF TakeAck, TypeOK
  <2>3. QED
    BY <1>11, <2>1, <2>2 DEF TakeAck, TypeOK, Fates
<1>12. ASSUME NEW t \in IoThreads, Collect(t) PROVE TypeOK'
  <2>1. stack' \in [Threads -> Seq(Frames)]
    BY <1>12, <1>1, <1>2, PushType DEF Collect, TypeOK
  <2>2. QED
    BY <1>12, <2>1 DEF Collect, TypeOK, Fates
<1>13. ASSUME NEW c \in Commands, Elapse(c) PROVE TypeOK'
  BY <1>13 DEF Elapse, TypeOK
<1>14. CASE Uninit \/ Reinit
  BY <1>14 DEF Uninit, Reinit, TypeOK
<1>15. CASE Destory
  BY <1>15 DEF Destory, TypeOK, Fates
<1>16. CASE UNCHANGED vars
  BY <1>16 DEF vars, TypeOK
<1>17. QED
  BY <1>3, <1>4, <1>5, <1>6, <1>7, <1>8, <1>9, <1>10, <1>11, <1>12, <1>13,
     <1>14, <1>15, <1>16 DEF Next, Continue

(***************************************************************************)
(* The table, the stacks and the counters keep their types.                *)
(***************************************************************************)
THEOREM TypeCorrect == Spec => []TypeOK
  BY InitType, NextType, PTL DEF Spec

-----------------------------------------------------------------------------
\* The table and the history

\* A pending command is found under its own number.
LEMMA PendingKey ==
  ASSUME TypeOK, KeyOK, NEW c \in Commands
  PROVE  c \in Pending <=> seqOf[c] \in 1..MaxSeq /\ table[seqOf[c]] = c
<1>1. c # None
  BY ConstantsAssumption
<1>2. QED
  BY <1>1 DEF Pending, KeyOK, TypeOK

\* Only Submit gives numbers out.
LEMMA SameNumbers ==
  ASSUME seqOf' = seqOf, NEW c \in Commands
  PROVE  Unshared(c)' <=> Unshared(c)
  BY DEF Unshared

LEMMA SubmitCore ==
  ASSUME TypeOK, Core, NEW t \in Threads, NEW c \in Commands, Submit(t, c)
  PROVE  Core'
<1> USE DEF Core
<1>1. NextSeq(seq) \in 1..MaxSeq /\ NextSeq(seq) # 0
  BY ConstantsAssumption DEF TypeOK, NextSeq
<1>2. Pending' = Pending
  BY DEF Submit, Pending
<1>3. /\ stage[c] = "fresh" /\ stage'[c] \in {"numbered", "returned"}
      /\ stage' \in [Commands -> Stages]
      /\ \A d \in Commands : d # c => stage'[d] = stage[d] /\ seqOf'[d] = seqOf[d]
                                    /\ fate'[d] = fate[d]
      /\ seqOf'[c] = NextSeq(seq)
      /\ fate'[c] \in {"new", "refused"}
      /\ stage'[c] = "numbered" => fate'[c] = "new"
  BY DEF Submit, TypeOK, UntouchedOK, Stages
<1>4. seqOf[c] = 0 /\ c \notin Pending /\ holder[c] = None /\ calls[c] = 0
  BY <1>3 DEF NumberOK, UntouchedOK
<1>5. holder' = holder /\ calls' = calls /\ table' = table
  BY DEF Submit
<1>6. KeyOK'
  <2>1. \A s \in 1..MaxSeq : table[s] # c
    BY <1>4, ConstantsAssumption DEF Pending
  <2>2. QED
    BY <2>1, <1>3, <1>5 DEF KeyOK, TypeOK
<1>7. NumberOK'
  BY <1>1, <1>3 DEF NumberOK
<1>8. UntouchedOK' /\ LeftOK'
  BY <1>2, <1>3, <1>4, <1>5 DEF UntouchedOK, LeftOK
<1>9. ASSUME NEW d \in Commands, d # c, Unshared(d)'
      PROVE  Unshared(d) \/ (stage[d] = "fresh" /\ d \notin Pending /\ holder[d] = None
                               /\ calls[d] = 0 /\ fate[d] = "new")
  <2>1. CASE stage[d] = "fresh"
    BY <2>1 DEF UntouchedOK
  <2>2. CASE stage[d] # "fresh"
    <3>1. seqOf[d] # seqOf[c]
      BY <2>2, <1>4 DEF NumberOK
    <3>2. QED
      BY <3>1, <1>3, <1>9 DEF Unshared
  <2>3. QED
    BY <2>1, <2>2
<1>10. OnceOK'
  BY <1>2, <1>4, <1>5, <1>9 DEF OnceOK
<1>11. FateOK'
  <2> SUFFICES ASSUME NEW d \in Commands, Unshared(d)'
               PROVE  /\ fate'[d] \notin {"displaced", "removed"}
                      /\ fate'[d] = "pending" <=> d \in Pending
                      /\ fate'[d] = "collected" <=> holder[d] # None
    BY <1>2, <1>5 DEF FateOK
  <2>1. CASE d = c
    BY <2>1, <1>3, <1>4
  <2>2. CASE d # c
    <3>1. fate'[d] = fate[d]
      BY <2>2, <1>3
    <3>2. CASE Unshared(d)
      BY <3>1, <3>2 DEF FateOK
    <3>3. CASE fate[d] = "new" /\ d \notin Pending /\ holder[d] = None
      BY <3>1, <3>3
    <3>4. QED
      BY <2>2, <3>2, <3>3, <1>9
  <2>3. QED
    BY <2>1, <2>2
<1>12. QED
  BY <1>6, <1>7, <1>8, <1>10, <1>11

LEMMA AddCore ==
  ASSUME TypeOK, TypeOK', Core, NEW t \in Threads, AddCommand(t)
  PROVE  Core'
<1> USE DEF Core
<1> DEFINE c == Top(t).cmd
           s == seqOf[c]
<1>1. c \in Commands
  BY TopFacts DEF AddCommand
<1>2. c # None /\ None \notin Commands
  BY <1>1, ConstantsAssumption
<1>3. /\ stage[c] = "numbered" /\ c \notin Pending /\ holder[c] = None /\ calls[c] = 0
      /\ s \in 1..MaxSeq
  BY <1>1 DEF AddCommand, UntouchedOK, NumberOK, TypeOK
<1>4. /\ stage' = [stage EXCEPT ![c] = "registered"]
      /\ table' = [table EXCEPT ![s] = c]
      /\ fate' = [d \in Commands |-> IF d = c THEN "pending"
                                     ELSE IF d = table[s] THEN "displaced" ELSE fate[d]]
      /\ seqOf' = seqOf /\ holder' = holder /\ calls' = calls
  BY DEF AddCommand
<1> HIDE DEF c, s
<1>5. s = seqOf[c]
  BY DEF s
<1>6. KeyOK'
  BY <1>3, <1>4, <1>5 DEF KeyOK, TypeOK
<1>7. NumberOK'
  BY <1>1, <1>3, <1>4 DEF NumberOK, TypeOK
<1>8. Pending' \subseteq Pending \cup {c} /\ c \in Pending'
  BY <1>1, <1>3, <1>4 DEF Pending, TypeOK
<1>9. ASSUME NEW d \in Commands, d # c, d \in Pending, d # table[s] PROVE d \in Pending'
  BY <1>9, <1>3, <1>4 DEF Pending, TypeOK
<1>10. ASSUME NEW d \in Commands, d = table[s] PROVE ~Unshared(d) /\ d # c
  <2>1. seqOf[d] = s
    BY <1>10, <1>2, <1>3 DEF KeyOK
  <2>2. d # c
    BY <1>10, <1>3 DEF Pending
  <2>3. QED
    BY <2>1, <2>2, <1>1, <1>5 DEF Unshared
<1>11. stage'[c] = "registered" /\ \A d \in Commands : d # c => stage'[d] = stage[d]
  BY <1>1, <1>4 DEF TypeOK
<1>12. UntouchedOK'
  <2> SUFFICES ASSUME NEW d \in Commands, stage'[d] \in {"fresh", "numbered"}
               PROVE  d \notin Pending' /\ holder[d] = None /\ calls[d] = 0 /\ fate'[d] = "new"
    BY <1>4 DEF UntouchedOK
  <2>1. d # c
    BY <1>11
  <2>2. d \notin Pending /\ holder[d] = None /\ calls[d] = 0 /\ fate[d] = "new"
    BY <2>1, <1>11 DEF UntouchedOK
  <2>3. d # table[s]
    BY <2>2, <1>3 DEF Pending
  <2>4. QED
    BY <2>1, <2>2, <2>3, <1>4, <1>8
<1>13. LeftOK'
  BY <1>3, <1>4, <1>8, <1>11 DEF LeftOK
<1>14. OnceOK'
  BY <1>3, <1>4, <1>8, SameNumbers DEF OnceOK
<1>15. FateOK'
  <2> SUFFICES ASSUME NEW d \in Commands, Unshared(d)
               PROVE  /\ fate'[d] \notin {"displaced", "removed"}
                      /\ fate'[d] = "pending" <=> d \in Pending'
                      /\ fate'[d] = "collected" <=> holder[d] # None
    BY <1>4, SameNumbers DEF FateOK
  <2>1. CASE d = c
    BY <2>1, <1>3, <1>4, <1>8
  <2>2. CASE d # c
    <3>1. d # table[s]
      BY <1>10
    <3>2. fate'[d] = fate[d] /\ (d \in Pending <=> d \in Pending')
      BY <2>2, <3>1, <1>4, <1>8, <1>9
    <3>3. QED
      BY <3>2 DEF FateOK
  <2>3. QED
    BY <2>1, <2>2
<1>16. QED
  BY <1>6, <1>7, <1>12, <1>13, <1>14, <1>15

\* What erasing one entry leaves pending.
LEMMA ErasePending ==
  ASSUME TypeOK, KeyOK, NEW s \in 1..MaxSeq, seqOf' = seqOf,
         table' = [table EXCEPT ![s] = None]
  PROVE  KeyOK' /\ Pending' = Pending \ {table[s]}
<1>1. \A n \in 1..MaxSeq : table'[n] = IF n = s THEN None ELSE table[n]
  BY DEF TypeOK
<1>2. KeyOK'
  BY <1>1 DEF KeyOK
<1>3. None \notin Commands
  BY ConstantsAssumption
<1>4. ASSUME NEW d \in Commands, d \in Pending' PROVE d \in Pending /\ d # table[s]
  <2> PICK n \in 1..MaxSeq : table'[n] = d
    BY <1>4 DEF Pending
  <2>1. n # s /\ table[n] = d
    BY <1>1, <1>3
  <2>2. table[s] # d
    BY <2>1, <1>3 DEF KeyOK
  <2>3. QED
    BY <2>1, <2>2 DEF Pending
<1>5. ASSUME NEW d \in Commands, d \in Pending, d # table[s] PROVE d \in Pending'
  BY <1>1, <1>5 DEF Pending
<1>6. QED
  BY <1>2, <1>4, <1>5 DEF Pending

\* The command a thread's SendCommand works on, once it is registered.
LEMMA SenderFacts ==
  ASSUME TypeOK, Core, NEW t \in Threads, IsTop(t, "send"),
         stage[Top(t).cmd] \notin {"fresh", "numbered"}
  PROVE  Top(t).cmd \in Commands /\ seqOf[Top(t).cmd] \in 1..MaxSeq
<1>1. Top(t).cmd \in Commands
  BY TopFacts
<1>2. QED
  BY <1>1 DEF Core, NumberOK, TypeOK

LEMMA FailCore ==
  ASSUME TypeOK, Core, NEW t \in Threads, FailSend(t)
  PROVE  Core'
<1> USE DEF Core
<1> DEFINE c == Top(t).cmd
           e == table[seqOf[c]]
<1>1. c \in Commands /\ seqOf[c] \in 1..MaxSeq /\ stage[c] = "failed"
  BY SenderFacts DEF FailSend
<1>2. /\ stage' = [stage EXCEPT ![c] = "cleanup"]
      /\ table' = [table EXCEPT ![seqOf[c]] = None]
      /\ fate' = [d \in Commands |-> IF d # e THEN fate[d]
                                     ELSE IF d = c THEN "sendfailed" ELSE "removed"]
      /\ seqOf' = seqOf /\ holder' = holder
      /\ IF e # None THEN calls' = [calls EXCEPT ![c] = @ + 1] ELSE calls' = calls
  BY DEF FailSend, Erase, FateOfRemoved, Removed
<1>3. e \in Commands \cup {None} /\ None \notin Commands
  BY <1>1, ConstantsAssumption DEF TypeOK
<1>4. e # None => seqOf[e] = seqOf[c] /\ e \in Pending
  BY <1>1, <1>3 DEF KeyOK, Pending
<1>5. KeyOK' /\ Pending' = Pending \ {e}
  BY <1>1, <1>2, ErasePending
<1> HIDE DEF c, e
<1>6. c \in Pending => c = e
  BY <1>1, PendingKey DEF e
<1>7. \A d \in Commands : Unshared(d) /\ d = e => d = c
  BY <1>1, <1>3, <1>4 DEF Unshared
<1>8. Unshared(c) /\ e # None => e = c
  BY <1>1, <1>3, <1>4 DEF Unshared
<1>9. stage'[c] = "cleanup" /\ \A d \in Commands : d # c => stage'[d] = stage[d]
  BY <1>1, <1>2 DEF TypeOK
<1>10. \A d \in Commands : /\ calls'[d] # calls[d] => d = c /\ e # None
                           /\ d = c /\ e # None => calls'[d] = calls[d] + 1
  BY <1>1, <1>2, <1>3 DEF TypeOK
<1>11. NumberOK'
  BY <1>1, <1>2, <1>9 DEF NumberOK
<1>12. UntouchedOK'
  <2> SUFFICES ASSUME NEW d \in Commands, stage'[d] \in {"fresh", "numbered"}
               PROVE  d \notin Pending' /\ holder[d] = None /\ calls'[d] = 0 /\ fate'[d] = "new"
    BY <1>2 DEF UntouchedOK
  <2>1. d # c
    BY <1>9
  <2>2. d \notin Pending /\ holder[d] = None /\ calls[d] = 0 /\ fate[d] = "new"
    BY <2>1, <1>9 DEF UntouchedOK
  <2>3. d # e
    BY <2>2, <1>3, <1>4
  <2>4. d \notin Pending' /\ fate'[d] = fate[d]
    BY <2>2, <2>3, <1>2, <1>5
  <2>5. calls'[d] = calls[d]
    BY <2>1, <1>10
  <2>6. QED
    BY <2>2, <2>4, <2>5
<1>13. LeftOK'
  BY <1>2, <1>5, <1>6, <1>9 DEF LeftOK
<1>14. OnceOK'
  <2> SUFFICES ASSUME NEW d \in Commands, Unshared(d)
               PROVE  /\ calls'[d] <= 1
                      /\ d \in Pending' \/ holder[d] # None => calls'[d] = 0
    BY <1>2, SameNumbers DEF OnceOK
  <2>1. CASE d = c /\ e # None
    <3>1. c = e /\ c \in Pending
      BY <2>1, <1>4, <1>8
    <3>2. calls[c] = 0 /\ holder[c] = None /\ c \notin Pending'
      BY <2>1, <3>1, <1>1, <1>5 DEF OnceOK, LeftOK
    <3>3. QED
      BY <2>1, <3>2, <1>10
  <2>2. CASE d # c \/ e = None
    <3>1. calls'[d] = calls[d]
      BY <2>2, <1>10
    <3>2. d \in Pending' => d \in Pending
      BY <1>5
    <3>3. QED
      BY <3>1, <3>2 DEF OnceOK
  <2>3. QED
    BY <2>1, <2>2
<1>15. FateOK'
  <2> SUFFICES ASSUME NEW d \in Commands, Unshared(d)
               PROVE  /\ fate'[d] \notin {"displaced", "removed"}
                      /\ fate'[d] = "pending" <=> d \in Pending'
                      /\ fate'[d] = "collected" <=> holder[d] # None
    BY <1>2, SameNumbers DEF FateOK
  <2>1. CASE d = e
    <3>1. d = c /\ d \in Pending /\ d \notin Pending'
      BY <2>1, <1>3, <1>4, <1>5, <1>7
    <3>2. fate'[d] = "sendfailed" /\ holder[d] = None
      BY <2>1, <3>1, <1>2 DEF LeftOK
    <3>3. QED
      BY <3>1, <3>2
  <2>2. CASE d # e
    BY <2>2, <1>2, <1>5 DEF FateOK
  <2>3. QED
    BY <2>1, <2>2
<1>16. QED
  BY <1>5, <1>11, <1>12, <1>13, <1>14, <1>15

LEMMA CleanUpCore ==
  ASSUME TypeOK, Core, NEW t \in Threads, CleanUp(t)
  PROVE  Core'
<1> USE DEF Core
<1> DEFINE c == Top(t).cmd
           e == table[seqOf[c]]
<1>1. c \in Commands /\ seqOf[c] \in 1..MaxSeq /\ stage[c] = "cleanup"
  BY SenderFacts DEF CleanUp
<1>2. /\ stage' = [stage EXCEPT ![c] = "returned"]
      /\ seqOf' = seqOf /\ holder' = holder /\ calls' = calls
      /\ \/ /\ table' = [table EXCEPT ![seqOf[c]] = None]
            /\ fate' = [d \in Commands |-> IF d # e THEN fate[d] ELSE "removed"]
         \/ table' = table /\ fate' = fate
  BY DEF CleanUp, Erase, FateOfRemoved, Removed
<1>3. c \notin Pending /\ e # c /\ e \in Commands \cup {None} /\ None \notin Commands
  BY <1>1, ConstantsAssumption DEF LeftOK, Pending, TypeOK
<1>4. e # None => seqOf[e] = seqOf[c] /\ e \in Pending
  BY <1>1, <1>3 DEF KeyOK, Pending
<1>5. KeyOK' /\ (Pending' = Pending \ {e} \/ (Pending' = Pending /\ fate' = fate))
  <2>1. CASE table' = table /\ fate' = fate
    BY <2>1, <1>2 DEF KeyOK, Pending
  <2>2. CASE table' = [table EXCEPT ![seqOf[c]] = None]
    BY <2>2, <1>1, <1>2, ErasePending
  <2>3. QED
    BY <2>1, <2>2, <1>2
<1> HIDE DEF c, e
<1>6. \A d \in Commands : Unshared(d) => d # e
  BY <1>1, <1>3, <1>4 DEF Unshared
<1>7. stage'[c] = "returned" /\ \A d \in Commands : d # c => stage'[d] = stage[d]
  BY <1>1, <1>2 DEF TypeOK
<1>8. \A d \in Commands : d # e => fate'[d] = fate[d]
  BY <1>2
<1>9. NumberOK'
  BY <1>1, <1>2, <1>7 DEF NumberOK
<1>10. UntouchedOK'
  BY <1>2, <1>3, <1>4, <1>5, <1>7, <1>8 DEF UntouchedOK
<1>11. LeftOK'
  BY <1>2, <1>5, <1>7 DEF LeftOK
<1>12. OnceOK'
  BY <1>2, <1>5, SameNumbers DEF OnceOK
<1>13. FateOK'
  BY <1>2, <1>5, <1>6, <1>8, SameNumbers DEF FateOK
<1>14. QED
  BY <1>5, <1>9, <1>10, <1>11, <1>12, <1>13

LEMMA AckCore ==
  ASSUME TypeOK, Core, NEW t \in IoThreads, NEW a, TakeAck(t, a)
  PROVE  Core'
<1> USE DEF Core
<1> DEFINE c == table[a.seq]
<1>1. a.seq \in 1..MaxSeq /\ c \in Commands /\ c \in Pending
  BY DEF TakeAck, TypeOK, Pending
<1>2. /\ table' = [table EXCEPT ![a.seq] = None]
      /\ fate' = [fate EXCEPT ![c] = "acked"]
      /\ calls' = [calls EXCEPT ![c] = @ + 1]
      /\ seqOf' = seqOf /\ holder' = holder /\ stage' = stage
  BY DEF TakeAck
<1>3. KeyOK' /\ Pending' = Pending \ {c}
  BY <1>1, <1>2, ErasePending
<1> HIDE DEF c
<1>4. /\ fate'[c] = "acked" /\ calls'[c] = calls[c] + 1
      /\ \A d \in Commands : d # c => fate'[d] = fate[d] /\ calls'[d] = calls[d]
  BY <1>1, <1>2 DEF TypeOK
<1>5. NumberOK'
  BY <1>2 DEF NumberOK
<1>6. UntouchedOK'
  BY <1>1, <1>2, <1>3, <1>4 DEF UntouchedOK
<1>7. LeftOK' /\ holder[c] = None
  BY <1>1, <1>2, <1>3 DEF LeftOK
<1>8. OnceOK'
  BY <1>1, <1>2, <1>3, <1>4, <1>7, SameNumbers DEF OnceOK
<1>9. FateOK'
  BY <1>1, <1>2, <1>3, <1>4, <1>7, SameNumbers DEF FateOK
<1>10. QED
  BY <1>3, <1>5, <1>6, <1>7, <1>8, <1>9

LEMMA CollectCore ==
  ASSUME TypeOK, Core, NEW t \in IoThreads, Collect(t)
  PROVE  Core'
<1> USE DEF Core
<1> DEFINE X == Pending \cap due
<1>1. /\ table' = [s \in 1..MaxSeq |-> IF table[s] \in X THEN None ELSE table[s]]
      /\ fate' = [c \in Commands |-> IF c \in X THEN "collected" ELSE fate[c]]
      /\ holder' = [c \in Commands |-> IF c \in X THEN t ELSE holder[c]]
      /\ seqOf' = seqOf /\ stage' = stage /\ calls' = calls
  BY DEF Collect
<1>2. X \subseteq Pending /\ X \subseteq Commands
  BY DEF Pending
<1> HIDE DEF X
<1>3. t # None /\ None \notin Commands
  BY ConstantsAssumption DEF Threads
<1>4. KeyOK'
  BY <1>1, <1>3 DEF KeyOK
<1>5. Pending' = Pending \ X
  BY <1>1, <1>2, <1>3 DEF Pending
<1>6. NumberOK'
  BY <1>1 DEF NumberOK
<1>7. UntouchedOK'
  BY <1>1, <1>2, <1>5 DEF UntouchedOK
<1>8. LeftOK'
  BY <1>1, <1>5 DEF LeftOK
<1>9. OnceOK'
  BY <1>1, <1>2, <1>5, SameNumbers DEF OnceOK
<1>10. FateOK'
  BY <1>1, <1>2, <1>3, <1>5, SameNumbers DEF FateOK, LeftOK
<1>11. QED
  BY <1>4, <1>6, <1>7, <1>8, <1>9, <1>10

LEMMA TimedOutCore ==
  ASSUME TypeOK, Core, NEW t \in Threads, CallTimedOut(t)
  PROVE  Core'
<1> USE DEF Core
<1> PICK c \in Commands :
      /\ holder[c] = t
      /\ holder' = [holder EXCEPT ![c] = None]
      /\ fate' = [fate EXCEPT ![c] = "timedout"]
      /\ calls' = [calls EXCEPT ![c] = @ + 1]
  BY DEF CallTimedOut
<1>1. t # None
  BY ConstantsAssumption
<1>2. Pending' = Pending /\ table' = table /\ seqOf' = seqOf /\ stage' = stage
  BY DEF CallTimedOut, Pending
<1>3. c \notin Pending /\ holder'[c] = None
  BY <1>1 DEF LeftOK, TypeOK
<1>4. \A d \in Commands : d # c => /\ holder'[d] = holder[d] /\ fate'[d] = fate[d]
                                  /\ calls'[d] = calls[d]
  BY DEF TypeOK
<1>5. fate'[c] = "timedout" /\ calls'[c] = calls[c] + 1
  BY DEF TypeOK
<1>6. KeyOK' /\ NumberOK'
  BY <1>2 DEF KeyOK, NumberOK
<1>7. UntouchedOK' /\ LeftOK'
  BY <1>1, <1>2, <1>3, <1>4 DEF UntouchedOK, LeftOK
<1>8. OnceOK'
  BY <1>1, <1>2, <1>3, <1>4, <1>5, SameNumbers DEF OnceOK
<1>9. FateOK'
  BY <1>1, <1>2, <1>3, <1>4, <1>5, SameNumbers DEF FateOK
<1>10. QED
  BY <1>6, <1>7, <1>8, <1>9

LEMMA DestoryCore ==
  ASSUME TypeOK, Core, Destory
  PROVE  Core'
<1> USE DEF Core
<1>1. None \notin Commands
  BY ConstantsAssumption
<1>2. Pending' = {}
  BY <1>1 DEF Destory, Pending
<1>3. KeyOK' /\ NumberOK'
  BY DEF Destory, KeyOK, NumberOK
<1>4. UntouchedOK' /\ LeftOK' /\ OnceOK'
  BY <1>2, SameNumbers DEF Destory, UntouchedOK, LeftOK, OnceOK
<1>5. FateOK'
  BY <1>2, SameNumbers DEF Destory, FateOK, LeftOK
<1>6. QED
  BY <1>3, <1>4, <1>5

\* A step that only advances a registered command's SendCommand.
LEMMA StageCore ==
  ASSUME TypeOK, Core, NEW c \in Commands, NEW v \in {"failed", "returned"},
         stage[c] = "registered", stage' = [stage EXCEPT ![c] = v],
         UNCHANGED <<table, seqOf, holder, fate, calls>>
  PROVE  Core'
<1> USE DEF Core
<1>1. Pending' = Pending
  BY DEF Pending
<1>2. stage'[c] = v /\ \A d \in Commands : d # c => stage'[d] = stage[d]
  BY DEF TypeOK
<1>3. KeyOK' /\ NumberOK' /\ UntouchedOK' /\ LeftOK'
  BY <1>1, <1>2 DEF KeyOK, NumberOK, UntouchedOK, LeftOK
<1>4. OnceOK' /\ FateOK'
  BY <1>1, SameNumbers DEF OnceOK, FateOK
<1>5. QED
  BY <1>3, <1>4

LEMMA SameCore ==
  ASSUME Core, UNCHANGED <<seqOf, stage, table, holder, fate, calls>>
  PROVE  Core'
  BY SameNumbers DEF Core, KeyOK, NumberOK, UntouchedOK, LeftOK, OnceOK, FateOK, Pending

LEMMA NextCore == TypeOK /\ Core /\ [Next]_vars => Core'
<1> SUFFICES ASSUME TypeOK, Core, [Next]_vars PROVE Core'
  OBVIOUS
<1>1. TypeOK'
  BY NextType
<1>2. ASSUME NEW t \in Threads, SendOk(t) \/ SendFails(t) PROVE Core'
  BY <1>2, TopFacts, StageCore DEF SendOk, SendFails
<1>3. ASSUME NEW t \in Threads, TimerDone(t) \/ CallbackReturns(t) PROVE Core'
  BY <1>3, SameCore DEF TimerDone, CallbackReturns
<1>4. CASE (\E c \in Commands : Elapse(c)) \/ Uninit \/ Reinit \/ UNCHANGED vars
  BY <1>4, SameCore DEF Elapse, Uninit, Reinit, vars
<1>5. QED
  BY <1>1, <1>2, <1>3, <1>4, SubmitCore, AddCore, FailCore, CleanUpCore, AckCore,
     CollectCore, TimedOutCore, DestoryCore DEF Next, Continue

LEMMA InitCore == Init => Core
<1> SUFFICES ASSUME Init PROVE Core
  OBVIOUS
<1>1. Pending = {}
  BY ConstantsAssumption DEF Init, Pending
<1>2. QED
  BY <1>1 DEF Init, Core, KeyOK, NumberOK, UntouchedOK, LeftOK, OnceOK, FateOK

(***************************************************************************)
(* Whatever the number of threads, commands and sequence numbers, and      *)
(* whatever ACKs the network delivers, the callback of a command whose     *)
(* sequence number is given to no other command is invoked at most once.   *)
(***************************************************************************)
THEOREM CompletesOnce == Spec => []OnceUnlessReused
<1>1. Core => OnceUnlessReused
  BY DEF Core, OnceOK, OnceUnlessReused
<1>2. QED
  BY <1>1, InitCore, NextCore, TypeCorrect, PTL DEF Spec

-----------------------------------------------------------------------------
\* Collected commands and the call that holds them

LEMMA FirstFacts ==
  ASSUME NEW q \in Seq(Frames), q # <<>>
  PROVE  Len(q) \in Nat \ {0} /\ 1 \in 1..Len(q)
<1>1. Len(q) \in Nat \ {0}
  BY EmptySeq, LenProperties
<1>2. QED
  BY <1>1

\* A call entered on top of a stack leaves its outermost call in place.
LEMMA PushTimer ==
  ASSUME TypeOK, TimerOK, NEW t \in Threads, NEW op, NEW c,
         [op |-> op, cmd |-> c] \in Frames, Push(t, op, c),
         \A d \in Commands : holder'[d] \in {holder[d], None}
  PROVE  TimerOK'
<1> SUFFICES ASSUME NEW d \in Commands, holder'[d] # None
             PROVE  stack'[holder[d]] # <<>> /\ stack'[holder[d]][1].op = "timer"
  BY DEF TimerOK
<1>1. stack[holder[d]] # <<>> /\ stack[holder[d]][1].op = "timer"
  BY DEF TimerOK
<1>2. CASE holder[d] = t
  <2>1. stack[t] \in Seq(Frames) /\ stack[t] # <<>>
    BY <1>1, <1>2 DEF TypeOK
  <2>2. Pushed(t, op, c) # <<>> /\ Pushed(t, op, c)[1] = stack[t][1]
    <3> DEFINE f == [op |-> op, cmd |-> c]
    <3>1. /\ Append(stack[t], f) # <<>>
          /\ \A i \in 1..Len(stack[t]) : Append(stack[t], f)[i] = stack[t][i]
      BY <2>1, PushFacts
    <3>2. 1 \in 1..Len(stack[t])
      BY <2>1, FirstFacts
    <3>3. QED
      BY <3>1, <3>2 DEF Pushed
  <2>3. stack'[t] = Pushed(t, op, c)
    BY DEF Push, TypeOK
  <2>4. QED
    BY <1>1, <1>2, <2>2, <2>3
<1>3. CASE holder[d] # t
  <2>1. stack'[holder[d]] = stack[holder[d]]
    BY <1>3 DEF Push, TypeOK, Threads
  <2>2. QED
    BY <1>1, <2>1
<1>4. QED
  BY <1>2, <1>3

\* A call that returns is not the one that holds collected commands.
LEMMA PopTimer ==
  ASSUME TypeOK, TimerOK, NEW t \in Threads, stack[t] # <<>>, Pop(t),
         holder' = holder,
         Top(t).op # "timer" \/ \A c \in Commands : holder[c] # t
  PROVE  TimerOK'
<1> SUFFICES ASSUME NEW d \in Commands, holder[d] # None
             PROVE  stack'[holder[d]] # <<>> /\ stack'[holder[d]][1].op = "timer"
  BY DEF TimerOK
<1>1. stack[holder[d]] # <<>> /\ stack[holder[d]][1].op = "timer"
  BY DEF TimerOK
<1>2. CASE holder[d] = t
  <2>1. stack[t] \in Seq(Frames) /\ Len(stack[t]) \in Nat \ {0}
    BY PopFacts DEF TypeOK
  <2>2. Len(stack[t]) # 1
    BY <1>1, <1>2 DEF Top
  <2>3. 1 \in 1..Len(stack[t]) - 1 /\ Len(stack[t]) - 1 # 0
    <3>1. \A k \in Nat \ {0} : k # 1 => 1 \in 1..k - 1 /\ k - 1 # 0
      OBVIOUS
    <3>2. QED
      BY <2>1, <2>2, <3>1, Zenon
  <2>4. Popped(t)[1] = stack[t][1] /\ Len(Popped(t)) # 0
    BY <2>1, <2>3, PopFacts DEF Popped
  <2>5. Popped(t) # <<>>
    BY <2>4
  <2>6. stack'[t] = Popped(t)
    BY DEF Pop, TypeOK
  <2>7. QED
    BY <1>1, <1>2, <2>4, <2>5, <2>6
<1>3. CASE holder[d] # t
  <2>1. stack'[holder[d]] = stack[holder[d]]
    BY <1>3 DEF Pop, TypeOK, Threads
  <2>2. QED
    BY <1>1, <2>1
<1>4. QED
  BY <1>2, <1>3

LEMMA CollectTimer ==
  ASSUME TypeOK, TimerOK, NEW t \in IoThreads, Collect(t)
  PROVE  TimerOK'
<1>1. stack[t] = <<>> /\ stack' = [stack EXCEPT ![t] = Append(<<>>, [op |-> "timer", cmd |-> None])]
  BY DEF Collect, Running, Push, Pushed
<1>2. stack'[t] # <<>> /\ stack'[t][1].op = "timer"
  <2>1. stack'[t] = <<[op |-> "timer", cmd |-> None]>>
    BY <1>1 DEF TypeOK, Threads
  <2>2. QED
    BY <2>1
<1>3. \A u \in Threads : u # t => stack'[u] = stack[u]
  BY <1>1 DEF TypeOK
<1>4. \A d \in Commands : holder'[d] \in {holder[d], t}
  BY DEF Collect
<1>5. \A d \in Commands : holder[d] \in Threads \cup {None}
  BY DEF TypeOK, Threads
<1>6. QED
  BY <1>2, <1>3, <1>4, <1>5 DEF TimerOK

LEMMA NextTimer == TypeOK /\ TimerOK /\ [Next]_vars => TimerOK'
<1> SUFFICES ASSUME TypeOK, TimerOK, [Next]_vars PROVE TimerOK'
  OBVIOUS
<1>1. \A c \in Commands : \A op \in {"send", "callback"} : [op |-> op, cmd |-> c] \in Frames
  BY DEF Frames
<1>2. ASSUME NEW t \in Threads, NEW c \in Commands, Submit(t, c) PROVE TimerOK'
  <2>1. CASE UNCHANGED stack
    BY <1>2, <2>1 DEF Submit, TimerOK
  <2>2. CASE Push(t, "send", c)
    BY <1>1, <1>2, <2>2, PushTimer DEF Submit
  <2>3. QED
    BY <1>2, <2>1, <2>2 DEF Submit
<1>3. ASSUME NEW t \in Threads, FailSend(t) PROVE TimerOK'
  <2>1. CASE UNCHANGED stack
    BY <1>3, <2>1 DEF FailSend, TimerOK
  <2>2. CASE Push(t, "callback", Top(t).cmd)
    BY <1>1, <1>3, <2>2, TopFacts, PushTimer DEF FailSend
  <2>3. QED
    BY <1>3, <2>1, <2>2 DEF FailSend
<1>4. ASSUME NEW t \in Threads, SendOk(t) \/ CleanUp(t) \/ CallbackReturns(t) PROVE TimerOK'
  <2>1. Top(t).op # "timer" /\ stack[t] # <<>> /\ Pop(t) /\ holder' = holder
    BY <1>4 DEF SendOk, CleanUp, CallbackReturns, IsTop
  <2>2. QED
    BY <2>1, PopTimer
<1>5. ASSUME NEW t \in Threads, TimerDone(t) PROVE TimerOK'
  BY <1>5, PopTimer DEF TimerDone, IsTop
<1>6. ASSUME NEW t \in Threads, CallTimedOut(t) PROVE TimerOK'
  <2> PICK c \in Commands : holder' = [holder EXCEPT ![c] = None] /\ Push(t, "callback", c)
    BY <1>6 DEF CallTimedOut
  <2>1. \A d \in Commands : holder'[d] \in {holder[d], None}
    BY DEF TypeOK
  <2>2. QED
    BY <1>1, <2>1, PushTimer
<1>7. ASSUME NEW t \in IoThreads, NEW a, TakeAck(t, a) PROVE TimerOK'
  <2>1. t \in Threads /\ table[a.seq] \in Commands
    BY <1>7 DEF Threads, TakeAck, TypeOK
  <2>2. Push(t, "callback", table[a.seq]) /\ holder' = holder
    BY <1>7 DEF TakeAck
  <2>3. QED
    BY <1>1, <2>1, <2>2, PushTimer
<1>8. ASSUME UNCHANGED <<stack, holder>> PROVE TimerOK'
  BY <1>8 DEF TimerOK
<1>9. ASSUME NEW t \in Threads, AddCommand(t) \/ SendFails(t) PROVE TimerOK'
  BY <1>8, <1>9 DEF AddCommand, SendFails
<1>10. ASSUME NEW c \in Commands, Elapse(c) PROVE TimerOK'
  BY <1>8, <1>10 DEF Elapse
<1>11. CASE Uninit \/ Destory \/ Reinit \/ UNCHANGED vars
  BY <1>8, <1>11 DEF Uninit, Destory, Reinit, vars
<1>12. QED
  BY <1>2, <1>3, <1>4, <1>5, <1>6, <1>7, <1>9, <1>10, <1>11, CollectTimer DEF Next, Continue

(***************************************************************************)
(* A command whose number is its own is never forgotten: while nothing has *)
(* claimed it, it is in commands_, and once a CommandsHandle has collected *)
(* it, that CommandsHandle is still running.                               *)
(***************************************************************************)
THEOREM NotForgotten == Spec => []PendingUnlessReused
<1>1. ASSUME TypeOK, Core, TimerOK PROVE PendingUnlessReused
  <2> SUFFICES ASSUME NEW c \in Commands, Unshared(c), fate[c] = "collected"
               PROVE  \E t \in IoThreads :
                        /\ holder[c] = t
                        /\ \E i \in DOMAIN stack[t] : stack[t][i].op = "timer"
    BY <1>1 DEF PendingUnlessReused, Core, FateOK
  <2>1. holder[c] # None
    BY <1>1 DEF Core, FateOK
  <2>2. holder[c] \in IoThreads
    BY <1>1, <2>1 DEF TypeOK
  <2>3. stack[holder[c]] \in Seq(Frames) /\ stack[holder[c]] # <<>>
    BY <1>1, <2>1, <2>2 DEF TimerOK, TypeOK, Threads
  <2>4. 1 \in DOMAIN stack[holder[c]]
    BY <2>3, FirstFacts
  <2>5. stack[holder[c]][1].op = "timer"
    BY <1>1, <2>1 DEF TimerOK
  <2>6. QED
    BY <2>2, <2>4, <2>5
<1>2. Init => TimerOK
  BY DEF Init, TimerOK
<1>3. QED
  BY <1>1, <1>2, InitCore, NextCore, NextTimer, TypeCorrect, PTL DEF Spec

-----------------------------------------------------------------------------
\* Commands that can be answered

\* A command whose SendCommand is at sendto was registered and not yet undone;
\* one that reached the network has left SendCommand without either undo.
SentOK ==
  \A c \in Commands :
    /\ c \in sent => stage[c] = "returned"
    /\ c \in sent \/ stage[c] = "registered" =>
         fate[c] \notin {"new", "refused", "sendfailed"}

\* A step that undoes no command and does not move a SendCommand.
LEMMA SameSent ==
  ASSUME SentOK, UNCHANGED <<sent, stage>>,
         \A c \in Commands : fate'[c] # fate[c] =>
           fate'[c] \notin {"new", "refused", "sendfailed"}
  PROVE  SentOK'
  BY DEF SentOK

\* A step of the SendCommand of c alone.
LEMMA SenderSent ==
  ASSUME SentOK, NEW c \in Commands, sent' \subseteq sent \cup {c},
         \A d \in Commands : d # c =>
           stage'[d] = stage[d] /\ fate'[d] \in {fate[d], "displaced", "removed"},
         c \in sent' => stage'[c] = "returned",
         c \in sent' \/ stage'[c] = "registered" =>
           fate'[c] \notin {"new", "refused", "sendfailed"}
  PROVE  SentOK'
  BY DEF SentOK

LEMMA NextSent ==
  ASSUME TypeOK, SentOK, [Next]_vars
  PROVE  SentOK'
<1>1. ASSUME NEW t \in Threads, NEW c \in Commands, Submit(t, c) PROVE SentOK'
  <2>1. /\ sent' = sent /\ c \notin sent /\ stage'[c] \in {"numbered", "returned"}
        /\ \A d \in Commands : d # c => stage'[d] = stage[d] /\ fate'[d] = fate[d]
    BY <1>1 DEF Submit, TypeOK, SentOK
  <2>2. QED
    BY <2>1, SenderSent
<1>2. ASSUME NEW t \in Threads, AddCommand(t) PROVE SentOK'
  <2> DEFINE c == Top(t).cmd
  <2>1. c \in Commands
    BY <1>2, TopFacts DEF AddCommand
  <2>2. /\ sent' = sent /\ c \notin sent /\ fate'[c] = "pending"
        /\ \A d \in Commands : d # c =>
             stage'[d] = stage[d] /\ fate'[d] \in {fate[d], "displaced", "removed"}
    BY <1>2, <2>1 DEF AddCommand, TypeOK, SentOK
  <2> HIDE DEF c
  <2>3. QED
    BY <2>1, <2>2, SenderSent
<1>3. ASSUME NEW t \in Threads, SendOk(t) PROVE SentOK'
  <2> DEFINE c == Top(t).cmd
  <2>1. c \in Commands
    BY <1>3, TopFacts DEF SendOk
  <2>2. /\ sent' = sent \cup {c} /\ stage'[c] = "returned"
        /\ fate'[c] \notin {"new", "refused", "sendfailed"}
        /\ \A d \in Commands : d # c => stage'[d] = stage[d] /\ fate'[d] = fate[d]
    BY <1>3, <2>1 DEF SendOk, TypeOK, SentOK
  <2> HIDE DEF c
  <2>3. QED
    BY <2>1, <2>2, SenderSent
<1>4. ASSUME NEW t \in Threads, SendFails(t) PROVE SentOK'
  <2> DEFINE c == Top(t).cmd
  <2>1. c \in Commands
    BY <1>4, TopFacts DEF SendFails
  <2>2. /\ sent' = sent /\ c \notin sent /\ stage'[c] = "failed"
        /\ \A d \in Commands : d # c => stage'[d] = stage[d] /\ fate'[d] = fate[d]
    BY <1>4, <2>1 DEF SendFails, TypeOK, SentOK
  <2> HIDE DEF c
  <2>3. QED
    BY <2>1, <2>2, SenderSent
<1>5. ASSUME NEW t \in Threads, FailSend(t) PROVE SentOK'
  <2> DEFINE c == Top(t).cmd
  <2>1. c \in Commands
    BY <1>5, TopFacts DEF FailSend
  <2>2. /\ sent' = sent /\ c \notin sent /\ stage'[c] = "cleanup"
        /\ \A d \in Commands : d # c =>
             stage'[d] = stage[d] /\ fate'[d] \in {fate[d], "displaced", "removed"}
    BY <1>5, <2>1 DEF FailSend, FateOfRemoved, TypeOK, SentOK
  <2> HIDE DEF c
  <2>3. QED
    BY <2>1, <2>2, SenderSent
<1>6. ASSUME NEW t \in Threads, CleanUp(t) PROVE SentOK'
  <2> DEFINE c == Top(t).cmd
  <2>1. c \in Commands
    BY <1>6, TopFacts DEF CleanUp
  <2>2. /\ sent' = sent /\ c \notin sent /\ stage'[c] = "returned"
        /\ \A d \in Commands : d # c =>
             stage'[d] = stage[d] /\ fate'[d] \in {fate[d], "displaced", "removed"}
    BY <1>6, <2>1 DEF CleanUp, FateOfRemoved, TypeOK, SentOK
  <2> HIDE DEF c
  <2>3. QED
    BY <2>1, <2>2, SenderSent
<1>7. ASSUME NEW t \in IoThreads, NEW a \in Deliverable, TakeAck(t, a) PROVE SentOK'
  BY <1>7, SameSent DEF TakeAck, TypeOK
<1>8. ASSUME NEW t \in IoThreads, Collect(t) PROVE SentOK'
  BY <1>8, SameSent DEF Collect
<1>9. ASSUME NEW t \in Threads, CallTimedOut(t) PROVE SentOK'
  BY <1>9, SameSent DEF CallTimedOut, TypeOK
<1>10. ASSUME NEW t \in Threads, TimerDone(t) \/ CallbackReturns(t) PROVE SentOK'
  BY <1>10, SameSent DEF TimerDone, CallbackReturns
<1>11. CASE Destory
  BY <1>11, SameSent DEF Destory
<1>12. CASE (\E c \in Commands : Elapse(c)) \/ Uninit \/ Reinit \/ UNCHANGED vars
  BY <1>12, SameSent DEF Elapse, Uninit, Reinit, vars
<1>13. QED
  BY <1>1, <1>2, <1>3, <1>4, <1>5, <1>6, <1>7, <1>8, <1>9, <1>10, <1>11, <1>12
     DEF Next, Continue

(***************************************************************************)
(* Whatever threads, commands, failing sends and timers do: a command that *)
(* the device can answer, and that has a number of its own, is in          *)
(* commands_ or was taken from it by its ACK, the timer or the end of the  *)
(* session, because SendCommand registers before it sends.                 *)
(***************************************************************************)
THEOREM AnswersAwaited == Spec => []AnswerIsAwaited
<1>1. ASSUME TypeOK, Core, SentOK PROVE AnswerIsAwaited
  <2> SUFFICES ASSUME NEW c \in sent, Unshared(c), c \notin Pending
               PROVE  fate[c] \in {"collected", "acked", "timedout", "discarded"}
    BY DEF AnswerIsAwaited
  <2>1. c \in Commands /\ fate[c] \in Fates
    BY <1>1 DEF TypeOK
  <2>2. fate[c] \notin {"displaced", "removed", "pending"}
    BY <1>1, <2>1 DEF Core, FateOK
  <2>3. fate[c] \notin {"new", "refused", "sendfailed"}
    BY <1>1, <2>1 DEF SentOK
  <2>4. QED
    BY <2>1, <2>2, <2>3 DEF Fates
<1>2. Init => SentOK
  BY DEF Init, SentOK
<1>3. QED
  BY <1>1, <1>2, InitCore, NextCore, NextSent, TypeCorrect, PTL DEF Spec

-----------------------------------------------------------------------------
\* Where every command is, whether or not its number is shared

\* The history of a command is "pending" just while it is in commands_ and
\* "collected" just while a CommandsHandle holds it.
WhereOK ==
  \A c \in Commands :
    /\ fate[c] = "pending" <=> c \in Pending
    /\ fate[c] = "collected" <=> holder[c] # None

\* A step that moves no command between the table and a local list.
LEMMA SameWhere ==
  ASSUME WhereOK, UNCHANGED <<table, holder, fate>>
  PROVE  WhereOK'
  BY DEF WhereOK, Pending

\* A step that erases the entry of e, and e alone.
LEMMA EraseWhere ==
  ASSUME TypeOK, Core, WhereOK, NEW s \in 1..MaxSeq, NEW v \in Fates,
         v \notin {"pending", "collected"},
         table' = [table EXCEPT ![s] = None], UNCHANGED <<seqOf, holder>>,
         fate' = [d \in Commands |-> IF d # table[s] THEN fate[d] ELSE v]
  PROVE  WhereOK'
<1>1. Pending' = Pending \ {table[s]}
  BY ErasePending DEF Core
<1>2. table[s] \in Commands => holder[table[s]] = None
  BY DEF Core, LeftOK, Pending
<1>3. QED
  BY <1>1, <1>2 DEF WhereOK

LEMMA AddWhere ==
  ASSUME TypeOK, Core, WhereOK, NEW t \in Threads, AddCommand(t)
  PROVE  WhereOK'
<1> DEFINE c == Top(t).cmd
           s == seqOf[c]
           e == table[s]
<1>1. c \in Commands /\ None \notin Commands
  BY TopFacts, ConstantsAssumption DEF AddCommand
<1>2. /\ stage[c] = "numbered" /\ c \notin Pending /\ holder[c] = None
      /\ s \in 1..MaxSeq
  BY <1>1 DEF AddCommand, Core, UntouchedOK, NumberOK, TypeOK
<1>3. /\ table' = [table EXCEPT ![s] = c]
      /\ fate' = [d \in Commands |-> IF d = c THEN "pending"
                                     ELSE IF d = e THEN "displaced" ELSE fate[d]]
      /\ holder' = holder
  BY DEF AddCommand
<1>4. \A n \in 1..MaxSeq : table[n] = e /\ e # None => n = s
  BY <1>2 DEF Core, KeyOK
<1>5. e # c /\ (e \in Commands => e \in Pending /\ holder[e] = None)
  BY <1>1, <1>2 DEF Core, LeftOK, Pending
<1> HIDE DEF c, s, e
<1>6. \A n \in 1..MaxSeq : table'[n] = IF n = s THEN c ELSE table[n]
  BY <1>2, <1>3 DEF TypeOK
<1>7. Pending' = (Pending \ {e}) \cup {c}
  <2>1. table[s] = e
    BY DEF e
  <2>2. QED
    BY <2>1, <1>1, <1>2, <1>4, <1>6 DEF Pending
<1>8. QED
  BY <1>1, <1>2, <1>3, <1>5, <1>7 DEF WhereOK

LEMMA NextWhere == TypeOK /\ Core /\ WhereOK /\ [Next]_vars => WhereOK'
<1> SUFFICES ASSUME TypeOK, Core, WhereOK, [Next]_vars PROVE WhereOK'
  OBVIOUS
<1>0. None \notin Commands /\ None \notin Threads
  BY ConstantsAssumption
<1>1. ASSUME NEW t \in Threads, NEW c \in Commands, Submit(t, c) PROVE WhereOK'
  <2>1. c \notin Pending /\ holder[c] = None /\ fate[c] = "new"
    BY <1>1 DEF Submit, Core, UntouchedOK
  <2>2. fate'[c] \in {"new", "refused"} /\ \A d \in Commands : d # c => fate'[d] = fate[d]
    BY <1>1, <2>1 DEF Submit, TypeOK
  <2>3. Pending' = Pending /\ holder' = holder
    BY <1>1 DEF Submit, Pending
  <2>4. QED
    BY <2>1, <2>2, <2>3 DEF WhereOK
<1>2. ASSUME NEW t \in Threads, FailSend(t) PROVE WhereOK'
  <2> DEFINE c == Top(t).cmd
             e == table[seqOf[c]]
  <2>1. c \in Commands /\ seqOf[c] \in 1..MaxSeq
    BY <1>2, SenderFacts DEF FailSend
  <2>2. /\ table' = [table EXCEPT ![seqOf[c]] = None]
        /\ UNCHANGED <<seqOf, holder>>
        /\ fate' = [d \in Commands |-> IF d # e THEN fate[d]
                                       ELSE IF e = c THEN "sendfailed" ELSE "removed"]
    BY <1>2 DEF FailSend, Erase, FateOfRemoved, Removed
  <2>3. CASE e = c
    BY <2>1, <2>2, <2>3, EraseWhere DEF Fates
  <2>4. CASE e # c
    BY <2>1, <2>2, <2>4, EraseWhere DEF Fates
  <2>5. QED
    BY <2>3, <2>4
<1>3. ASSUME NEW t \in Threads, CleanUp(t) PROVE WhereOK'
  <2> DEFINE c == Top(t).cmd
             e == table[seqOf[c]]
  <2>1. c \in Commands /\ seqOf[c] \in 1..MaxSeq /\ stage[c] = "cleanup"
    BY <1>3, SenderFacts DEF CleanUp
  <2>2. e # c
    BY <2>1 DEF Core, LeftOK, Pending
  <2>3. CASE UNCHANGED <<table, fate>>
    BY <1>3, <2>3, SameWhere DEF CleanUp
  <2>4. CASE Erase(c) /\ fate' = FateOfRemoved(c, "removed")
    <3>1. /\ table' = [table EXCEPT ![seqOf[c]] = None]
          /\ UNCHANGED <<seqOf, holder>>
          /\ fate' = [d \in Commands |-> IF d # e THEN fate[d] ELSE "removed"]
      BY <1>3, <2>4 DEF CleanUp, Erase, FateOfRemoved, Removed
    <3>2. QED
      BY <2>1, <3>1, EraseWhere DEF Fates
  <2>5. QED
    BY <1>3, <2>3, <2>4 DEF CleanUp
<1>4. ASSUME NEW t \in IoThreads, NEW a, TakeAck(t, a) PROVE WhereOK'
  <2>1. a.seq \in 1..MaxSeq /\ table[a.seq] \in Commands
    BY <1>4 DEF TakeAck, TypeOK
  <2>2. /\ table' = [table EXCEPT ![a.seq] = None]
        /\ UNCHANGED <<seqOf, holder>>
        /\ fate' = [fate EXCEPT ![table[a.seq]] = "acked"]
    BY <1>4 DEF TakeAck
  <2>3. fate' = [d \in Commands |-> IF d # table[a.seq] THEN fate[d] ELSE "acked"]
    BY <2>1, <2>2 DEF TypeOK
  <2>4. QED
    BY <2>1, <2>2, <2>3, EraseWhere DEF Fates
<1>5. ASSUME NEW t \in IoThreads, Collect(t) PROVE WhereOK'
  <2> DEFINE X == Pending \cap due
  <2>1. /\ table' = [s \in 1..MaxSeq |-> IF table[s] \in X THEN None ELSE table[s]]
        /\ fate' = [c \in Commands |-> IF c \in X THEN "collected" ELSE fate[c]]
        /\ holder' = [c \in Commands |-> IF c \in X THEN t ELSE holder[c]]
    BY <1>5 DEF Collect
  <2>2. X \subseteq Pending
    OBVIOUS
  <2> HIDE DEF X
  <2>3. Pending' = Pending \ X
    BY <1>0, <2>1 DEF Pending
  <2>4. t # None
    BY <1>0 DEF Threads
  <2>5. QED
    BY <2>1, <2>2, <2>3, <2>4 DEF WhereOK
<1>6. ASSUME NEW t \in Threads, CallTimedOut(t) PROVE WhereOK'
  <2> PICK c \in Commands : /\ holder[c] = t
                            /\ holder' = [holder EXCEPT ![c] = None]
                            /\ fate' = [fate EXCEPT ![c] = "timedout"]
    BY <1>6 DEF CallTimedOut
  <2>1. Pending' = Pending
    BY <1>6 DEF CallTimedOut, Pending
  <2>2. c \notin Pending
    BY <1>0 DEF Core, LeftOK
  <2>3. /\ holder'[c] = None /\ fate'[c] = "timedout"
        /\ \A d \in Commands : d # c => holder'[d] = holder[d] /\ fate'[d] = fate[d]
    BY DEF TypeOK
  <2>4. QED
    BY <2>1, <2>2, <2>3 DEF WhereOK
<1>7. CASE Destory
  <2>1. Pending' = {}
    BY <1>0, <1>7 DEF Destory, Pending
  <2>2. /\ fate' = [c \in Commands |-> IF c \in Pending THEN "discarded" ELSE fate[c]]
        /\ holder' = holder
    BY <1>7 DEF Destory
  <2>3. \A c \in Commands : c \in Pending => holder[c] = None
    BY DEF Core, LeftOK
  <2>4. QED
    BY <2>1, <2>2, <2>3 DEF WhereOK
<1>8. ASSUME NEW t \in Threads,
             SendOk(t) \/ SendFails(t) \/ TimerDone(t) \/ CallbackReturns(t)
      PROVE  WhereOK'
  BY <1>8, SameWhere DEF SendOk, SendFails, TimerDone, CallbackReturns
<1>9. CASE (\E c \in Commands : Elapse(c)) \/ Uninit \/ Reinit \/ UNCHANGED vars
  BY <1>9, SameWhere DEF Elapse, Uninit, Reinit, vars
<1>10. QED
  BY <1>1, <1>2, <1>3, <1>4, <1>5, <1>6, <1>7, <1>8, <1>9, AddWhere DEF Next, Continue

LEMMA InitWhere == Init => WhereOK
<1> SUFFICES ASSUME Init PROVE WhereOK
  OBVIOUS
<1>1. Pending = {}
  BY ConstantsAssumption DEF Init, Pending
<1>2. QED
  BY <1>1 DEF Init, WhereOK

-----------------------------------------------------------------------------
\* The table implements the completion protocol

\* A command whose number is filed in commands_, or that its SendCommand will
\* still file or erase under it.
InUse(c) ==
  c \in Pending \/ stage[c] \in {"numbered", "registered", "failed", "cleanup"}

\* No number is given out again while a command that has it is in use.
Separate ==
  \A c, d \in Commands : c # d /\ InUse(c) /\ InUse(d) => seqOf[c] # seqOf[d]

IInv == TypeOK /\ Core /\ TimerOK /\ WhereOK

LEMMA StatusValues ==
  /\ StatusOf("new") = "idle" /\ StatusOf("refused") = "idle"
  /\ StatusOf("pending") = "registered"
  /\ StatusOf("collected") = "claimed"
  /\ StatusOf("acked") = "completed" /\ StatusOf("timedout") = "completed"
  /\ StatusOf("sendfailed") = "completed"
  /\ StatusOf("displaced") = "discarded" /\ StatusOf("removed") = "discarded"
  /\ StatusOf("discarded") = "discarded"
  BY DEF StatusOf

LEMMA StatusInverse ==
  ASSUME NEW f \in Fates
  PROVE  /\ StatusOf(f) = "registered" <=> f = "pending"
         /\ StatusOf(f) = "claimed" <=> f = "collected"
  BY StatusValues DEF Fates

\* A step that changes the status of no command.
LEMMA Unnoticed ==
  ASSUME \A d \in Commands : StatusOf(fate'[d]) = StatusOf(fate[d]), calls' = calls
  PROVE  [Completion!Next]_Completion!vars
  BY DEF Completion!vars, AbstractStatus

\* A step that calls one command back.
LEMMA CompletesOne ==
  ASSUME TypeOK, NEW c \in Commands, fate[c] \in {"pending", "collected"},
         NEW v \in {"acked", "timedout", "sendfailed"},
         fate' = [fate EXCEPT ![c] = v], calls' = [calls EXCEPT ![c] = @ + 1]
  PROVE  [Completion!Next]_Completion!vars
<1>1. \A d \in Commands : fate'[d] = IF d = c THEN v ELSE fate[d]
  BY DEF TypeOK
<1>2. StatusOf(v) = "completed" /\ StatusOf(fate[c]) \in {"registered", "claimed"}
  BY StatusValues
<1>3. AbstractStatus[c] \in {"registered", "claimed"}
  BY <1>2 DEF AbstractStatus
<1>4. AbstractStatus' = [AbstractStatus EXCEPT ![c] = "completed"]
  <2>1. \A d \in Commands :
          StatusOf(fate'[d]) = IF d = c THEN "completed" ELSE StatusOf(fate[d])
    BY <1>1, <1>2
  <2>2. AbstractStatus' = [d \in Commands |->
                             IF d = c THEN "completed" ELSE AbstractStatus[d]]
    BY <2>1, Zenon DEF AbstractStatus
  <2>3. QED
    BY <2>2, Zenon DEF AbstractStatus
<1>5. Completion!Complete(c)
  BY <1>3, <1>4 DEF Completion!Complete
<1>6. QED
  BY <1>5 DEF Completion!Next

LEMMA AddRegisters ==
  ASSUME IInv, Separate, NEW t \in Threads, AddCommand(t)
  PROVE  [Completion!Next]_Completion!vars
<1> USE DEF IInv
<1> DEFINE c == Top(t).cmd
           s == seqOf[c]
<1>1. c \in Commands /\ None \notin Commands
  BY TopFacts, ConstantsAssumption DEF AddCommand
<1>2. /\ stage[c] = "numbered" /\ c \notin Pending /\ fate[c] = "new"
      /\ s \in 1..MaxSeq
  BY <1>1 DEF AddCommand, Core, UntouchedOK, NumberOK, TypeOK
<1>3. /\ fate' = [d \in Commands |-> IF d = c THEN "pending"
                                     ELSE IF d = table[s] THEN "displaced" ELSE fate[d]]
      /\ calls' = calls
  BY DEF AddCommand
<1>4. table[s] = None
  <2> SUFFICES ASSUME table[s] # None PROVE FALSE
    OBVIOUS
  <2>1. table[s] \in Commands /\ table[s] \in Pending /\ seqOf[table[s]] = s
    BY <1>2 DEF TypeOK, Pending, Core, KeyOK
  <2>2. table[s] # c /\ InUse(c) /\ InUse(table[s])
    BY <1>2, <2>1 DEF InUse
  <2>3. QED
    BY <1>1, <2>1, <2>2 DEF Separate
<1> HIDE DEF c, s
<1>5. \A d \in Commands : fate'[d] = IF d = c THEN "pending" ELSE fate[d]
  BY <1>1, <1>3, <1>4
<1>6. AbstractStatus[c] = "idle"
  BY <1>1, <1>2, StatusValues DEF AbstractStatus
<1>7. AbstractStatus' = [AbstractStatus EXCEPT ![c] = "registered"]
  BY <1>1, <1>5, StatusValues DEF AbstractStatus
<1>8. Completion!Register(c)
  BY <1>3, <1>6, <1>7 DEF Completion!Register
<1>9. QED
  BY <1>1, <1>8 DEF Completion!Next

LEMMA FailCompletes ==
  ASSUME IInv, Separate, NEW t \in Threads, FailSend(t)
  PROVE  [Completion!Next]_Completion!vars
<1> USE DEF IInv
<1> DEFINE c == Top(t).cmd
           e == table[seqOf[c]]
<1>1. c \in Commands /\ seqOf[c] \in 1..MaxSeq /\ stage[c] = "failed"
  BY SenderFacts DEF FailSend
<1>2. /\ fate' = [d \in Commands |-> IF d # e THEN fate[d]
                                     ELSE IF d = c THEN "sendfailed" ELSE "removed"]
      /\ IF e # None THEN calls' = [calls EXCEPT ![c] = @ + 1] ELSE calls' = calls
  BY DEF FailSend, FateOfRemoved, Removed
<1>3. e \in Commands \cup {None} /\ None \notin Commands
  BY <1>1, ConstantsAssumption DEF TypeOK
<1>4. CASE e = None
  <2>1. \A d \in Commands : fate'[d] = fate[d]
    BY <1>2, <1>3, <1>4
  <2>2. QED
    BY <2>1, <1>2, <1>4, Unnoticed
<1>5. CASE e # None
  <2>1. e \in Commands /\ e \in Pending /\ seqOf[e] = seqOf[c]
    BY <1>1, <1>3, <1>5 DEF Pending, Core, KeyOK
  <2>2. e = c
    BY <1>1, <2>1 DEF Separate, InUse
  <2>3. fate[c] = "pending"
    BY <2>1, <2>2 DEF WhereOK
  <2>4. fate' = [fate EXCEPT ![c] = "sendfailed"]
    BY <1>1, <1>2, <2>2 DEF TypeOK
  <2>5. QED
    BY <1>1, <1>2, <1>5, <2>3, <2>4, CompletesOne
<1>6. QED
  BY <1>4, <1>5

LEMMA CleanUpUnnoticed ==
  ASSUME IInv, Separate, NEW t \in Threads, CleanUp(t)
  PROVE  [Completion!Next]_Completion!vars
<1> USE DEF IInv
<1> DEFINE c == Top(t).cmd
           e == table[seqOf[c]]
<1>1. c \in Commands /\ seqOf[c] \in 1..MaxSeq /\ stage[c] = "cleanup"
  BY SenderFacts DEF CleanUp
<1>2. /\ calls' = calls
      /\ fate' = fate \/ fate' = [d \in Commands |-> IF d # e THEN fate[d] ELSE "removed"]
  BY DEF CleanUp, FateOfRemoved, Removed
<1>3. e \in Commands \cup {None} /\ None \notin Commands /\ c \notin Pending
  BY <1>1, ConstantsAssumption DEF TypeOK, Core, LeftOK
<1>4. e = None
  <2> SUFFICES ASSUME e # None PROVE FALSE
    OBVIOUS
  <2>1. e \in Commands /\ e \in Pending /\ seqOf[e] = seqOf[c]
    BY <1>1, <1>3 DEF Pending, Core, KeyOK
  <2>2. e = c
    BY <1>1, <2>1 DEF Separate, InUse
  <2>3. QED
    BY <1>3, <2>1, <2>2
<1>5. \A d \in Commands : fate'[d] = fate[d]
  BY <1>2, <1>3, <1>4
<1>6. QED
  BY <1>2, <1>5, Unnoticed

LEMMA CollectClaims ==
  ASSUME IInv, NEW t \in IoThreads, Collect(t)
  PROVE  [Completion!Next]_Completion!vars
<1> USE DEF IInv
<1> DEFINE X == Pending \cap due
<1>1. /\ fate' = [c \in Commands |-> IF c \in X THEN "collected" ELSE fate[c]]
      /\ calls' = calls
  BY DEF Collect
<1>2. X \subseteq Commands /\ \A c \in X : fate[c] = "pending"
  BY DEF Pending, WhereOK
<1> HIDE DEF X
<1>3. \A c \in X : AbstractStatus[c] = "registered"
  BY <1>2, StatusValues DEF AbstractStatus
<1>4. AbstractStatus' = [c \in Commands |-> IF c \in X THEN "claimed" ELSE AbstractStatus[c]]
  BY <1>1, StatusValues DEF AbstractStatus
<1>5. Completion!Claim(X)
  BY <1>1, <1>3, <1>4 DEF Completion!Claim
<1>6. QED
  BY <1>2, <1>5 DEF Completion!Next

LEMMA DestoryEnds ==
  ASSUME IInv, Destory
  PROVE  [Completion!Next]_Completion!vars
<1> USE DEF IInv
<1>1. \A c \in Commands : fate[c] # "collected"
  BY DEF Destory, WhereOK, TimerOK, TypeOK
<1>2. \A c \in Commands : AbstractStatus[c] # "claimed"
  BY <1>1, StatusInverse DEF AbstractStatus, TypeOK
<1>3. fate' = [c \in Commands |-> IF fate[c] = "pending" THEN "discarded" ELSE fate[c]]
  BY DEF Destory, WhereOK
<1>4. \A c \in Commands : AbstractStatus[c] = "registered" <=> fate[c] = "pending"
  BY StatusInverse DEF AbstractStatus, TypeOK
<1>5. AbstractStatus' = [c \in Commands |->
         IF AbstractStatus[c] = "registered" THEN "discarded" ELSE AbstractStatus[c]]
  <2>1. \A c \in Commands : StatusOf(fate'[c]) =
          IF AbstractStatus[c] = "registered" THEN "discarded" ELSE StatusOf(fate[c])
    BY <1>3, <1>4, StatusValues
  <2>2. QED
    BY <2>1 DEF AbstractStatus
<1>6. Completion!EndSession
  BY <1>2, <1>5 DEF Completion!EndSession, Destory
<1>7. QED
  BY <1>6 DEF Completion!Next

LEMMA StepImplements ==
  IInv /\ Separate /\ [Next]_vars => [Completion!Next]_Completion!vars
<1> SUFFICES ASSUME IInv, Separate, [Next]_vars
             PROVE  [Completion!Next]_Completion!vars
  OBVIOUS
<1> USE DEF IInv
<1>1. ASSUME NEW t \in Threads, NEW c \in Commands, Submit(t, c)
      PROVE  [Completion!Next]_Completion!vars
  <2>1. fate[c] = "new" /\ calls' = calls
    BY <1>1 DEF Submit, Core, UntouchedOK
  <2>2. fate'[c] \in {"new", "refused"} /\ \A d \in Commands : d # c => fate'[d] = fate[d]
    BY <1>1, <2>1 DEF Submit, TypeOK
  <2>3. \A d \in Commands : StatusOf(fate'[d]) = StatusOf(fate[d])
    BY <2>1, <2>2, StatusValues
  <2>4. QED
    BY <2>1, <2>3, Unnoticed
<1>2. ASSUME NEW t \in IoThreads, NEW a, TakeAck(t, a)
      PROVE  [Completion!Next]_Completion!vars
  <2> DEFINE c == table[a.seq]
  <2>1. c \in Commands /\ c \in Pending
    BY <1>2 DEF TakeAck, TypeOK, Pending
  <2>2. fate[c] = "pending"
    BY <2>1 DEF WhereOK
  <2>3. fate' = [fate EXCEPT ![c] = "acked"] /\ calls' = [calls EXCEPT ![c] = @ + 1]
    BY <1>2 DEF TakeAck
  <2>4. QED
    BY <2>1, <2>2, <2>3, CompletesOne
<1>3. ASSUME NEW t \in Threads, CallTimedOut(t)
      PROVE  [Completion!Next]_Completion!vars
  <2> PICK c \in Commands : /\ holder[c] = t
                            /\ fate' = [fate EXCEPT ![c] = "timedout"]
                            /\ calls' = [calls EXCEPT ![c] = @ + 1]
    BY <1>3 DEF CallTimedOut
  <2>1. fate[c] = "collected"
    BY ConstantsAssumption DEF WhereOK
  <2>2. QED
    BY <2>1, CompletesOne
<1>4. ASSUME UNCHANGED <<fate, calls>> PROVE [Completion!Next]_Completion!vars
  BY <1>4, Unnoticed
<1>5. ASSUME NEW t \in Threads,
             SendOk(t) \/ SendFails(t) \/ TimerDone(t) \/ CallbackReturns(t)
      PROVE  [Completion!Next]_Completion!vars
  BY <1>4, <1>5 DEF SendOk, SendFails, TimerDone, CallbackReturns
<1>6. CASE (\E c \in Commands : Elapse(c)) \/ Uninit \/ Reinit \/ UNCHANGED vars
  BY <1>4, <1>6 DEF Elapse, Uninit, Reinit, vars
<1>7. QED
  BY <1>1, <1>2, <1>3, <1>5, <1>6, AddRegisters, FailCompletes, CleanUpUnnoticed,
     CollectClaims, DestoryEnds DEF Next, Continue

LEMMA InitImplements == Init => Completion!Init
  BY StatusValues DEF Init, Completion!Init, AbstractStatus

LEMMA IInvHolds == Spec => []IInv
<1>1. Init => IInv
  BY InitType, InitCore, InitWhere DEF IInv, Init, TimerOK
<1>2. IInv /\ [Next]_vars => IInv'
  BY NextType, NextCore, NextTimer, NextWhere DEF IInv
<1>3. QED
  BY <1>1, <1>2, PTL DEF Spec

(***************************************************************************)
(* Every behaviour in which no number is reused while it is in use is one  *)
(* of the abstract protocol, whatever the number of threads and commands   *)
(* and however long the process numbers its commands: an ACK, a timeout    *)
(* and a failed send race for the entry of a command, one of them claims   *)
(* it and calls back, and only the end of a session discards it.           *)
(***************************************************************************)
THEOREM Implements == Spec /\ []Separate => CompletionSpec
  BY InitImplements, StepImplements, IInvHolds, PTL DEF Spec, CompletionSpec, Completion!Spec

-----------------------------------------------------------------------------
\* As long as the process has not submitted more commands than there are
\* numbers, no number is given out twice.

FewCommands == IsFiniteSet(Commands) /\ Cardinality(Commands) <= MaxSeq

Numbered == {c \in Commands : seqOf[c] # 0}

\* A number belongs to one command.
Distinct ==
  \A c, d \in Commands : c # d /\ seqOf[c] # 0 => seqOf[c] # seqOf[d]

\* Up to the wrap the counter says how many numbers were given out, and they
\* are the ones that it has passed.
CounterOK ==
  Cardinality(Numbered) < MaxSeq =>
    /\ seq = Cardinality(Numbered) + 1
    /\ \A c \in Numbered : seqOf[c] \in 2..seq

LEMMA NumberedFinite ==
  ASSUME FewCommands
  PROVE  IsFiniteSet(Numbered) /\ Cardinality(Numbered) \in Nat
<1>1. Numbered \subseteq Commands
  BY DEF Numbered
<1>2. QED
  BY <1>1, FS_Subset, FS_CardinalityType DEF FewCommands

LEMMA SubmitCounter ==
  ASSUME FewCommands, TypeOK, Core, Distinct, CounterOK,
         NEW t \in Threads, NEW c \in Commands, Submit(t, c)
  PROVE  Distinct' /\ CounterOK'
<1> DEFINE k == Cardinality(Numbered)
<1>1. /\ seqOf[c] = 0 /\ seq' = NextSeq(seq)
      /\ seqOf'[c] = NextSeq(seq)
      /\ \A d \in Commands : d # c => seqOf'[d] = seqOf[d]
  BY DEF Submit, Core, NumberOK, TypeOK
<1>2. seq \in 1..MaxSeq /\ MaxSeq \in Nat /\ MaxSeq > 1
  BY ConstantsAssumption DEF TypeOK
<1>3. c \notin Numbered /\ Numbered \cup {c} \subseteq Commands
  BY <1>1 DEF Numbered
<1>4. IsFiniteSet(Numbered) /\ k \in Nat
  BY NumberedFinite
<1>5. Cardinality(Numbered \cup {c}) = k + 1
  BY <1>3, <1>4, FS_AddElement
<1>6. k + 1 <= MaxSeq
  <2>1. Cardinality(Numbered \cup {c}) <= Cardinality(Commands)
    BY <1>3, FS_Subset DEF FewCommands
  <2>2. Cardinality(Commands) \in Nat
    BY FS_CardinalityType DEF FewCommands
  <2>3. QED
    BY <1>2, <1>4, <1>5, <2>1, <2>2 DEF FewCommands
<1>7. seq = k + 1 /\ \A d \in Numbered : seqOf[d] \in 2..seq
  BY <1>2, <1>4, <1>6 DEF CounterOK
<1>8. NextSeq(seq) # 0 /\ \A d \in Numbered : seqOf[d] # NextSeq(seq)
  BY <1>2, <1>7 DEF NextSeq
<1>9. Numbered' = Numbered \cup {c}
  BY <1>1, <1>8 DEF Numbered
<1>10. Distinct'
  <2> SUFFICES ASSUME NEW d \in Commands, NEW e \in Commands, d # e, seqOf'[d] # 0
               PROVE  seqOf'[d] # seqOf'[e]
    BY DEF Distinct
  <2>1. CASE d = c
    BY <2>1, <1>1, <1>8 DEF Numbered
  <2>2. CASE e = c
    BY <2>2, <1>1, <1>8 DEF Numbered
  <2>3. CASE d # c /\ e # c
    BY <2>3, <1>1 DEF Distinct
  <2>4. QED
    BY <2>1, <2>2, <2>3
<1>11. CounterOK'
  <2> SUFFICES ASSUME k + 1 < MaxSeq
               PROVE  /\ seq' = k + 1 + 1
                      /\ \A d \in Numbered' : seqOf'[d] \in 2..seq'
    BY <1>5, <1>9 DEF CounterOK
  <2>1. seq' = seq + 1
    BY <1>1, <1>2, <1>4, <1>7 DEF NextSeq
  <2>2. \A d \in Numbered' : seqOf'[d] = seq' \/ seqOf'[d] \in 2..seq
    BY <1>1, <1>7, <1>9, <1>3
  <2>3. QED
    BY <1>2, <1>4, <1>7, <2>1, <2>2
<1>12. QED
  BY <1>10, <1>11

LEMMA NextDistinct ==
  FewCommands /\ TypeOK /\ Core /\ Distinct /\ CounterOK /\ [Next]_vars
    => Distinct' /\ CounterOK'
<1> SUFFICES ASSUME FewCommands, TypeOK, Core, Distinct, CounterOK, [Next]_vars
             PROVE  Distinct' /\ CounterOK'
  OBVIOUS
<1>1. ASSUME UNCHANGED <<seq, seqOf>> PROVE Distinct' /\ CounterOK'
  BY <1>1 DEF Distinct, CounterOK, Numbered
<1>2. ASSUME NEW t \in Threads, Continue(t) PROVE UNCHANGED <<seq, seqOf>>
  BY <1>2 DEF Continue, AddCommand, SendOk, SendFails, FailSend, CleanUp, CallTimedOut,
     TimerDone, CallbackReturns
<1>3. ASSUME NEW t, NEW a, TakeAck(t, a) \/ Collect(t) \/ Elapse(a)
      PROVE  UNCHANGED <<seq, seqOf>>
  BY <1>3 DEF TakeAck, Collect, Elapse
<1>4. CASE Uninit \/ Destory \/ Reinit \/ UNCHANGED vars
  BY <1>1, <1>4 DEF Uninit, Destory, Reinit, vars
<1>5. QED
  BY <1>1, <1>2, <1>3, <1>4, SubmitCounter DEF Next

LEMMA InitDistinct == Init => Distinct /\ CounterOK
<1> SUFFICES ASSUME Init PROVE Distinct /\ CounterOK
  OBVIOUS
<1>1. Numbered = {}
  BY DEF Init, Numbered
<1>2. QED
  BY <1>1, FS_EmptySet DEF Init, Distinct, CounterOK

LEMMA NumbersDistinct == ASSUME FewCommands PROVE Spec => []Distinct
<1>1. TypeOK /\ Core /\ Distinct /\ CounterOK /\ [Next]_vars => Distinct' /\ CounterOK'
  BY NextDistinct
<1>2. QED
  BY <1>1, InitDistinct, IInvHolds, PTL DEF Spec, IInv

\* Every command in use has a number.
LEMMA DistinctSeparate == IInv /\ Distinct => Separate
<1> SUFFICES ASSUME IInv, Distinct, NEW c \in Commands, NEW d \in Commands,
                    c # d, InUse(c)
             PROVE  seqOf[c] # seqOf[d]
  BY DEF Separate
<1>1. seqOf[c] # 0
  <2>1. CASE c \in Pending
    BY <2>1, PendingKey DEF IInv, Core
  <2>2. CASE stage[c] # "fresh"
    BY <2>2 DEF IInv, Core, NumberOK
  <2>3. QED
    BY <2>1, <2>2 DEF InUse
<1>2. QED
  BY <1>1 DEF Distinct

(***************************************************************************)
(* A process that submits no more commands than there are numbers keeps    *)
(* the completion protocol unconditionally, over any number of sessions.   *)
(***************************************************************************)
THEOREM ImplementsBeforeWrap == ASSUME FewCommands PROVE Spec => CompletionSpec
<1>1. Spec => []Distinct
  BY NumbersDistinct
<1>2. QED
  BY <1>1, DistinctSeparate, IInvHolds, Implements, PTL

-----------------------------------------------------------------------------
\* Acknowledged commands

\* A stray ACK answers another device or another kind of command.
ForeignStrays == \A a \in StrayAcks, c \in Commands : ~Matches(a, c)

LEMMA NextAcked ==
  ASSUME ForeignStrays, TypeOK, Core, Distinct, AckedWasSent, [Next]_vars
  PROVE  AckedWasSent'
<1>1. ASSUME NEW t \in IoThreads, NEW a \in Deliverable, TakeAck(t, a)
      PROVE  AckedWasSent'
  <2> DEFINE c == table[a.seq]
  <2>1. /\ a.seq \in 1..MaxSeq /\ c \in Commands /\ Matches(a, c)
        /\ fate' = [fate EXCEPT ![c] = "acked"] /\ sent' = sent
    BY <1>1 DEF TakeAck, TypeOK
  <2>2. seqOf[c] = a.seq
    BY <2>1, ConstantsAssumption DEF Core, KeyOK
  <2>3. a \notin StrayAcks
    BY <2>1 DEF ForeignStrays
  <2>4. PICK d \in sent, b \in BOOLEAN : a = ReplyTo(d, b)
    BY <2>3 DEF Deliverable
  <2>5. d \in Commands /\ seqOf[d] = a.seq
    BY <2>4 DEF TypeOK, ReplyTo
  <2>6. d = c
    <3>1. a.seq # 0
      BY <2>1
    <3>2. QED
      BY <2>1, <2>2, <2>5, <3>1 DEF Distinct
  <2> HIDE DEF c
  <2>7. c \in sent /\ \A e \in Commands : e # c => fate'[e] = fate[e]
    BY <2>1, <2>6 DEF TypeOK
  <2>8. QED
    BY <2>1, <2>7 DEF AckedWasSent
<1>2. ASSUME sent \subseteq sent',
             \A c \in Commands : fate'[c] = "acked" => fate[c] = "acked"
      PROVE  AckedWasSent'
  BY <1>2 DEF AckedWasSent
<1>3. ASSUME NEW t \in Threads, NEW c \in Commands, Submit(t, c) PROVE AckedWasSent'
  BY <1>2, <1>3 DEF Submit, TypeOK
<1>4. ASSUME NEW t \in Threads, AddCommand(t) PROVE AckedWasSent'
  BY <1>2, <1>4 DEF AddCommand
<1>5. ASSUME NEW t \in Threads, SendOk(t) PROVE AckedWasSent'
  BY <1>2, <1>5 DEF SendOk
<1>6. ASSUME NEW t \in Threads, FailSend(t) \/ CleanUp(t) PROVE AckedWasSent'
  BY <1>2, <1>6 DEF FailSend, CleanUp, FateOfRemoved
<1>7. ASSUME NEW t \in Threads, CallTimedOut(t) PROVE AckedWasSent'
  BY <1>2, <1>7 DEF CallTimedOut, TypeOK
<1>8. ASSUME NEW t \in IoThreads, Collect(t) PROVE AckedWasSent'
  BY <1>2, <1>8 DEF Collect
<1>9. CASE Destory
  BY <1>2, <1>9 DEF Destory
<1>10. ASSUME NEW t \in Threads,
              SendFails(t) \/ TimerDone(t) \/ CallbackReturns(t)
       PROVE  AckedWasSent'
  BY <1>2, <1>10 DEF SendFails, TimerDone, CallbackReturns
<1>11. CASE (\E c \in Commands : Elapse(c)) \/ Uninit \/ Reinit \/ UNCHANGED vars
  BY <1>2, <1>11 DEF Elapse, Uninit, Reinit, vars
<1>12. QED
  BY <1>1, <1>3, <1>4, <1>5, <1>6, <1>7, <1>8, <1>9, <1>10, <1>11 DEF Next, Continue

(***************************************************************************)
(* Whatever the network does with the ACKs, and for any number of threads: *)
(* in a process that has not used up its numbers, and that receives no     *)
(* answer of another process that would pass the validation, an ACK        *)
(* completes only a command that reached the network.                      *)
(***************************************************************************)
THEOREM AckedSent == ASSUME FewCommands, ForeignStrays PROVE Spec => []AckedWasSent
<1>1. Init => AckedWasSent
  BY DEF Init, AckedWasSent
<1>2. TypeOK /\ Core /\ Distinct /\ AckedWasSent /\ [Next]_vars => AckedWasSent'
  BY NextAcked
<1>3. Spec => []Distinct
  BY NumbersDistinct
<1>4. QED
  BY <1>1, <1>2, <1>3, IInvHolds, PTL DEF Spec, IInv

-----------------------------------------------------------------------------
(***************************************************************************)
(* The callback gate.  The invariant ties the counter to the operations it *)
(* counts: without that, a control thread that finds the count zero could  *)
(* not conclude that nothing is running.                                   *)
(***************************************************************************)

\* active_callback_operations_ counts exactly the operations in progress.
CountOK == IsFiniteSet(ops) /\ active = Cardinality(ops)

\* The gate is closed from StartClear to Enable, and then nothing is registered.
GateOK ==
  /\ stopped <=> clearer # "up"
  /\ stopped => \A slot \in Slots : reg[slot] = 0
  /\ clearer = "cleared" => active = 0

\* A notification runs inside its own operation and holds at most one copy.
NoticeOK ==
  \A t \in LoopThreads :
    /\ notified[t].at # "none" => <<t, "notify">> \in ops
    /\ notified[t].at # "calling" => captured[t] = 0
    /\ captured[t] \in {0, session}

RegOK == \A slot \in Slots : reg[slot] \in {0, session}

GateIInv == GateTypeOK /\ CountOK /\ GateOK /\ NoticeOK /\ RegOK

-----------------------------------------------------------------------------
\* Counting

LEMMA BeginCounts ==
  ASSUME NEW t, NEW level, CountOK, BeginCallbackOperation(t, level)
  PROVE  CountOK'
  BY FS_AddElement DEF CountOK, BeginCallbackOperation

LEMMA EndCounts ==
  ASSUME NEW t, NEW level, CountOK, EndCallbackOperation(t, level)
  PROVE  CountOK' /\ active' \in Nat
<1>1. IsFiniteSet(ops') /\ Cardinality(ops') = Cardinality(ops) - 1
  BY FS_RemoveElement DEF CountOK, EndCallbackOperation
<1>2. active' = Cardinality(ops')
  BY <1>1 DEF CountOK, EndCallbackOperation
<1>3. QED
  BY <1>1, <1>2, FS_CardinalityType DEF CountOK

LEMMA ZeroIsIdle ==
  ASSUME CountOK, active = 0
  PROVE  ops = {}
  BY FS_EmptySet DEF CountOK

-----------------------------------------------------------------------------
\* The steps

LEMMA InitIInv == GateInit => GateIInv
<1> SUFFICES ASSUME GateInit PROVE GateIInv
  OBVIOUS
<1>1. IsFiniteSet({}) /\ Cardinality({}) = 0
  BY FS_EmptySet
<1>2. 1 \in Sessions
  BY GateAssumption DEF Sessions
<1>3. NoNotice \in [at : {"none", "begun", "calling"}, slot : Slots]
  BY GateAssumption DEF NoNotice
<1>4. GateTypeOK
  BY <1>2, <1>3 DEF GateInit, GateTypeOK
<1>5. QED
  BY <1>1, <1>4 DEF GateInit, GateIInv, CountOK, GateOK, NoticeOK, RegOK, NoNotice

LEMMA NextIInv == GateIInv /\ [GateNext]_gateVars => GateIInv'
<1> SUFFICES ASSUME GateIInv, [GateNext]_gateVars PROVE GateIInv'
  OBVIOUS
<1> USE GateAssumption DEF GateIInv
<1>1. CASE \E t \in LoopThreads : BeginHandler(t)
  <2> PICK t \in LoopThreads : BeginHandler(t)
    BY <1>1
  <2>1. CountOK'
    BY BeginCounts DEF BeginHandler
  <2>2. GateTypeOK'
    BY DEF BeginHandler, BeginCallbackOperation, GateTypeOK, Levels
  <2>3. QED
    BY <2>1, <2>2 DEF BeginHandler, BeginCallbackOperation, GateOK, NoticeOK, RegOK, GateTypeOK
<1>2. CASE \E t \in LoopThreads : EndHandler(t)
  <2> PICK t \in LoopThreads : EndHandler(t)
    BY <1>2
  <2>1. CountOK' /\ active' \in Nat
    BY EndCounts DEF EndHandler
  <2>2. GateTypeOK'
    BY <2>1 DEF EndHandler, EndCallbackOperation, GateTypeOK
  <2>3. clearer # "cleared"
    BY ZeroIsIdle DEF EndHandler, EndCallbackOperation, GateOK
  <2>4. GateOK'
    BY <2>3 DEF EndHandler, EndCallbackOperation, GateOK
  <2>5. NoticeOK' /\ RegOK'
    BY DEF EndHandler, EndCallbackOperation, NoticeOK, RegOK
  <2>6. QED
    BY <2>1, <2>2, <2>4, <2>5
<1>3. CASE \E t \in LoopThreads, slot \in Slots : BeginNotify(t, slot)
  <2> PICK t \in LoopThreads, slot \in Slots : BeginNotify(t, slot)
    BY <1>3
  <2>1. CountOK'
    BY BeginCounts DEF BeginNotify
  <2>2. GateTypeOK'
    BY DEF BeginNotify, BeginCallbackOperation, GateTypeOK, Levels
  <2>3. notified[t].at # "calling"
    BY DEF BeginNotify, BeginCallbackOperation, NoticeOK
  <2>4. NoticeOK'
    BY <2>3 DEF BeginNotify, BeginCallbackOperation, NoticeOK, GateTypeOK
  <2>5. QED
    BY <2>1, <2>2, <2>4 DEF BeginNotify, BeginCallbackOperation, GateOK, RegOK
<1>4. CASE \E t \in LoopThreads : Capture(t)
  <2> PICK t \in LoopThreads : Capture(t)
    BY <1>4
  <2>1. GateTypeOK'
    BY DEF Capture, GateTypeOK
  <2>2. notified[t].slot \in Slots
    BY DEF GateTypeOK
  <2>3. NoticeOK'
    BY <2>2 DEF Capture, NoticeOK, RegOK, GateTypeOK
  <2>4. QED
    BY <2>1, <2>3 DEF Capture, CountOK, GateOK, RegOK
<1>5. CASE \E t \in LoopThreads : EndNotify(t)
  <2> PICK t \in LoopThreads : EndNotify(t)
    BY <1>5
  <2>1. CountOK' /\ active' \in Nat
    BY EndCounts DEF EndNotify
  <2>2. GateTypeOK'
    BY <2>1 DEF EndNotify, EndCallbackOperation, GateTypeOK, NoNotice
  <2>3. clearer # "cleared"
    BY ZeroIsIdle DEF EndNotify, EndCallbackOperation, GateOK
  <2>4. GateOK'
    BY <2>3 DEF EndNotify, EndCallbackOperation, GateOK
  <2>5. NoticeOK'
    BY DEF EndNotify, EndCallbackOperation, NoticeOK, GateTypeOK, NoNotice
  <2>6. QED
    BY <2>1, <2>2, <2>4, <2>5 DEF EndNotify, RegOK
<1>6. CASE \E slot \in Slots : SetCallback(slot)
  BY <1>6 DEF SetCallback, GateTypeOK, CountOK, GateOK, NoticeOK, RegOK
<1>7. CASE RemoveObserver
  BY <1>7 DEF RemoveObserver, GateTypeOK, CountOK, GateOK, NoticeOK, RegOK
<1>8. CASE StartClear
  BY <1>8 DEF StartClear, GateTypeOK, CountOK, GateOK, NoticeOK, RegOK
<1>9. CASE FinishClear
  BY <1>9 DEF FinishClear, GateTypeOK, CountOK, GateOK, NoticeOK, RegOK
<1>10. CASE Enable
  <2>1. ops = {}
    BY <1>10, ZeroIsIdle DEF Enable, GateOK
  <2>2. \A t \in LoopThreads : notified[t].at = "none" /\ captured[t] = 0
    BY <2>1 DEF NoticeOK
  <2>3. \A slot \in Slots : reg[slot] = 0
    BY <1>10 DEF Enable, GateOK
  <2>4. GateTypeOK'
    <3>1. session' \in Sessions
      BY <1>10 DEF Enable, GateTypeOK, Sessions
    <3>2. Sessions' = Sessions
      BY DEF Sessions
    <3>3. QED
      BY <1>10, <3>1, <3>2 DEF Enable, GateTypeOK
  <2>5. QED
    BY <1>10, <2>2, <2>3, <2>4 DEF Enable, CountOK, GateOK, NoticeOK, RegOK
<1>11. CASE UNCHANGED gateVars
  BY <1>11 DEF gateVars, GateTypeOK, CountOK, GateOK, NoticeOK, RegOK
<1>12. QED
  BY <1>1, <1>2, <1>3, <1>4, <1>5, <1>6, <1>7, <1>8, <1>9, <1>10, <1>11
     DEF GateNext, Proceed

LEMMA Invariance == GateSpec => []GateIInv
  BY InitIInv, NextIInv, PTL DEF GateSpec

-----------------------------------------------------------------------------
\* The theorems

(***************************************************************************)
(* The gate's variables keep their types; the count never goes below zero. *)
(***************************************************************************)
THEOREM GateTypeCorrect == GateSpec => []GateTypeOK
<1>1. GateIInv => GateTypeOK
  BY DEF GateIInv
<1>2. QED
  BY <1>1, Invariance, PTL

(***************************************************************************)
(* After ClearCallbackRegistrations no handler and no callback is running. *)
(***************************************************************************)
THEOREM ClearedIsQuiescent == GateSpec => []QuiescentWhenCleared
<1>1. GateIInv => QuiescentWhenCleared
  BY ZeroIsIdle DEF GateIInv, GateOK, NoticeOK, QuiescentWhenCleared, Calling
<1>2. QED
  BY <1>1, Invariance, PTL

(***************************************************************************)
(* No registration outlives the session in which it was made.              *)
(***************************************************************************)
THEOREM RegistrationsScoped == GateSpec => []ScopedToSession
<1>1. GateIInv => ScopedToSession
  BY DEF GateIInv, NoticeOK, RegOK, ScopedToSession, Calling
<1>2. QED
  BY <1>1, Invariance, PTL

(***************************************************************************)
(* Once the gate is closed, no application callback begins.                *)
(***************************************************************************)
THEOREM NoLateCallback == GateSpec => NoCallbackStartsWhenStopped
<1>1. GateIInv /\ GateIInv' /\ [GateNext]_gateVars => [stopped => Calling' \subseteq Calling]_gateVars
  <2> SUFFICES ASSUME GateIInv, [GateNext]_gateVars, stopped PROVE Calling' \subseteq Calling
    BY DEF gateVars
  <2> SUFFICES ASSUME NEW t \in LoopThreads, t \in Calling' PROVE t \in Calling
    BY DEF Calling
  <2>1. \A u \in LoopThreads : notified[u] \in [at : {"none", "begun", "calling"}, slot : Slots]
    BY DEF GateIInv, GateTypeOK
  <2>2. CASE \E u \in LoopThreads : Capture(u)
    <3> PICK u \in LoopThreads : Capture(u)
      BY <2>2
    <3>1. captured'[u] = 0
      BY <2>1 DEF Capture, GateIInv, GateTypeOK, GateOK
    <3>2. t # u
      BY <3>1 DEF Calling
    <3>3. QED
      BY <3>2 DEF Capture, Calling, GateIInv, GateTypeOK
  <2>3. CASE \E u \in LoopThreads : EndNotify(u)
    BY <2>3 DEF EndNotify, Calling, GateIInv, GateTypeOK, NoNotice
  <2>4. CASE UNCHANGED <<notified, captured>>
    BY <2>4 DEF Calling
  <2>5. QED
    BY <2>2, <2>3, <2>4 DEF GateNext, Proceed, gateVars, BeginHandler, EndHandler,
       BeginNotify, BeginCallbackOperation, SetCallback, RemoveObserver,
       StartClear, FinishClear, Enable
<1>2. QED
  BY <1>1, Invariance, PTL DEF GateSpec, NoCallbackStartsWhenStopped

=============================================================================
