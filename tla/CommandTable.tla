----------------------------- MODULE CommandTable -----------------------------
(***************************************************************************)
(* The pending commands of GeneralCommandHandler (the map commands_) and   *)
(* the threads that race for them: application threads and SDK callbacks   *)
(* that submit commands, I/O threads that deliver ACKs and run the timer,  *)
(* and the control thread that ends a session.                             *)
(*                                                                         *)
(* One step is one critical section of commands_mutex_, one atomic         *)
(* operation on the sequence counter, one sendto, or the invocation or the *)
(* return of a completion callback.  A callback runs on the stack of the   *)
(* thread that claimed the command and may itself submit commands.         *)
(*                                                                         *)
(* UDP loses, duplicates, delays and reorders ACKs: a command that was     *)
(* sent may be answered at any later time and any number of times.         *)
(* StrayAcks are datagrams no command of this process asked for (answers   *)
(* to an earlier process, which numbered its commands from the start too,  *)
(* or answers of another device).                                          *)
(***************************************************************************)
EXTENDS Naturals, Sequences

CONSTANTS
  Callers,     \* application threads
  IoThreads,   \* threads whose loop delivers datagrams and runs OnTimer
  Commands,    \* the commands submitted in a behaviour
  Request,     \* what each command asks: handle, command id, entry point
  Ids,         \* command ids
  Handles,     \* device handles
  ControlId,   \* kCommandIDLidarWorkModeControl
  MaxSeq,      \* UINT16_MAX, the last sequence number before the wrap
  StrayAcks,   \* ACKs that answer no command of this process
  None         \* no command, no thread

Threads == Callers \cup IoThreads

(***************************************************************************)
(* An ACK as TakeCommandAck sees it; "complete" says that its payload      *)
(* holds a whole LivoxLidarAsyncControlResponse.                           *)
(***************************************************************************)
Acks == [seq : 1..MaxSeq, handle : Handles, id : Ids, complete : BOOLEAN]

(***************************************************************************)
(* Entry "general" is GeneralCommandHandler::SendCommand, which looks up   *)
(* the device's route and cleans up after a failed send; entry "family" is *)
(* the SendCommand(command, port) a family handler uses to configure a     *)
(* device.                                                                 *)
(***************************************************************************)
Requests == [handle : Handles, id : Ids, entry : {"general", "family"}]

ASSUME ConstantsAssumption ==
  /\ Callers \cap IoThreads = {}
  /\ MaxSeq \in Nat /\ MaxSeq > 1
  /\ Request \in [Commands -> Requests]
  /\ StrayAcks \subseteq Acks
  /\ None \notin Commands /\ None \notin Threads

VARIABLES
  seq,     \* GenerateSeq's counter
  seqOf,   \* the number given to each command, 0 before
  stage,   \* how far the call that submits a command has got
  table,   \* commands_ : sequence number -> pending command
  due,     \* commands whose deadline has passed
  sent,    \* commands that reached the network
  stack,   \* per thread, the active calls, innermost last
  holder,  \* the thread that has a timed-out command in timeout_commands
  phase,   \* of the SDK session
  fate,    \* history: what has become of each command
  calls    \* history: how often its callback was invoked

vars == <<seq, seqOf, stage, table, due, sent, stack, holder, phase, fate, calls>>

Stages == {"fresh", "numbered", "registered", "failed", "cleanup", "returned"}

Fates == {"new", "refused", "pending", "collected", "acked", "timedout",
          "sendfailed", "displaced", "removed", "discarded"}

\* A frame is an active SendCommand, a running callback or a CommandsHandle.
Frames ==
  [op : {"send", "callback"}, cmd : Commands] \cup [op : {"timer"}, cmd : {None}]

\* Every variable has the type its name promises.
TypeOK ==
  /\ seq \in 1..MaxSeq
  /\ seqOf \in [Commands -> 0..MaxSeq]
  /\ stage \in [Commands -> Stages]
  /\ table \in [1..MaxSeq -> Commands \cup {None}]
  /\ due \subseteq Commands
  /\ sent \subseteq Commands
  /\ stack \in [Threads -> Seq(Frames)]
  /\ holder \in [Commands -> IoThreads \cup {None}]
  /\ phase \in {"up", "stopping", "down"}
  /\ fate \in [Commands -> Fates]
  /\ calls \in [Commands -> Nat]

-----------------------------------------------------------------------------
\* Helpers

Pending == {c \in Commands : \E s \in 1..MaxSeq : table[s] = c}

Top(t) == stack[t][Len(stack[t])]
IsTop(t, op) == stack[t] # <<>> /\ Top(t).op = op
Pushed(t, op, c) == Append(stack[t], [op |-> op, cmd |-> c])
Popped(t) == SubSeq(stack[t], 1, Len(stack[t]) - 1)

Push(t, op, c) == stack' = [stack EXCEPT ![t] = Pushed(t, op, c)]
Pop(t) == stack' = [stack EXCEPT ![t] = Popped(t)]

\* The ACK that device Request[c].handle sends for command c.
ReplyTo(c, complete) ==
  [seq |-> seqOf[c], handle |-> Request[c].handle, id |-> Request[c].id,
   complete |-> complete]

\* Everything a socket may hand to an I/O thread now.
Deliverable ==
  {ReplyTo(c, b) : c \in sent, b \in BOOLEAN} \cup StrayAcks

\* Mutant: the payload of a control ACK is not validated.
Matches_AnyPayload(a, c) ==
  /\ a.handle = Request[c].handle
  /\ a.id = Request[c].id

\* The tests of TakeCommandAck on the entry found under the ACK's number.
Matches(a, c) ==
  /\ a.handle = Request[c].handle
  /\ a.id = Request[c].id
  /\ a.id = ControlId => a.complete

\* Mutant: the counter does not wrap.
NextSeq_NoWrap(n) == n + 1

\* GetSeq: the numbers run from 2 to MaxSeq, then from 1 again.
NextSeq(n) == IF n = MaxSeq THEN 1 ELSE n + 1

-----------------------------------------------------------------------------
\* Submitting a command

\* An I/O thread between two datagrams or timer rounds.
Running(t) == t \in IoThreads /\ stack[t] = <<>> /\ phase # "down"

(***************************************************************************)
(* A caller submits outside the SDK, an I/O thread while it handles a      *)
(* discovery reply (firmware-type query, configuration) or runs an         *)
(* observer, and any thread inside a completion callback.                  *)
(***************************************************************************)
MaySubmit(t) ==
  \/ t \in Callers /\ stack[t] = <<>> /\ phase = "up"
  \/ Running(t)
  \/ IsTop(t, "callback") /\ phase # "down"

\* SendCommand up to the route lookup: a number is taken even if it fails.
Submit(t, c) ==
  /\ MaySubmit(t)
  /\ stage[c] = "fresh"
  /\ seq' = NextSeq(seq)
  /\ seqOf' = [seqOf EXCEPT ![c] = NextSeq(seq)]
  /\ \/ /\ stage' = [stage EXCEPT ![c] = "numbered"]
        /\ Push(t, "send", c)
        /\ UNCHANGED fate
     \/ /\ Request[c].entry = "general"        \* no handler: kSendFailed
        /\ stage' = [stage EXCEPT ![c] = "returned"]
        /\ fate' = [fate EXCEPT ![c] = "refused"]
        /\ UNCHANGED stack
  /\ UNCHANGED <<table, due, sent, holder, phase, calls>>

\* Mutant: the command is registered after sendto.
AddCommand_AfterSend(t) ==
  /\ IsTop(t, "send")
  /\ LET c == Top(t).cmd
         s == seqOf[c]
     IN  /\ stage[c] = "numbered"
         /\ \/ /\ c \notin sent
               /\ sent' = sent \cup {c}
               /\ UNCHANGED <<stage, table, fate>>
            \/ /\ c \in sent
               /\ stage' = [stage EXCEPT ![c] = "registered"]
               /\ table' = [table EXCEPT ![s] = c]
               /\ fate' = [d \in Commands |->
                             IF d = c THEN "pending"
                             ELSE IF d = table[s] THEN "displaced" ELSE fate[d]]
               /\ UNCHANGED sent
  /\ UNCHANGED <<seq, seqOf, due, stack, holder, phase, calls>>

\* AddCommand stores into commands_[seq], whatever was there.
AddCommand(t) ==
  /\ IsTop(t, "send")
  /\ LET c == Top(t).cmd
         s == seqOf[c]
     IN  /\ stage[c] = "numbered"
         /\ stage' = [stage EXCEPT ![c] = "registered"]
         /\ table' = [table EXCEPT ![s] = c]
         /\ fate' = [d \in Commands |->
                       IF d = c THEN "pending"
                       ELSE IF d = table[s] THEN "displaced" ELSE fate[d]]
  /\ UNCHANGED <<seq, seqOf, due, sent, stack, holder, phase, calls>>

\* sendto succeeds and SendCommand returns.
SendOk(t) ==
  /\ IsTop(t, "send")
  /\ LET c == Top(t).cmd
     IN  /\ stage[c] = "registered"
         /\ stage' = [stage EXCEPT ![c] = "returned"]
         /\ sent' = sent \cup {c}
  /\ Pop(t)
  /\ UNCHANGED <<seq, seqOf, table, due, holder, phase, fate, calls>>

\* sendto fails: nothing reaches the network.
SendFails(t) ==
  /\ IsTop(t, "send")
  /\ LET c == Top(t).cmd
     IN  /\ stage[c] = "registered"
         /\ stage' = [stage EXCEPT ![c] = "failed"]
  /\ UNCHANGED <<seq, seqOf, table, due, sent, stack, holder, phase, fate, calls>>

\* The effect of RemoveCommand(seqOf[c]) on what it finds there.
Removed(c) == table[seqOf[c]]
Erase(c) == table' = [table EXCEPT ![seqOf[c]] = None]
FateOfRemoved(c, f) ==
  [d \in Commands |-> IF d # Removed(c) THEN fate[d]
                      ELSE IF d = c THEN f ELSE "removed"]

\* Mutant: the callback is invoked whether or not the entry was still there.
FailSend_Unchecked(t) ==
  /\ IsTop(t, "send")
  /\ LET c == Top(t).cmd
     IN  /\ stage[c] = "failed"
         /\ stage' = [stage EXCEPT ![c] = "cleanup"]
         /\ Erase(c)
         /\ fate' = FateOfRemoved(c, "sendfailed")
         /\ calls' = [calls EXCEPT ![c] = @ + 1]
         /\ Push(t, "callback", c)
  /\ UNCHANGED <<seq, seqOf, due, sent, holder, phase>>

\* Mutant: the entry is erased and nobody is told.
FailSend_Silent(t) ==
  /\ IsTop(t, "send")
  /\ LET c == Top(t).cmd
     IN  /\ stage[c] = "failed"
         /\ stage' = [stage EXCEPT ![c] = "cleanup"]
         /\ Erase(c)
         /\ fate' = FateOfRemoved(c, "removed")
  /\ UNCHANGED <<seq, seqOf, due, sent, stack, holder, phase, calls>>

(***************************************************************************)
(* The family handler after a failed sendto: if RemoveCommand erased an    *)
(* entry, this thread owns the completion and calls back with SendFailed.  *)
(***************************************************************************)
FailSend(t) ==
  /\ IsTop(t, "send")
  /\ LET c == Top(t).cmd
     IN  /\ stage[c] = "failed"
         /\ stage' = [stage EXCEPT ![c] = "cleanup"]
         /\ Erase(c)
         /\ fate' = FateOfRemoved(c, "sendfailed")
         /\ IF Removed(c) # None
            THEN /\ calls' = [calls EXCEPT ![c] = @ + 1]
                 /\ Push(t, "callback", c)
            ELSE UNCHANGED <<calls, stack>>
  /\ UNCHANGED <<seq, seqOf, due, sent, holder, phase>>

\* The general entry erases the number once more; the family entry returns.
CleanUp(t) ==
  /\ IsTop(t, "send")
  /\ LET c == Top(t).cmd
     IN  /\ stage[c] = "cleanup"
         /\ stage' = [stage EXCEPT ![c] = "returned"]
         /\ IF Request[c].entry = "general"
            THEN Erase(c) /\ fate' = FateOfRemoved(c, "removed")
            ELSE UNCHANGED <<table, fate>>
  /\ Pop(t)
  /\ UNCHANGED <<seq, seqOf, due, sent, holder, phase, calls>>

-----------------------------------------------------------------------------
\* The I/O threads

\* Mutant: the entry survives its ACK.
TakeAck_NoErase(t, a) ==
  /\ Running(t)
  /\ a.seq \in 1..MaxSeq
  /\ LET c == table[a.seq]
     IN  /\ c # None
         /\ Matches(a, c)
         /\ fate' = [fate EXCEPT ![c] = "acked"]
         /\ calls' = [calls EXCEPT ![c] = @ + 1]
         /\ Push(t, "callback", c)
  /\ UNCHANGED <<seq, seqOf, stage, table, due, sent, holder, phase>>

(***************************************************************************)
(* Handler with an ACK: TakeCommandAck finds the entry, validates and      *)
(* erases it, and the callback is invoked after the unlock.  An ACK that   *)
(* finds nothing, or does not match, changes nothing.                      *)
(***************************************************************************)
TakeAck(t, a) ==
  /\ Running(t)
  /\ a.seq \in 1..MaxSeq
  /\ LET c == table[a.seq]
     IN  /\ c # None
         /\ Matches(a, c)
         /\ table' = [table EXCEPT ![a.seq] = None]
         /\ fate' = [fate EXCEPT ![c] = "acked"]
         /\ calls' = [calls EXCEPT ![c] = @ + 1]
         /\ Push(t, "callback", c)
  /\ UNCHANGED <<seq, seqOf, stage, due, sent, holder, phase>>

(***************************************************************************)
(* Time passes the deadline of a pending command.  It may be late: a       *)
(* deadline counts as passed once CommandsHandle's "now" is beyond it.     *)
(***************************************************************************)
Elapse(c) ==
  /\ c \in Pending \ due
  /\ due' = due \cup {c}
  /\ UNCHANGED <<seq, seqOf, stage, table, sent, stack, holder, phase, fate, calls>>

\* CommandsHandle under the lock: every expired entry moves to a local list.
Collect(t) ==
  /\ Running(t)
  /\ LET expired == Pending \cap due
     IN  /\ expired # {}
         /\ table' = [s \in 1..MaxSeq |->
                        IF table[s] \in expired THEN None ELSE table[s]]
         /\ fate' = [c \in Commands |->
                       IF c \in expired THEN "collected" ELSE fate[c]]
         /\ holder' = [c \in Commands |-> IF c \in expired THEN t ELSE holder[c]]
  /\ Push(t, "timer", None)
  /\ UNCHANGED <<seq, seqOf, stage, due, sent, phase, calls>>

\* After the unlock: one more callback of the local list.
CallTimedOut(t) ==
  /\ IsTop(t, "timer")
  /\ \E c \in Commands :
       /\ holder[c] = t
       /\ holder' = [holder EXCEPT ![c] = None]
       /\ fate' = [fate EXCEPT ![c] = "timedout"]
       /\ calls' = [calls EXCEPT ![c] = @ + 1]
       /\ Push(t, "callback", c)
  /\ UNCHANGED <<seq, seqOf, stage, table, due, sent, phase>>

\* Mutant: CommandsHandle returns before its list is empty.
TimerDone_Early(t) ==
  /\ IsTop(t, "timer")
  /\ Pop(t)
  /\ UNCHANGED <<seq, seqOf, stage, table, due, sent, holder, phase, fate, calls>>

\* The list is empty and CommandsHandle returns to the loop.
TimerDone(t) ==
  /\ IsTop(t, "timer")
  /\ \A c \in Commands : holder[c] # t
  /\ Pop(t)
  /\ UNCHANGED <<seq, seqOf, stage, table, due, sent, holder, phase, fate, calls>>

\* A completion callback returns to the call that invoked it.
CallbackReturns(t) ==
  /\ IsTop(t, "callback")
  /\ Pop(t)
  /\ UNCHANGED <<seq, seqOf, stage, table, due, sent, holder, phase, fate, calls>>

-----------------------------------------------------------------------------
\* The session

(***************************************************************************)
(* LivoxLidarSdkUninit on the control thread: concurrent API work has been *)
(* stopped, as the API requires.                                           *)
(***************************************************************************)
Uninit ==
  /\ phase = "up"
  /\ \A t \in Callers : stack[t] = <<>>
  /\ phase' = "stopping"
  /\ UNCHANGED <<seq, seqOf, stage, table, due, sent, stack, holder, fate, calls>>

\* StopIOThreads has joined the I/O threads; Destory clears the commands.
Destory ==
  /\ phase = "stopping"
  /\ \A t \in IoThreads : stack[t] = <<>>
  /\ phase' = "down"
  /\ table' = [s \in 1..MaxSeq |-> None]
  /\ fate' = [c \in Commands |-> IF c \in Pending THEN "discarded" ELSE fate[c]]
  /\ UNCHANGED <<seq, seqOf, stage, due, sent, stack, holder, calls>>

\* A later LivoxLidarSdkInit; the sequence counter is static and goes on.
Reinit ==
  /\ phase = "down"
  /\ phase' = "up"
  /\ UNCHANGED <<seq, seqOf, stage, table, due, sent, stack, holder, fate, calls>>

-----------------------------------------------------------------------------

Init ==
  /\ seq = 1
  /\ seqOf = [c \in Commands |-> 0]
  /\ stage = [c \in Commands |-> "fresh"]
  /\ table = [s \in 1..MaxSeq |-> None]
  /\ due = {}
  /\ sent = {}
  /\ stack = [t \in Threads |-> <<>>]
  /\ holder = [c \in Commands |-> None]
  /\ phase = "up"
  /\ fate = [c \in Commands |-> "new"]
  /\ calls = [c \in Commands |-> 0]

\* What a thread does on its own once it is inside the SDK or a callback.
Continue(t) ==
  \/ AddCommand(t) \/ SendOk(t) \/ SendFails(t) \/ FailSend(t) \/ CleanUp(t)
  \/ CallTimedOut(t) \/ TimerDone(t) \/ CallbackReturns(t)

Next ==
  \/ \E t \in Threads, c \in Commands : Submit(t, c)
  \/ \E t \in Threads : Continue(t)
  \/ \E t \in IoThreads : \E a \in Deliverable : TakeAck(t, a)
  \/ \E t \in IoThreads : Collect(t)
  \/ \E c \in Commands : Elapse(c)
  \/ Uninit \/ Destory \/ Reinit

Spec == Init /\ [][Next]_vars

(***************************************************************************)
(* Calls of the SDK proceed, callbacks return (an application that blocks  *)
(* in one stops its I/O thread), time passes, and every loop round of an   *)
(* I/O thread ends with CheckTimer, so an expired command is collected.    *)
(***************************************************************************)
Fairness ==
  /\ \A t \in Threads : WF_vars(Continue(t))
  /\ \A t \in IoThreads : WF_vars(Collect(t))
  /\ \A c \in Commands : WF_vars(Elapse(c))

FairSpec == Spec /\ Fairness

-----------------------------------------------------------------------------
\* Properties

(***************************************************************************)
(* An ACK completes only a command that reached the network, although ACKs *)
(* arrive late, twice, from other devices, for other commands and with     *)
(* truncated payloads (TakeCommandAck's validation before it consumes the  *)
(* entry).  It needs numbers that are not reused and strays that match no  *)
(* command.                                                                *)
(***************************************************************************)
AckedWasSent == \A c \in Commands : fate[c] = "acked" => c \in sent

(***************************************************************************)
(* "The first ACK, timeout, or send failure to remove the pending command  *)
(* owns its completion; later events do not invoke it again."  The         *)
(* sequence number is the only key of commands_, so the promise holds for  *)
(* every command whose number is given to no other command.                *)
(***************************************************************************)
Unshared(c) == \A d \in Commands \ {c} : seqOf[d] # seqOf[c]

OnceUnlessReused ==
  \A c \in Commands : Unshared(c) => calls[c] <= 1

(***************************************************************************)
(* No command is forgotten: one whose number is its own stays findable in  *)
(* commands_ until something claims it, and every claim that has not yet   *)
(* called back is in the list of a CommandsHandle that will.               *)
(***************************************************************************)
PendingUnlessReused ==
  \A c \in Commands : Unshared(c) =>
    /\ fate[c] \notin {"displaced", "removed"}
    /\ fate[c] = "pending" <=> c \in Pending
    /\ fate[c] = "collected" => \E t \in IoThreads :
         /\ holder[c] = t
         /\ \E i \in DOMAIN stack[t] : stack[t][i].op = "timer"

(***************************************************************************)
(* An answer finds its command: from the moment a command with a number of *)
(* its own can be answered, it is in commands_, or an ACK, the timer or    *)
(* the end of the session has already taken it.  A command that was not    *)
(* yet registered, was undone after a failed send or lost its entry to the *)
(* second RemoveCommand of another thread is never one the device can      *)
(* answer (SendCommand registers before it sends, and undoes only what     *)
(* sendto refused).                                                        *)
(***************************************************************************)
AnswerIsAwaited ==
  \A c \in sent : Unshared(c) =>
    c \in Pending \/ fate[c] \in {"collected", "acked", "timedout", "discarded"}

\* A registered command completes unless the session ends first.
EventuallyCompletes ==
  \A c \in Commands :
    fate[c] = "pending" ~> (calls[c] > 0 \/ fate[c] = "discarded")

\* What the history of a command is to the abstract protocol.
StatusOf(f) ==
  CASE f \in {"new", "refused"} -> "idle"
    [] f = "pending" -> "registered"
    [] f = "collected" -> "claimed"
    [] f \in {"acked", "timedout", "sendfailed"} -> "completed"
    [] OTHER -> "discarded"

AbstractStatus == [c \in Commands |-> StatusOf(fate[c])]

Completion == INSTANCE CommandCompletion WITH status <- AbstractStatus

(***************************************************************************)
(* Without reuse of a sequence number, the table implements the abstract   *)
(* completion protocol.                                                    *)
(***************************************************************************)
CompletionSpec == Completion!Spec

=============================================================================
