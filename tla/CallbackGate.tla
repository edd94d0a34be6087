----------------------------- MODULE CallbackGate -----------------------------
(***************************************************************************)
(* The callback registrations of GeneralCommandHandler and the gate that   *)
(* separates the I/O threads' use of them from their removal: every        *)
(* Handler or CommandsHandle call, and inside it every notification, is an *)
(* operation counted in active_callback_operations_;                       *)
(* ClearCallbackRegistrations refuses new operations, forgets the          *)
(* registrations and waits on a condition variable for the count to reach  *)
(* zero.  One step is one critical section of callback_state_mutex_, or    *)
(* the return of an application callback, which runs without the mutex and *)
(* may change the registrations itself.                                    *)
(*                                                                         *)
(* A registration is represented by the session in which it was made, 0    *)
(* for none: that is what distinguishes a live client_data from a stale    *)
(* one.                                                                    *)
(***************************************************************************)
EXTENDS Naturals, FiniteSets

CONSTANTS
  LoopThreads,  \* I/O threads
  Slots,        \* the registrations: info change, info, command observer
  Observer,     \* the one that has a removal function
  MaxSessions   \* bound on the number of initialisations

ASSUME GateAssumption ==
  /\ IsFiniteSet(LoopThreads)
  /\ Observer \in Slots
  /\ MaxSessions \in Nat \ {0}

VARIABLES
  session,   \* number of the current session
  stopped,   \* callback_operations_stopped_
  active,    \* active_callback_operations_
  reg,       \* the registration in each slot
  ops,       \* the operations in progress, with the thread they run on
  notified,  \* how far a notification has got, and for which slot
  captured,  \* the registration a notification copied
  clearer    \* the control thread

gateVars == <<session, stopped, active, reg, ops, notified, captured, clearer>>

Sessions == 1..MaxSessions
Levels == {"handler", "notify"}
NoNotice == [at |-> "none", slot |-> Observer]

\* Every variable has the type its name promises.
GateTypeOK ==
  /\ session \in Sessions
  /\ stopped \in BOOLEAN
  /\ active \in Nat
  /\ reg \in [Slots -> {0} \cup Sessions]
  /\ ops \subseteq LoopThreads \X Levels
  /\ notified \in [LoopThreads -> [at : {"none", "begun", "calling"}, slot : Slots]]
  /\ captured \in [LoopThreads -> {0} \cup Sessions]
  /\ clearer \in {"up", "blocked", "woken", "cleared"}

-----------------------------------------------------------------------------
\* The gate

\* Mutant: an operation begins without being counted.
BeginCallbackOperation_Uncounted(t, level) ==
  /\ ~stopped
  /\ <<t, level>> \notin ops
  /\ ops' = ops \cup {<<t, level>>}
  /\ UNCHANGED active

\* Refused while the gate is closed, counted otherwise.
BeginCallbackOperation(t, level) ==
  /\ ~stopped
  /\ <<t, level>> \notin ops
  /\ active' = active + 1
  /\ ops' = ops \cup {<<t, level>>}

\* Mutant: the last operation to end does not signal.
EndCallbackOperation_Silent(t, level) ==
  /\ <<t, level>> \in ops
  /\ active' = active - 1
  /\ ops' = ops \ {<<t, level>>}
  /\ UNCHANGED clearer

\* The last operation to end wakes the control thread if it waits.
EndCallbackOperation(t, level) ==
  /\ <<t, level>> \in ops
  /\ active' = active - 1
  /\ ops' = ops \ {<<t, level>>}
  /\ clearer' = IF active' = 0 /\ clearer = "blocked" THEN "woken" ELSE clearer

-----------------------------------------------------------------------------
\* The I/O threads

\* Handler and CommandsHandle; with the gate closed they return at once.
BeginHandler(t) ==
  /\ BeginCallbackOperation(t, "handler")
  /\ UNCHANGED <<session, stopped, reg, notified, captured, clearer>>

EndHandler(t) ==
  /\ notified[t].at = "none"
  /\ EndCallbackOperation(t, "handler")
  /\ UNCHANGED <<session, stopped, reg, notified, captured>>

\* A notification is raised inside a handler and is an operation of its own.
BeginNotify(t, slot) ==
  /\ <<t, "handler">> \in ops
  /\ BeginCallbackOperation(t, "notify")
  /\ notified' = [notified EXCEPT ![t] = [at |-> "begun", slot |-> slot]]
  /\ UNCHANGED <<session, stopped, reg, captured, clearer>>

\* The callback and its client_data are copied under the mutex.
Capture(t) ==
  /\ notified[t].at = "begun"
  /\ captured' = [captured EXCEPT ![t] = reg[notified[t].slot]]
  /\ notified' = [notified EXCEPT ![t].at = "calling"]
  /\ UNCHANGED <<session, stopped, active, reg, ops, clearer>>

\* The callback, if there was one, returns; the guard ends the operation.
EndNotify(t) ==
  /\ notified[t].at = "calling"
  /\ EndCallbackOperation(t, "notify")
  /\ notified' = [notified EXCEPT ![t] = NoNotice]
  /\ captured' = [captured EXCEPT ![t] = 0]
  /\ UNCHANGED <<session, stopped, reg>>

-----------------------------------------------------------------------------
\* The application

\* Mutant: a registration is accepted while the SDK shuts down.
SetCallback_Always(slot) ==
  /\ reg' = [reg EXCEPT ![slot] = session]
  /\ UNCHANGED <<session, stopped, active, ops, notified, captured, clearer>>

\* SetLivoxLidarInfo(Change)Callback and LivoxLidarAddCmdObserver.
SetCallback(slot) ==
  /\ ~stopped
  /\ reg' = [reg EXCEPT ![slot] = session]
  /\ UNCHANGED <<session, stopped, active, ops, notified, captured, clearer>>

\* LivoxLidarRemoveCmdObserver works at any time, also inside the observer.
RemoveObserver ==
  /\ reg' = [reg EXCEPT ![Observer] = 0]
  /\ UNCHANGED <<session, stopped, active, ops, notified, captured, clearer>>

-----------------------------------------------------------------------------
\* The control thread

\* Mutant: the registrations are left in place.
StartClear_Keep ==
  /\ clearer = "up"
  /\ stopped' = TRUE
  /\ clearer' = IF active = 0 THEN "cleared" ELSE "blocked"
  /\ UNCHANGED <<session, active, reg, ops, notified, captured>>

\* Mutant: no wait for the operations in progress.
StartClear_NoWait ==
  /\ clearer = "up"
  /\ stopped' = TRUE
  /\ reg' = [slot \in Slots |-> 0]
  /\ clearer' = "cleared"
  /\ UNCHANGED <<session, active, ops, notified, captured>>

\* ClearCallbackRegistrations up to its wait, which may be over at once.
StartClear ==
  /\ clearer = "up"
  /\ stopped' = TRUE
  /\ reg' = [slot \in Slots |-> 0]
  /\ clearer' = IF active = 0 THEN "cleared" ELSE "blocked"
  /\ UNCHANGED <<session, active, ops, notified, captured>>

\* The wait returns once it is signalled and the count is zero.
FinishClear ==
  /\ clearer = "woken"
  /\ active = 0
  /\ clearer' = "cleared"
  /\ UNCHANGED <<session, stopped, active, reg, ops, notified, captured>>

\* EnableCallbackOperations in the Init of a later session.
Enable ==
  /\ clearer = "cleared"
  /\ session < MaxSessions
  /\ session' = session + 1
  /\ stopped' = FALSE
  /\ clearer' = "up"
  /\ UNCHANGED <<active, reg, ops, notified, captured>>

-----------------------------------------------------------------------------

GateInit ==
  /\ session = 1
  /\ stopped = FALSE
  /\ active = 0
  /\ reg = [slot \in Slots |-> 0]
  /\ ops = {}
  /\ notified = [t \in LoopThreads |-> NoNotice]
  /\ captured = [t \in LoopThreads |-> 0]
  /\ clearer = "up"

\* The steps of an operation that has begun.
Proceed(t) == EndHandler(t) \/ Capture(t) \/ EndNotify(t)

GateNext ==
  \/ \E t \in LoopThreads : BeginHandler(t) \/ Proceed(t)
  \/ \E t \in LoopThreads, slot \in Slots : BeginNotify(t, slot)
  \/ \E slot \in Slots : SetCallback(slot)
  \/ RemoveObserver
  \/ StartClear \/ FinishClear \/ Enable

GateSpec == GateInit /\ [][GateNext]_gateVars

(***************************************************************************)
(* Operations end (callbacks return), and a woken control thread runs.     *)
(***************************************************************************)
FairGateSpec ==
  /\ GateSpec
  /\ \A t \in LoopThreads : WF_gateVars(Proceed(t))
  /\ WF_gateVars(FinishClear)

-----------------------------------------------------------------------------
\* Properties

\* The callbacks that are running.
Calling == {t \in LoopThreads : notified[t].at = "calling" /\ captured[t] # 0}

(***************************************************************************)
(* When ClearCallbackRegistrations has returned, no thread is inside an    *)
(* operation: Destory may free what handlers and callbacks use.            *)
(***************************************************************************)
QuiescentWhenCleared == clearer = "cleared" => ops = {} /\ Calling = {}

(***************************************************************************)
(* "Registrations ... are scoped to one initialized SDK lifecycle": what   *)
(* is registered, and what is being called, was registered in this session.*)
(***************************************************************************)
ScopedToSession ==
  /\ \A slot \in Slots : reg[slot] \in {0, session}
  /\ \A t \in Calling : captured[t] = session

(***************************************************************************)
(* Once the gate is closed no callback starts, although an operation that  *)
(* had passed the gate may only then copy its registration.                *)
(***************************************************************************)
NoCallbackStartsWhenStopped ==
  [][stopped => Calling' \subseteq Calling]_gateVars

\* The control thread is not left waiting: a signal is never missed.
ClearReturns == clearer = "blocked" ~> clearer = "cleared"

=============================================================================
