-------------------------- MODULE CommandCompletion --------------------------
(***************************************************************************)
(* What the SDK promises about the completion of a command, without saying *)
(* how: a registered command is claimed by exactly one of its ACK, its     *)
(* timeout and the failure of its send, the claim calls the completion     *)
(* callback once, and only the end of the session discards a command that  *)
(* nothing has claimed.  CommandTable implements this specification as     *)
(* long as no sequence number is reused while it is in use.                *)
(***************************************************************************)
EXTENDS Naturals

CONSTANT Commands

VARIABLES
  status, \* what has become of each command
  calls   \* how often its completion callback has been invoked

vars == <<status, calls>>

Statuses == {"idle", "registered", "claimed", "completed", "discarded"}

Init ==
  /\ status = [c \in Commands |-> "idle"]
  /\ calls = [c \in Commands |-> 0]

\* The command becomes pending before anything is sent.
Register(c) ==
  /\ status[c] = "idle"
  /\ status' = [status EXCEPT ![c] = "registered"]
  /\ UNCHANGED calls

\* Several commands may time out together; each still awaits its own call.
Claim(S) ==
  /\ \A c \in S : status[c] = "registered"
  /\ status' = [c \in Commands |-> IF c \in S THEN "claimed" ELSE status[c]]
  /\ UNCHANGED calls

\* The callback of a command that nobody else has claimed, or of a claimed one.
Complete(c) ==
  /\ status[c] \in {"registered", "claimed"}
  /\ status' = [status EXCEPT ![c] = "completed"]
  /\ calls' = [calls EXCEPT ![c] = @ + 1]

\* The session ends: no claim is outstanding, what is registered is discarded.
EndSession ==
  /\ \A c \in Commands : status[c] # "claimed"
  /\ status' = [c \in Commands |->
                  IF status[c] = "registered" THEN "discarded" ELSE status[c]]
  /\ UNCHANGED calls

Next ==
  \/ \E c \in Commands : Register(c) \/ Complete(c)
  \/ \E S \in SUBSET Commands : Claim(S)
  \/ EndSession

Spec == Init /\ [][Next]_vars

=============================================================================
