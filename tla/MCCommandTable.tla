---------------------------- MODULE MCCommandTable ----------------------------
(***************************************************************************)
(* CommandTable on three commands of two devices: a control command (c1)   *)
(* and a query (c2) through the general entry, and the control command of  *)
(* a family handler that configures its device (c3).                       *)
(***************************************************************************)
EXTENDS CommandTable

CONSTANTS h1, h2, control, query, c1, c2, c3

MCRequest ==
  [c \in Commands |->
     [handle |-> IF c = c2 THEN h2 ELSE h1,
      id |-> IF c = c2 THEN query ELSE control,
      entry |-> IF c = c3 THEN "family" ELSE "general"]]

\* Datagrams that match no command: wrong device, wrong command, truncated.
MCStrayAcks ==
  Acks \cap
  { [seq |-> 2, handle |-> h2, id |-> control, complete |-> TRUE],
    [seq |-> 2, handle |-> h1, id |-> query, complete |-> TRUE],
    [seq |-> 3, handle |-> h1, id |-> control, complete |-> FALSE] }

=============================================================================
