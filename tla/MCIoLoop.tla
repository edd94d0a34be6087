------------------------------ MODULE MCIoLoop ------------------------------
(***************************************************************************)
(* IoLoop where the command loop, which both the control and the detection *)
(* thread post to, gets two tasks and each of the others one.              *)
(***************************************************************************)
EXTENDS IoLoop

MCMaxTasks == [l \in Loops |-> IF l = Command THEN 2 ELSE 1]

=============================================================================
