------------------------------ MODULE TaskQueue ------------------------------
(***************************************************************************)
(* What IOLoop::PostTask promises whoever calls it: each loop has a queue  *)
(* of tasks and runs them from the front, one after the other, whatever is *)
(* posted meanwhile; dropping the loops drops what they hold.  The tasks   *)
(* of a loop are numbered in the order of the posts.  IoLoop, with its     *)
(* mutex, pipe and threads, implements this.                               *)
(***************************************************************************)
EXTENDS Naturals, Sequences

CONSTANT Loops

VARIABLES
  waiting,   \* the tasks each loop has still to run, the next one first
  done       \* the tasks each loop ran

Init ==
  /\ waiting = [l \in Loops |-> <<>>]
  /\ done = [l \in Loops |-> <<>>]

PostTask(l) ==
  /\ waiting' = [waiting EXCEPT ![l] = Append(@, Len(done[l]) + Len(waiting[l]) + 1)]
  /\ UNCHANGED done

Run(l) ==
  /\ waiting[l] # <<>>
  /\ done' = [done EXCEPT ![l] = Append(@, Head(waiting[l]))]
  /\ waiting' = [waiting EXCEPT ![l] = Tail(@)]

DropLoops ==
  /\ waiting' = [l \in Loops |-> <<>>]
  /\ done' = [l \in Loops |-> <<>>]

Next == (\E l \in Loops : PostTask(l) \/ Run(l)) \/ DropLoops

Spec == Init /\ [][Next]_<<waiting, done>>

=============================================================================
