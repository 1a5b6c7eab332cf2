---------------------------- MODULE TaskChannel ----------------------------
(***************************************************************************)
(* What the game loop is promised by the queue that carries the results of *)
(* the asynchronous RPCs to the main thread: one unbounded first-in        *)
(* first-out channel.  Every task that was pushed runs at most once, in    *)
(* the order of the pushes, and no task runs that was not pushed.          *)
(* GrpcResultQueue, the double buffer of the code, implements this module. *)
(***************************************************************************)
EXTENDS Naturals, Sequences

CONSTANT Tasks          \* the tasks that can be pushed

VARIABLES
  pushed,               \* every task pushed so far, in the order of the pushes
  ran                   \* every task run so far, in the order of the runs

Init == pushed = <<>> /\ ran = <<>>

\* A background thread hands over a task.
Put == \E t \in Tasks : pushed' = Append(pushed, t) /\ UNCHANGED ran

\* The main thread runs the oldest task that has not run yet.
Run ==
  /\ Len(ran) < Len(pushed)
  /\ ran' = Append(ran, pushed[Len(ran) + 1])
  /\ UNCHANGED pushed

Next == Put \/ Run

Spec == Init /\ [][Next]_<<pushed, ran>>
=============================================================================
