-------------------------- MODULE GrpcResultQueue --------------------------
(***************************************************************************)
(* The double-buffered queue of GrpcResultQueue.h.  The I/O and the gRPC   *)
(* thread call Push, which appends to write_buffer_ under the mutex.  The  *)
(* main thread calls Drain once per frame: it swaps the two buffers under  *)
(* the mutex, runs the tasks of read_buffer_ outside of it, and clears     *)
(* read_buffer_.                                                           *)
(*                                                                         *)
(* A step is one access to the mutex or to a buffer, so Push and Drain of  *)
(* different threads interleave wherever the lock lets them.               *)
(***************************************************************************)
EXTENDS Naturals, Sequences

CONSTANTS
  Producers,            \* the threads that call Push
  Main,                 \* the thread that calls Drain
  Free,                 \* the value of mutex when nobody holds it
  Tasks,                \* what can be pushed
  MaxPushes             \* bound: calls of Push by all the producers together

ASSUME QueueAssumption ==
  /\ Main \notin Producers
  /\ Free \notin Producers \cup {Main}
  /\ MaxPushes \in Nat

Threads == Producers \cup {Main}

VARIABLES
  mutex,                \* the thread that holds mutex_, or Free
  write_buffer,         \* write_buffer_
  read_buffer,          \* read_buffer_
  cursor,               \* the iterator of Drain's loop: the next task to run
  pc,                   \* where each thread is
  ran                   \* history: the tasks run so far, oldest first

vars == <<mutex, write_buffer, read_buffer, cursor, pc, ran>>

\* What has not run yet, oldest first: the rest of read_buffer, then write_buffer.
Pending == SubSeq(read_buffer, cursor, Len(read_buffer)) \o write_buffer

PCs(th) == IF th = Main THEN {"idle", "swap", "dispatch"} ELSE {"idle", "push_back"}

Init ==
  /\ mutex = Free
  /\ write_buffer = <<>>
  /\ read_buffer = <<>>
  /\ cursor = 1
  /\ pc = [th \in Threads |-> "idle"]
  /\ ran = <<>>

\* Both entry points begin with std::lock_guard.
Acquire(th, label) ==
  /\ pc[th] = "idle"
  /\ mutex = Free
  /\ mutex' = th
  /\ pc' = [pc EXCEPT ![th] = label]
  /\ UNCHANGED <<write_buffer, read_buffer, cursor, ran>>

Lock(th) ==
  /\ Len(ran \o Pending) < MaxPushes
  /\ Acquire(th, "push_back")

\* Broken variant: a single buffer, appended to while it is being run.
PushBackToReadBuffer(th, t) ==
  /\ pc[th] = "push_back"
  /\ read_buffer' = Append(read_buffer, t)
  /\ mutex' = Free
  /\ pc' = [pc EXCEPT ![th] = "idle"]
  /\ UNCHANGED <<write_buffer, cursor, ran>>

\* write_buffer_.push_back(task), and the guard releases the mutex.
PushBack(th, t) ==
  /\ pc[th] = "push_back"
  /\ write_buffer' = Append(write_buffer, t)
  /\ mutex' = Free
  /\ pc' = [pc EXCEPT ![th] = "idle"]
  /\ UNCHANGED <<read_buffer, cursor, ran>>

DrainLock == Acquire(Main, "swap")

\* Broken variant: read_buffer_ = write_buffer_ instead of a swap.
SwapByCopy ==
  /\ pc[Main] = "swap"
  /\ read_buffer' = write_buffer
  /\ cursor' = 1
  /\ mutex' = Free
  /\ pc' = [pc EXCEPT ![Main] = "dispatch"]
  /\ UNCHANGED <<write_buffer, ran>>

\* std::swap(write_buffer_, read_buffer_), the guard releases the mutex, and
\* the loop starts at the first task.
Swap ==
  /\ pc[Main] = "swap"
  /\ write_buffer' = read_buffer
  /\ read_buffer' = write_buffer
  /\ cursor' = 1
  /\ mutex' = Free
  /\ pc' = [pc EXCEPT ![Main] = "dispatch"]
  /\ UNCHANGED ran

\* One iteration of the loop.  The task runs without the mutex.
Dispatch ==
  /\ pc[Main] = "dispatch"
  /\ cursor <= Len(read_buffer)
  /\ ran' = Append(ran, read_buffer[cursor])
  /\ cursor' = cursor + 1
  /\ UNCHANGED <<mutex, write_buffer, read_buffer, pc>>

DispatchOver == pc[Main] = "dispatch" /\ cursor > Len(read_buffer)

\* Broken variant: both buffers are cleared.
ClearBoth ==
  /\ DispatchOver
  /\ read_buffer' = <<>> /\ write_buffer' = <<>>
  /\ cursor' = 1
  /\ pc' = [pc EXCEPT ![Main] = "idle"]
  /\ UNCHANGED <<mutex, ran>>

\* The loop is over: read_buffer_.clear(), and Drain returns.
Clear ==
  /\ DispatchOver
  /\ read_buffer' = <<>>
  /\ cursor' = 1
  /\ pc' = [pc EXCEPT ![Main] = "idle"]
  /\ UNCHANGED <<mutex, write_buffer, ran>>

Push(th) == Lock(th) \/ \E t \in Tasks : PushBack(th, t)

Drain == DrainLock \/ Swap \/ Dispatch \/ Clear

Next == Drain \/ \E th \in Producers : Push(th)

Spec == Init /\ [][Next]_vars

\* A thread inside Push or Drain runs on; nobody is obliged to start a Push.
\* The game loop calls Drain in every frame, and the OS hands the mutex to the
\* main thread eventually although producers compete for it.
Fairness ==
  /\ \A th \in Producers : WF_vars(\E t \in Tasks : PushBack(th, t))
  /\ SF_vars(DrainLock)
  /\ WF_vars(Swap \/ Dispatch \/ Clear)

FairSpec == Spec /\ Fairness

-----------------------------------------------------------------------------

TypeOK ==
  /\ mutex \in Threads \cup {Free}
  /\ write_buffer \in Seq(Tasks)
  /\ read_buffer \in Seq(Tasks)
  /\ cursor \in 1 .. Len(read_buffer) + 1
  /\ pc \in [Threads -> {"idle", "push_back", "swap", "dispatch"}]
  /\ \A th \in Threads : pc[th] \in PCs(th)
  /\ ran \in Seq(Tasks)

\* At most one thread is between lock and unlock, so that write_buffer_ is
\* never appended to while the main thread swaps it away.
MutexHeld ==
  \A th \in Threads : pc[th] \in {"push_back", "swap"} <=> mutex = th

\* Outside of the dispatch loop read_buffer_ is empty: a swap never puts tasks
\* that have run already back into write_buffer_, to be run again next frame.
NothingLeftBehind ==
  pc[Main] # "dispatch" => read_buffer = <<>>

\* The implementation of the abstract channel: what was pushed is what has run
\* followed by what is still pending in the two buffers.
Channel == INSTANCE TaskChannel WITH pushed <- ran \o Pending, ran <- ran

\* Drain and Push implement the channel: every task runs at most once, in the
\* order of the pushes, whatever the interleaving of the threads.
ImplementsChannel == Channel!Spec

\* One Drain runs exactly the tasks that were in write_buffer_ when it swapped:
\* a task that arrives while the loop runs waits for the next frame, so that
\* producers cannot keep the frame from going on.
BoundedDrain ==
  [][pc[Main] = "dispatch" /\ pc'[Main] = "dispatch"
       => read_buffer' = read_buffer]_vars

\* Every task that is pushed is run by some later frame.
EveryTaskRuns ==
  \A n \in 1 .. MaxPushes :
    Len(ran \o Pending) >= n ~> Len(ran) >= n
=============================================================================
