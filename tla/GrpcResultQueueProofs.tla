----------------------- MODULE GrpcResultQueueProofs -----------------------
(***************************************************************************)
(* Proofs about GrpcResultQueue, for any set of producers, any set of      *)
(* tasks and any number of pushes.  The inductive invariant is the         *)
(* conjunction of the three invariants of the module: the refinement needs *)
(* NothingLeftBehind (a swap must not bring back tasks that have run),     *)
(* which needs MutexHeld (nobody pushes between the two halves of a swap)  *)
(* and the types.                                                          *)
(***************************************************************************)
EXTENDS GrpcResultQueue, SequenceTheorems, TLAPS

Inv == TypeOK /\ MutexHeld /\ NothingLeftBehind

\* Initially nobody holds the mutex and both buffers are empty.
LEMMA InitInv == Init => Inv
BY QueueAssumption
   DEF Init, Inv, TypeOK, MutexHeld, NothingLeftBehind, Threads, PCs

\* Push keeps the invariant: it takes a free mutex, and writes holding it.
LEMMA PushInv ==
  ASSUME Inv, NEW th \in Producers, Push(th)
  PROVE  Inv'
<1> USE QueueAssumption DEF Inv, TypeOK, MutexHeld, NothingLeftBehind, Threads, PCs
<1>1. CASE Lock(th)
  BY <1>1 DEF Lock, Acquire
<1>2. ASSUME NEW t \in Tasks, PushBack(th, t)
      PROVE  Inv'
  BY <1>2 DEF PushBack
<1>3. QED
  BY <1>1, <1>2 DEF Push

\* Drain keeps the invariant: what it swaps in is what it clears.
LEMMA DrainInv ==
  ASSUME Inv, Drain
  PROVE  Inv'
<1> USE QueueAssumption DEF Inv, TypeOK, MutexHeld, NothingLeftBehind, Threads, PCs
<1>1. CASE DrainLock
  BY <1>1 DEF DrainLock, Acquire
<1>2. CASE Swap
  BY <1>2 DEF Swap
<1>3. CASE Dispatch
  BY <1>3 DEF Dispatch
<1>4. CASE Clear
  BY <1>4 DEF Clear, DispatchOver
<1>5. QED
  BY <1>1, <1>2, <1>3, <1>4 DEF Drain

\* The three invariants of the queue hold in every reachable state.
THEOREM QueueInvariant == Spec => []Inv
<1>1. Inv /\ [Next]_vars => Inv'
  <2>1. CASE Next
    BY <2>1, PushInv, DrainInv DEF Next
  <2>2. CASE UNCHANGED vars
    BY <2>2 DEF vars, Inv, TypeOK, MutexHeld, NothingLeftBehind
  <2>3. QED
    BY <2>1, <2>2
<1>2. QED
  BY InitInv, <1>1, PTL DEF Spec

-----------------------------------------------------------------------------

\* What is pending is a sequence of tasks, and so is what the channel was given.
LEMMA PendingType ==
  ASSUME Inv
  PROVE  /\ SubSeq(read_buffer, cursor, Len(read_buffer)) \in Seq(Tasks)
         /\ Pending \in Seq(Tasks)
         /\ ran \o Pending \in Seq(Tasks)
<1>1. \A i \in cursor .. Len(read_buffer) : read_buffer[i] \in Tasks
  BY ElementOfSeq DEF Inv, TypeOK
<1>2. SubSeq(read_buffer, cursor, Len(read_buffer)) \in Seq(Tasks)
  BY <1>1, SubSeqProperties DEF Inv, TypeOK
<1>3. Pending \in Seq(Tasks)
  BY <1>2, ConcatProperties DEF Inv, TypeOK, Pending
<1>4. QED
  BY <1>2, <1>3, ConcatProperties DEF Inv, TypeOK

LEMMA ConcatTasks ==
  \A r, s, t \in Seq(Tasks) : (r \o s) \o t = r \o (s \o t)
BY ConcatAssociative, SMTT(30)

\* A push appends to what the channel was given.
LEMMA PushBackIsPut ==
  ASSUME Inv, NEW th \in Producers, NEW t \in Tasks, PushBack(th, t)
  PROVE  Channel!Put
<1> DEFINE rest == SubSeq(read_buffer, cursor, Len(read_buffer))
<1>1. rest \in Seq(Tasks) /\ write_buffer \in Seq(Tasks) /\ ran \in Seq(Tasks)
  BY PendingType DEF Inv, TypeOK
<1>2. <<t>> \in Seq(Tasks)
  OBVIOUS
<1>3. Append(write_buffer, t) = write_buffer \o <<t>>
  BY <1>1, AppendIsConcat
<1>4. Pending' = rest \o (write_buffer \o <<t>>)
  BY <1>3 DEF PushBack, Pending
<1>5. Pending' = Pending \o <<t>>
  <2>1. Pending = rest \o write_buffer
    BY DEF Pending
  <2> HIDE DEF rest
  <2>2. (rest \o write_buffer) \o <<t>> = rest \o (write_buffer \o <<t>>)
    BY <1>1, <1>2, ConcatTasks, Zenon
  <2>3. QED
    BY <1>4, <2>1, <2>2
<1>6. (ran \o Pending)' = (ran \o Pending) \o <<t>>
  <2>1. ran' = ran
    BY DEF PushBack
  <2>2. (ran \o Pending) \o <<t>> = ran \o (Pending \o <<t>>)
    BY <1>1, <1>2, PendingType, ConcatTasks, Zenon
  <2>3. QED
    BY <1>5, <2>1, <2>2
<1>7. (ran \o Pending)' = Append(ran \o Pending, t)
  BY <1>6, PendingType, AppendIsConcat
<1>8. QED
  BY <1>7 DEF Channel!Put, PushBack

\* One iteration of the dispatch loop runs the oldest pending task.
LEMMA DispatchIsRun ==
  ASSUME Inv, Dispatch
  PROVE  Channel!Run
<1> DEFINE n == Len(read_buffer)
           next == read_buffer[cursor]
           rest == SubSeq(read_buffer, cursor + 1, n)
<1>1. /\ read_buffer \in Seq(Tasks) /\ write_buffer \in Seq(Tasks)
      /\ ran \in Seq(Tasks)
      /\ cursor \in 1 .. n /\ n \in Nat
  BY DEF Inv, TypeOK, Dispatch
<1>2. next \in Tasks
  BY <1>1, ElementOfSeq
<1>3. <<next>> \in Seq(Tasks)
  BY <1>2
<1>4. rest \in Seq(Tasks)
  <2>1. \A i \in cursor + 1 .. n : read_buffer[i] \in Tasks
    BY <1>1, ElementOfSeq
  <2>2. QED
    BY <1>1, <2>1, SubSeqProperties
<1>5. SubSeq(read_buffer, cursor, n) = <<next>> \o rest
  BY <1>1, SubSeqRecursiveFirst
<1>6. Pending = <<next>> \o Pending'
  <2>1. Pending' = rest \o write_buffer
    BY DEF Pending, Dispatch
  <2>2. Pending = (<<next>> \o rest) \o write_buffer
    BY <1>5 DEF Pending
  <2> HIDE DEF next, rest
  <2>3. (<<next>> \o rest) \o write_buffer = <<next>> \o (rest \o write_buffer)
    BY <1>1, <1>3, <1>4, ConcatTasks, Zenon
  <2>4. QED
    BY <2>1, <2>2, <2>3
<1>7. Pending' \in Seq(Tasks)
  BY <1>1, <1>4, ConcatProperties DEF Pending, Dispatch
<1>8. ran' = ran \o <<next>>
  BY <1>1, <1>2, AppendIsConcat DEF Dispatch
<1>9. (ran \o Pending)' = ran \o Pending
  <2> HIDE DEF next, rest
  <2>1. (ran \o <<next>>) \o Pending' = ran \o (<<next>> \o Pending')
    BY <1>1, <1>3, <1>7, ConcatTasks, Zenon
  <2>2. QED
    BY <1>6, <1>8, <2>1
<1>10. Len(Pending) = 1 + Len(Pending')
  BY <1>3, <1>6, <1>7, ConcatProperties
<1>11. Pending[1] = next
  BY <1>3, <1>6, <1>7, ConcatProperties
<1>12. Len(ran) \in Nat /\ Len(Pending) \in Nat /\ Len(Pending') \in Nat
  BY <1>1, <1>7, PendingType, LenProperties
<1>13. Len(ran) < Len(ran \o Pending)
  BY <1>1, <1>10, <1>12, PendingType, ConcatProperties
<1>14. (ran \o Pending)[Len(ran) + 1] = next
  <2>1. Len(ran) + 1 \in 1 .. Len(ran) + Len(Pending)
    BY <1>10, <1>12
  <2>2. (ran \o Pending)[Len(ran) + 1] = Pending[Len(ran) + 1 - Len(ran)]
    BY <1>1, <1>12, <2>1, PendingType, ConcatProperties
  <2>3. QED
    BY <1>11, <1>12, <2>2
<1>15. QED
  BY <1>9, <1>13, <1>14 DEF Channel!Run, Dispatch

\* Neither a swap nor the end of the loop changes what is pending.
LEMMA SwapIsStutter ==
  ASSUME Inv, Swap
  PROVE  Pending' = Pending /\ ran' = ran
<1>1. read_buffer = <<>> /\ cursor = 1 /\ write_buffer \in Seq(Tasks)
  BY DEF Inv, TypeOK, NothingLeftBehind, Swap
<1>2. Pending = write_buffer
  <2>1. SubSeq(read_buffer, cursor, Len(read_buffer)) = <<>>
    BY <1>1, SubSeqEmpty
  <2>2. QED
    BY <1>1, <2>1, ConcatEmptySeq DEF Pending
<1>3. Pending' = SubSeq(write_buffer, 1, Len(write_buffer)) \o <<>>
  BY <1>1 DEF Swap, Pending
<1>4. QED
  BY <1>1, <1>2, <1>3, SubSeqFull, ConcatEmptySeq DEF Swap

LEMMA ClearIsStutter ==
  ASSUME Inv, Clear
  PROVE  Pending' = Pending /\ ran' = ran
<1>1. cursor > Len(read_buffer) /\ cursor \in Nat /\ Len(read_buffer) \in Nat
  BY DEF Inv, TypeOK, Clear, DispatchOver
<1>2. SubSeq(read_buffer, cursor, Len(read_buffer)) = <<>>
  BY <1>1, SubSeqEmpty
<1>3. SubSeq(<<>>, 1, Len(<<>>)) = <<>>
  BY SubSeqEmpty
<1>4. QED
  BY <1>2, <1>3 DEF Clear, DispatchOver, Pending

\* The double buffer implements the first-in first-out channel: no task is
\* lost, repeated or overtaken, whatever the interleaving of Push and Drain.
THEOREM QueueImplementsChannel == Spec => ImplementsChannel
<1>1. Init => Channel!Init
  <2>1. SubSeq(<<>>, 1, Len(<<>>)) = <<>>
    BY SubSeqEmpty
  <2>2. <<>> \o <<>> = <<>>
    BY ConcatEmptySeq
  <2>3. QED
    BY <2>1, <2>2 DEF Init, Channel!Init, Pending
<1>2. Inv /\ [Next]_vars => [Channel!Next]_<<ran \o Pending, ran>>
  <2> SUFFICES ASSUME Inv, [Next]_vars
               PROVE  [Channel!Next]_<<ran \o Pending, ran>>
    OBVIOUS
  <2>1. ASSUME NEW th \in Producers, Push(th)
        PROVE  [Channel!Next]_<<ran \o Pending, ran>>
    <3>1. CASE Lock(th)
      BY <3>1 DEF Lock, Acquire, Pending
    <3>2. ASSUME NEW t \in Tasks, PushBack(th, t)
          PROVE  Channel!Next
      BY <3>2, PushBackIsPut DEF Channel!Next
    <3>3. QED
      BY <2>1, <3>1, <3>2 DEF Push
  <2>2. CASE Drain
    <3>1. CASE DrainLock
      BY <3>1 DEF DrainLock, Acquire, Pending
    <3>2. CASE Swap
      BY <3>2, SwapIsStutter
    <3>3. CASE Dispatch
      BY <3>3, DispatchIsRun DEF Channel!Next
    <3>4. CASE Clear
      BY <3>4, ClearIsStutter
    <3>5. QED
      BY <2>2, <3>1, <3>2, <3>3, <3>4 DEF Drain
  <2>3. CASE UNCHANGED vars
    BY <2>3 DEF vars, Pending
  <2>4. QED
    BY <2>1, <2>2, <2>3 DEF Next
<1>3. QED
  BY <1>1, <1>2, QueueInvariant, PTL DEF Spec, Channel!Spec, ImplementsChannel

\* The lock excludes: at most one thread is inside it.
THEOREM QueueMutexHeld == Spec => []MutexHeld
<1>1. Inv => MutexHeld
  BY DEF Inv
<1>2. QED
  BY <1>1, QueueInvariant, PTL

\* Between two drains nothing is left to be run a second time.
THEOREM QueueNothingLeftBehind == Spec => []NothingLeftBehind
<1>1. Inv => NothingLeftBehind
  BY DEF Inv
<1>2. QED
  BY <1>1, QueueInvariant, PTL

\* While a drain runs its tasks, no thread touches the buffer it runs them from: what
\* is pushed meanwhile waits for the next frame.
THEOREM QueueDrainIsBounded == Spec => BoundedDrain
<1> DEFINE Bounded ==
      pc[Main] = "dispatch" /\ pc'[Main] = "dispatch" => read_buffer' = read_buffer
<1>1. Inv /\ [Next]_vars => [Bounded]_vars
  <2> SUFFICES ASSUME Inv, Next, pc[Main] = "dispatch", pc'[Main] = "dispatch"
               PROVE  read_buffer' = read_buffer
    OBVIOUS
  <2>1. pc \in [Threads -> {"idle", "push_back", "swap", "dispatch"}] /\ Main \in Threads
    BY DEF Inv, TypeOK, Threads
  <2>2. ~DrainLock /\ ~Swap /\ ~Clear
    BY <2>1 DEF DrainLock, Acquire, Swap, Clear
  <2>3. CASE Dispatch
    BY <2>3 DEF Dispatch
  <2>4. ASSUME NEW th \in Producers, Push(th)
        PROVE  read_buffer' = read_buffer
    BY <2>4 DEF Push, Lock, Acquire, PushBack
  <2>5. QED
    BY <2>2, <2>3, <2>4 DEF Next, Drain
<1>2. QED
  BY <1>1, QueueInvariant, PTL DEF Spec, BoundedDrain
=============================================================================
