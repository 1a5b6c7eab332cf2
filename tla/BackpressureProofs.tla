------------------------- MODULE BackpressureProofs -------------------------
(***************************************************************************)
(* Proofs about Backpressure for every HIGH and LOW and any traffic.  The  *)
(* count is exact because the only subtraction follows its test in the     *)
(* same thread.  That a session is never stopped below HIGH needs the      *)
(* strengthening StopsSeen: the decision to suspend travels through the    *)
(* program counter before it reaches the flag.                             *)
(***************************************************************************)
EXTENDS Backpressure, TLAPS

\* A thread about to suspend the session has seen HIGH requests.
StopsSeen ==
  /\ pending <= peak
  /\ \A th \in Threads : pc[th] = "store_true" => peak >= HIGH

Inv == TypeOK /\ CountExact /\ NoSpuriousStop /\ StopsSeen

\* Initially nothing is outstanding.
LEMMA InitInv == Init => Inv
<1> SUFFICES ASSUME Init PROVE Inv
  OBVIOUS
<1>1. TypeOK
  <2>1. pc \in [Threads -> {"idle", "issue", "test_positive", "subtract"} \cup CheckSteps]
    BY DEF Init
  <2>2. was \in [Threads -> BOOLEAN]
    BY DEF Init
  <2>3. \A th \in Threads : pc[th] \in PCs(th)
    BY DEF Init, PCs
  <2>4. suspended \in BOOLEAN /\ registered \in BOOLEAN
    BY DEF Init
  <2>5. QED
    BY <2>1, <2>2, <2>3, <2>4, BackpressureAssumption DEF Init, TypeOK
<1>2. pc["main"] = "idle" /\ pc["grpc"] = "idle"
  BY DEF Init, Threads
<1>3. CountExact /\ StopsSeen
  BY <1>2 DEF Init, CountExact, StopsSeen, Outstanding, Threads
<1>4. NoSpuriousStop
  BY DEF Init, NoSpuriousStop
<1>5. QED
  BY <1>1, <1>3, <1>4 DEF Inv

\* The receive coroutine sleeps only when it has seen the flag.
LEMMA IoInv ==
  ASSUME Inv, IoNext
  PROVE  Inv'
<1> USE BackpressureAssumption
    DEF Inv, TypeOK, CountExact, NoSpuriousStop, StopsSeen, Outstanding, ioFrame
<1>1. CASE IoCheck
  BY <1>1 DEF IoCheck
<1>2. CASE IoArm
  BY <1>2 DEF IoArm
<1>3. CASE IoPacket
  BY <1>3 DEF IoPacket
<1>4. CASE IoClose
  BY <1>4 DEF IoClose
<1>5. QED
  BY <1>1, <1>2, <1>3, <1>4 DEF IoNext

\* CheckBackpressure counts nothing, and suspends only what reached HIGH.
LEMMA CheckInv ==
  ASSUME Inv, NEW th \in Threads, CheckBackpressure(th)
  PROVE  Inv'
<1> USE BackpressureAssumption
    DEF Inv, TypeOK, CountExact, NoSpuriousStop, StopsSeen, Outstanding, Threads, PCs,
        CheckSteps, checkFrame, Goto, After
<1>1. CASE LoadWas(th)
  BY <1>1 DEF LoadWas
<1>2. CASE TestHigh(th)
  BY <1>2 DEF TestHigh
<1>3. CASE StoreTrue(th)
  BY <1>3 DEF StoreTrue
<1>4. CASE TestLow(th)
  BY <1>4 DEF TestLow
<1>5. CASE StoreFalse(th)
  BY <1>5 DEF StoreFalse
<1>6. CASE TestWake(th)
  BY <1>6 DEF TestWake
<1>7. CASE Cancel(th)
  BY <1>7 DEF Cancel
<1>8. QED
  BY <1>1, <1>2, <1>3, <1>4, <1>5, <1>6, <1>7 DEF CheckBackpressure

\* The main thread counts a request before it issues it.
LEMMA MainInv ==
  ASSUME Inv, MainNext
  PROVE  Inv'
<1> USE BackpressureAssumption
    DEF Inv, TypeOK, CountExact, NoSpuriousStop, StopsSeen, Outstanding, Threads, PCs,
        CheckSteps, Goto
<1>1. CASE HandleUncounted
  BY <1>1 DEF HandleUncounted
<1>2. CASE Increment
  BY <1>2 DEF Increment
<1>3. CASE Issue
  BY <1>3 DEF Issue
<1>4. CASE CheckBackpressure("main")
  BY <1>4, CheckInv DEF Threads
<1>5. QED
  BY <1>1, <1>2, <1>3, <1>4 DEF MainNext

\* The gRPC thread subtracts once per completion.
LEMMA GrpcInv ==
  ASSUME Inv, GrpcNext
  PROVE  Inv'
<1> USE BackpressureAssumption
    DEF Inv, TypeOK, CountExact, NoSpuriousStop, StopsSeen, Outstanding, Threads, PCs,
        CheckSteps, Goto
<1>1. CASE Complete
  BY <1>1 DEF Complete
<1>2. CASE TestPositive
  BY <1>2 DEF TestPositive
<1>3. CASE Subtract
  BY <1>3 DEF Subtract
<1>4. CASE Lose
  BY <1>4 DEF Lose
<1>5. CASE CheckBackpressure("grpc")
  BY <1>5, CheckInv DEF Threads
<1>6. QED
  BY <1>1, <1>2, <1>3, <1>4, <1>5 DEF GrpcNext

\* The inductive invariant holds in every reachable state.
THEOREM BackpressureInvariant == Spec => []Inv
<1>1. Inv /\ [Next]_vars => Inv'
  <2>1. CASE Next
    BY <2>1, IoInv, MainInv, GrpcInv DEF Next
  <2>2. CASE UNCHANGED vars
    BY <2>2 DEF vars, Inv, TypeOK, CountExact, NoSpuriousStop, StopsSeen, Outstanding
  <2>3. QED
    BY <2>1, <2>2
<1>2. QED
  BY InitInv, <1>1, PTL DEF Spec

\* The counter of pending requests is exact at every step of both threads.
THEOREM CountAlwaysExact == Spec => []CountExact
<1>1. Inv => CountExact
  BY DEF Inv
<1>2. QED
  BY <1>1, BackpressureInvariant, PTL

\* The test of the decrement never fails: the counter cannot wrap around.
THEOREM NeverUnderflows == Spec => []NoUnderflow
<1>1. Inv => NoUnderflow
  BY DEF Inv, TypeOK, CountExact, Outstanding, NoUnderflow
<1>2. QED
  BY <1>1, BackpressureInvariant, PTL

\* A session that never had HIGH requests outstanding is never stopped.
THEOREM NeverStoppedBelowHigh == Spec => []NoSpuriousStop
<1>1. Inv => NoSpuriousStop
  BY DEF Inv
<1>2. QED
  BY <1>1, BackpressureInvariant, PTL
=============================================================================
