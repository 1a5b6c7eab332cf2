---------------------------- MODULE Backpressure ----------------------------
(***************************************************************************)
(* The flow control of one client session (ClientSession.h, ClientSession  *)
(* .cpp).  Every RPC that a command of the client starts is counted in     *)
(* pending_grpc_requests_.  At HIGH the session stops reading its socket,  *)
(* at LOW it reads on.  Three threads touch the state without a lock:      *)
(*   - the main thread runs the commands and increments,                   *)
(*   - the gRPC thread completes the RPCs and decrements,                  *)
(*   - the I/O thread runs the receive coroutine, which sleeps on a timer  *)
(*     while reading is suspended.                                         *)
(* Each atomic load, each atomic store and each call on the timer is a     *)
(* step, because CheckBackpressure is several of them.                     *)
(***************************************************************************)
EXTENDS Integers

CONSTANTS
  HIGH,                 \* 32: suspend reading from here
  LOW,                  \* 8: resume reading from here
  MaxPackets,           \* bound: packets the client sends
  MaxLost               \* bound: RPCs that end without their callback

ASSUME BackpressureAssumption ==
  /\ HIGH \in Nat /\ LOW \in Nat /\ LOW < HIGH
  /\ MaxPackets \in Nat /\ MaxLost \in Nat

VARIABLES
  pending,              \* pending_grpc_requests_
  suspended,            \* is_reading_suspended_
  registered,           \* the session is in TcpServer's sessions_
  io,                   \* where the receive coroutine is
  pc,                   \* where the main and the gRPC thread are
  was,                  \* was_suspended of each CheckBackpressure that runs
  sent,                 \* packets the client has sent
  queued,               \* commands between the I/O thread and the main thread
  counted,              \* RPCs in flight whose callback holds the session
  lost,                 \* RPCs of this kind that ended without a callback
  peak                  \* history: the highest value of pending so far

vars == <<pending, suspended, registered, io, pc, was, sent, queued, counted, lost, peak>>

Threads == {"main", "grpc"}

\* The steps of CheckBackpressure, which both threads run.
CheckSteps == {"load_was", "test_high", "store_true", "test_low", "store_false",
               "test_wake", "cancel"}

\* The main thread issues the RPC after the increment; the gRPC thread tests
\* and subtracts before its check.
PCs(th) == {"idle"} \cup CheckSteps \cup
           (IF th = "main" THEN {"issue"} ELSE {"test_positive", "subtract"})

Init ==
  /\ pending = 0 /\ suspended = FALSE /\ registered = TRUE
  /\ io = "check"
  /\ pc = [th \in Threads |-> "idle"]
  /\ was = [th \in Threads |-> FALSE]
  /\ sent = 0 /\ queued = 0 /\ counted = 0 /\ lost = 0 /\ peak = 0

-----------------------------------------------------------------------------
(* The receive coroutine.                                                  *)

ioFrame == <<pending, suspended, pc, was, counted, lost, peak>>

\* The top of the loop: if (is_reading_suspended_).
IoCheck ==
  /\ io = "check"
  /\ io' = IF suspended THEN "arm" ELSE "read"
  /\ UNCHANGED <<ioFrame, registered, sent, queued>>

\* expires_at(max) and async_wait: from here on a cancel ends the wait.  A
\* cancel that came before found no wait to end.
IoArm ==
  /\ io = "arm"
  /\ io' = "asleep"
  /\ UNCHANGED <<ioFrame, registered, sent, queued>>

\* A packet arrives and HandlePacket queues a command or answers by itself.
IoPacket ==
  /\ io = "read"
  /\ sent < MaxPackets
  /\ sent' = sent + 1
  /\ \E n \in {0, 1} : queued' = queued + n
  /\ io' = "check"
  /\ UNCHANGED <<ioFrame, registered>>

\* The read fails or the length is invalid: the session is unregistered.  Only
\* a coroutine that reads notices that the client is gone.
IoClose ==
  /\ io = "read"
  /\ io' = "closed"
  /\ registered' = FALSE
  /\ UNCHANGED <<ioFrame, sent, queued>>

-----------------------------------------------------------------------------
(* CheckBackpressure, one access per step.                                 *)

Goto(th, label) == pc' = [pc EXCEPT ![th] = label]
After(th) == IF th = "main" THEN "issue" ELSE "idle"

checkFrame == <<pending, registered, sent, queued, counted, lost, peak>>

LoadWas(th) ==
  /\ pc[th] = "load_was"
  /\ was' = [was EXCEPT ![th] = suspended]
  /\ Goto(th, "test_high")
  /\ UNCHANGED <<checkFrame, suspended, io>>

\* Broken variant: the thresholds mixed up.
TestHighAtLow(th) ==
  /\ pc[th] = "test_high"
  /\ Goto(th, IF pending > LOW THEN "store_true" ELSE "test_low")
  /\ UNCHANGED <<checkFrame, suspended, io, was>>

TestHigh(th) ==
  /\ pc[th] = "test_high"
  /\ Goto(th, IF pending >= HIGH THEN "store_true" ELSE "test_low")
  /\ UNCHANGED <<checkFrame, suspended, io, was>>

StoreTrue(th) ==
  /\ pc[th] = "store_true"
  /\ suspended' = TRUE
  /\ Goto(th, "test_wake")
  /\ UNCHANGED <<checkFrame, io, was>>

TestLow(th) ==
  /\ pc[th] = "test_low"
  /\ Goto(th, IF pending <= LOW THEN "store_false" ELSE "test_wake")
  /\ UNCHANGED <<checkFrame, suspended, io, was>>

\* Broken variant: was_suspended is read after the store.
StoreFalseFirst(th) ==
  /\ pc[th] = "store_false"
  /\ suspended' = FALSE
  /\ was' = [was EXCEPT ![th] = FALSE]
  /\ Goto(th, "test_wake")
  /\ UNCHANGED <<checkFrame, io>>

StoreFalse(th) ==
  /\ pc[th] = "store_false"
  /\ suspended' = FALSE
  /\ Goto(th, "test_wake")
  /\ UNCHANGED <<checkFrame, io, was>>

TestWake(th) ==
  /\ pc[th] = "test_wake"
  /\ Goto(th, IF ~suspended /\ was[th] THEN "cancel" ELSE After(th))
  /\ UNCHANGED <<checkFrame, suspended, io, was>>

\* backpressure_timer_.cancel(): a wait in progress ends with
\* operation_aborted, which the coroutine swallows before it reads.
Cancel(th) ==
  /\ pc[th] = "cancel"
  /\ io' = IF io = "asleep" THEN "read" ELSE io
  /\ Goto(th, After(th))
  /\ UNCHANGED <<checkFrame, suspended, was>>

CheckBackpressure(th) ==
  \/ LoadWas(th) \/ TestHigh(th) \/ StoreTrue(th) \/ TestLow(th) \/ StoreFalse(th)
  \/ TestWake(th) \/ Cancel(th)

-----------------------------------------------------------------------------
(* The main thread: one command of the session.                            *)

\* Broken variant: the count is raised before the command is refused.
CountBeforeRefusal ==
  /\ pc["main"] = "idle" /\ queued > 0
  /\ queued' = queued - 1
  /\ pending' = pending + 1
  /\ UNCHANGED <<suspended, registered, io, pc, was, sent, counted, lost, peak>>

\* A command that starts no RPC: a move, a login, a talk that is refused, or
\* one whose session GetSession no longer finds, so that nothing is counted.
HandleUncounted ==
  /\ pc["main"] = "idle" /\ queued > 0
  /\ queued' = queued - 1
  /\ UNCHANGED <<pending, suspended, registered, io, pc, was, sent, counted, lost, peak>>

\* GetSession finds the session: IncrementPendingGrpc, then the RPC.
Increment ==
  /\ pc["main"] = "idle" /\ queued > 0
  /\ registered
  /\ queued' = queued - 1
  /\ pending' = pending + 1
  /\ peak' = IF pending' > peak THEN pending' ELSE peak
  /\ Goto("main", "load_was")
  /\ UNCHANGED <<suspended, registered, io, was, sent, counted, lost>>

\* The coroutine of the RPC is spawned; its callback owns the session.
Issue ==
  /\ pc["main"] = "issue"
  /\ counted' = counted + 1
  /\ Goto("main", "idle")
  /\ UNCHANGED <<pending, suspended, registered, io, was, sent, queued, lost, peak>>

-----------------------------------------------------------------------------
(* The gRPC thread: one completion.                                        *)

\* An answer, an error or the deadline: on_complete calls DecrementPendingGrpc.
Complete ==
  /\ pc["grpc"] = "idle" /\ counted > 0
  /\ counted' = counted - 1
  /\ Goto("grpc", "test_positive")
  /\ UNCHANGED <<pending, suspended, registered, io, was, sent, queued, lost, peak>>

\* Broken variant: a session that is gone is not paid back.
TestRegistered ==
  /\ pc["grpc"] = "test_positive"
  /\ Goto("grpc", IF registered THEN "subtract" ELSE "load_was")
  /\ UNCHANGED <<pending, suspended, registered, io, was, sent, queued, counted, lost, peak>>

TestPositive ==
  /\ pc["grpc"] = "test_positive"
  /\ Goto("grpc", IF pending > 0 THEN "subtract" ELSE "load_was")
  /\ UNCHANGED <<pending, suspended, registered, io, was, sent, queued, counted, lost, peak>>

Subtract ==
  /\ pc["grpc"] = "subtract"
  /\ pending' = pending - 1
  /\ Goto("grpc", "load_was")
  /\ UNCHANGED <<suspended, registered, io, was, sent, queued, counted, lost, peak>>

\* An exception inside the coroutine of the RPC is logged and swallowed: the
\* callback is dropped, and with it the decrement.
Lose ==
  /\ pc["grpc"] = "idle" /\ counted > 0
  /\ lost < MaxLost
  /\ counted' = counted - 1
  /\ lost' = lost + 1
  /\ UNCHANGED <<pending, suspended, registered, io, pc, was, sent, queued, peak>>

-----------------------------------------------------------------------------

IoNext == IoCheck \/ IoArm \/ IoPacket \/ IoClose
MainNext == HandleUncounted \/ Increment \/ Issue \/ CheckBackpressure("main")
GrpcNext == Complete \/ TestPositive \/ Subtract \/ Lose \/ CheckBackpressure("grpc")

Next == IoNext \/ MainNext \/ GrpcNext

Spec == Init /\ [][Next]_vars

\* The I/O thread runs what is ready (a packet or a disconnect is up to the
\* client), the main thread drains the commands in every frame, and every RPC
\* has a deadline, so that the gRPC thread completes it.
Fairness ==
  /\ WF_vars(IoCheck \/ IoArm)
  /\ WF_vars(MainNext)
  /\ WF_vars(Complete \/ TestPositive \/ Subtract \/ CheckBackpressure("grpc"))

FairSpec == Spec /\ Fairness

-----------------------------------------------------------------------------

TypeOK ==
  /\ pending \in Nat
  /\ suspended \in BOOLEAN /\ registered \in BOOLEAN
  /\ io \in {"check", "arm", "asleep", "read", "closed"}
  /\ pc \in [Threads -> {"idle", "issue", "test_positive", "subtract"} \cup CheckSteps]
  /\ \A th \in Threads : pc[th] \in PCs(th)
  /\ was \in [Threads -> BOOLEAN]
  /\ sent \in 0 .. MaxPackets
  /\ queued \in Nat /\ counted \in Nat /\ lost \in 0 .. MaxLost /\ peak \in Nat

\* The RPCs pending counts: those whose increment or decrement is under way,
\* those in flight, and those whose callback was dropped.
Outstanding ==
  counted + lost
    + (IF pc["main"] # "idle" THEN 1 ELSE 0)
    + (IF pc["grpc"] \in {"test_positive", "subtract"} THEN 1 ELSE 0)

\* pending_grpc_requests_ is exactly the number of RPCs it stands for: no
\* interleaving of increments and decrements loses or repeats a count, though
\* the decrement tests and subtracts in two steps.
CountExact == pending = Outstanding

\* A decrement always finds something to subtract: the unsigned counter cannot
\* wrap around and suspend the session for good.
NoUnderflow == pc["grpc"] \in {"test_positive", "subtract"} => pending > 0

\* A session is only ever suspended, and its coroutine only ever asleep, if it
\* had HIGH requests outstanding at some time: light traffic is never stopped.
NoSpuriousStop == suspended \/ io \in {"arm", "asleep"} => peak >= HIGH

\* Once a client sends nothing more, the count comes down to the callbacks that
\* were dropped: every other RPC of the session, failed ones included, is paid
\* back.  A dropped callback is never paid back.
CountPaidBack == pending > lost ~> pending = lost

\* Once the main thread has no command of the session left and every check is
\* over, a coroutine that sleeps in a suspended session is woken by the
\* completions that take the count down to LOW, as long as dropped callbacks
\* do not keep it above LOW.
SleeperWokenWhenSettled ==
  (/\ io = "asleep" /\ suspended /\ pending > LOW /\ MaxLost <= LOW
   /\ queued = 0 /\ \A th \in Threads : pc[th] = "idle")
  ~> io # "asleep"

\* "When the back pressure is released and the coroutine was waiting, the
\* timer is cancelled to wake it up at once" (ClientSession.h:48).
SleeperWoken == io = "asleep" ~> io # "asleep"
=============================================================================
