----------------------------- MODULE WorldTick -----------------------------
(***************************************************************************)
(* The game clock: the two-level tick of main.cpp, and the RPCs of         *)
(* AsyncGrpcClient.cpp that keep it in step with the AI server.            *)
(*                                                                         *)
(* The main loop runs a frame every 50 ms.  Every TicksPerHour frames it   *)
(* asks the AI server to process the next game hour.  The answer comes     *)
(* back through the result queue and is only cached there; later in the    *)
(* same frame the hour begins: the clock advances, the cached relationship *)
(* deltas are applied, the hourly systems run and the jobs of the hour are *)
(* requested.  The AI server keeps a clock of its own (external).          *)
(*                                                                         *)
(* Time is counted in frames, 50 ms apart or more (GameLoop never catches  *)
(* up), so that an RPC which a frame issues is over when the frame         *)
(* Deadline frames later gets to the same point.  Left out: what the       *)
(* hourly systems do, the content of the jobs, and the systems that run in *)
(* every frame, which only read the clock.                                 *)
(***************************************************************************)
EXTENDS Naturals, Sequences, FiniteSets

CONSTANTS
  TicksPerHour,         \* ticks_per_game_hour: 200 frames
  Deadline,             \* the deadline of both RPCs: 5 s, 100 frames
  TicksPerDay,          \* 24
  MaxTick,              \* bound: the clock stops asking here
  MaxLost               \* bound: ProcessWorldTick calls that lose their callback

ASSUME TickAssumption ==
  /\ TicksPerHour \in Nat \ {0}
  /\ Deadline \in Nat \ {0}
  /\ TicksPerDay \in Nat \ {0}
  /\ MaxTick \in Nat /\ MaxLost \in Nat

VARIABLES
  frame,                \* physical_tick, modulo TicksPerHour
  phase,                \* how far the frame is
  tick,                 \* tick, the last game hour that has begun
  is_tick_sync_pending,
  tick_synced_ready,
  next_tick_val,
  temp_deltas,          \* temp_relationship_deltas: the hour they are of, or 0
  is_first_loop,
  rpcs,                 \* RPCs in flight, with their age in frames
  write_buffer,         \* result queue: pushed, not yet swapped
  read_buffer,          \* result queue: the tasks this frame still has to run
  lost,                 \* number of ProcessWorldTick calls that lost their callback
  server_tick,          \* external: the last hour the AI server has processed
  applied,              \* history: the hours whose deltas were applied, in order
  jobs_of,              \* history: the hour whose jobs came last, or 0
  energy_of             \* history: the hour of the last daily reset

clock == <<tick, next_tick_val, temp_deltas, is_first_loop, applied, energy_of>>
main == <<frame, phase, is_tick_sync_pending, tick_synced_ready, read_buffer, jobs_of>>
vars == <<clock, main, rpcs, write_buffer, lost, server_tick>>

Rpc == [kind : {"tick", "jobs"}, tick : 1 .. MaxTick, age : 0 .. Deadline]

Init ==
  /\ frame = 1 % TicksPerHour /\ phase = "drain"
  /\ tick = 0 /\ next_tick_val = 0 /\ temp_deltas = 0
  /\ is_tick_sync_pending = FALSE /\ tick_synced_ready = FALSE
  /\ is_first_loop = TRUE
  /\ rpcs = {} /\ write_buffer = <<>> /\ read_buffer = <<>> /\ lost = 0
  /\ server_tick = 0
  /\ applied = <<>> /\ jobs_of = 0 /\ energy_of = 0

-----------------------------------------------------------------------------
(* The gRPC thread and the AI server.                                      *)

\* The AI server processes the hour it is asked for; asking again is harmless.
Process(r) ==
  server_tick' = IF r.kind = "tick" THEN r.tick ELSE server_tick

\* The callback of an RPC pushes a task.  On failure, the deadline included,
\* the AI server may have processed the request or not.
Complete(r, ok) ==
  /\ r \in rpcs
  /\ rpcs' = rpcs \ {r}
  /\ write_buffer' = Append(write_buffer, [kind |-> r.kind, tick |-> r.tick, ok |-> ok])
  /\ Process(r) \/ (~ok /\ UNCHANGED server_tick)
  /\ UNCHANGED <<clock, main, lost>>

\* An exception in DoProcessWorldTick is logged, its callback dropped.
\* (DoGetPendingJobs answers with a failure instead.)
Lose(r) ==
  /\ r \in rpcs /\ r.kind = "tick"
  /\ lost < MaxLost
  /\ lost' = lost + 1
  /\ rpcs' = rpcs \ {r}
  /\ Process(r) \/ UNCHANGED server_tick
  /\ UNCHANGED <<clock, main, write_buffer>>

-----------------------------------------------------------------------------
(* The frame of the main thread.                                           *)

Issue(kind, t) == rpcs \cup {[kind |-> kind, tick |-> t, age |-> 0]}

\* GrpcResultQueue::Drain swaps the buffers.
StartDrain ==
  /\ phase = "drain"
  /\ phase' = "tasks"
  /\ read_buffer' = write_buffer
  /\ write_buffer' = <<>>
  /\ UNCHANGED <<clock, frame, is_tick_sync_pending, tick_synced_ready, jobs_of, rpcs, lost,
                 server_tick>>

NextTask(kind, ok) ==
  /\ phase = "tasks" /\ read_buffer # <<>>
  /\ Head(read_buffer).kind = kind /\ Head(read_buffer).ok = ok
  /\ read_buffer' = Tail(read_buffer)
  /\ UNCHANGED <<frame, phase, rpcs, write_buffer, lost, server_tick>>

\* The hour was processed: the answer is cached for the rest of the frame.
TickAnswered ==
  /\ NextTask("tick", TRUE)
  /\ is_tick_sync_pending' = FALSE
  /\ next_tick_val' = Head(read_buffer).tick
  /\ temp_deltas' = Head(read_buffer).tick
  /\ tick_synced_ready' = TRUE
  /\ UNCHANGED <<tick, is_first_loop, applied, energy_of, jobs_of>>

\* Broken variants: the hour begins without the AI server; nobody asks again.
TickFailedIgnored ==
  /\ NextTask("tick", FALSE)
  /\ is_tick_sync_pending' = FALSE
  /\ next_tick_val' = Head(read_buffer).tick
  /\ temp_deltas' = Head(read_buffer).tick
  /\ tick_synced_ready' = TRUE
  /\ UNCHANGED <<tick, is_first_loop, applied, energy_of, jobs_of>>
TickFailedForGood ==
  /\ NextTask("tick", FALSE)
  /\ UNCHANGED <<clock, is_tick_sync_pending, tick_synced_ready, jobs_of>>

\* It was not: the next logical period asks again.
TickFailed ==
  /\ NextTask("tick", FALSE)
  /\ is_tick_sync_pending' = FALSE
  /\ UNCHANGED <<clock, tick_synced_ready, jobs_of>>

\* The jobs replace those the NPCs have.
JobsAnswered ==
  /\ NextTask("jobs", TRUE)
  /\ jobs_of' = Head(read_buffer).tick
  /\ UNCHANGED <<clock, is_tick_sync_pending, tick_synced_ready>>

\* A failed request for jobs is not repeated: the hour goes without.
JobsFailed ==
  /\ NextTask("jobs", FALSE)
  /\ UNCHANGED <<clock, is_tick_sync_pending, tick_synced_ready, jobs_of>>

\* Broken variant: RPCs without a deadline.
TasksDoneAnyTime ==
  /\ phase = "tasks" /\ read_buffer = <<>>
  /\ phase' = "request"

\* The tasks have run, and no RPC is left whose deadline has passed.
TasksDone ==
  /\ phase = "tasks" /\ read_buffer = <<>>
  /\ \A r \in rpcs : r.age < Deadline
  /\ phase' = "request"

\* Broken variant: a load instead of the exchange.
PeekAnswer == tick_synced_ready /\ UNCHANGED tick_synced_ready

\* tick_synced_ready.exchange(false)
TakeAnswer == tick_synced_ready /\ tick_synced_ready' = FALSE

\* Broken variant: the hour that is over is tested, not the one that begins.
StartsDayLate(hour) == is_first_loop \/ tick % TicksPerDay = 0

StartsDay(hour) == is_first_loop \/ hour % TicksPerDay = 0

\* There is an answer: the hour begins.
NewHour ==
  /\ TasksDone
  /\ TakeAnswer
  /\ tick' = next_tick_val
  /\ applied' = Append(applied, temp_deltas)
  /\ energy_of' = IF StartsDay(tick') THEN tick' ELSE energy_of
  /\ is_first_loop' = FALSE
  /\ rpcs' = Issue("jobs", tick')
  /\ UNCHANGED <<next_tick_val, temp_deltas, frame, is_tick_sync_pending, read_buffer,
                 jobs_of, write_buffer, lost, server_tick>>

\* There is none: the frame goes on with the systems that run in every frame.
NoNewHour ==
  /\ TasksDone
  /\ ~tick_synced_ready
  /\ UNCHANGED <<clock, frame, is_tick_sync_pending, tick_synced_ready, read_buffer, jobs_of,
                 rpcs, write_buffer, lost, server_tick>>

\* Broken variant: the frame is not looked at.
AnyFrame == ~is_tick_sync_pending /\ tick < MaxTick

\* The next hour is due and no request is under way.
HourIsDue == frame = 0 /\ ~is_tick_sync_pending /\ tick < MaxTick

\* At the end of the frame the AI server is asked for the next hour.
RequestTick ==
  /\ phase = "request"
  /\ HourIsDue
  /\ is_tick_sync_pending' = TRUE
  /\ rpcs' = Issue("tick", tick + 1)
  /\ phase' = "sleep"
  /\ UNCHANGED <<clock, frame, tick_synced_ready, read_buffer, jobs_of, write_buffer, lost,
                 server_tick>>

NoRequest ==
  /\ phase = "request"
  /\ ~HourIsDue
  /\ phase' = "sleep"
  /\ UNCHANGED <<clock, frame, is_tick_sync_pending, tick_synced_ready, read_buffer, jobs_of,
                 rpcs, write_buffer, lost, server_tick>>

\* GameLoop::Run sleeps until the next frame is due.
NextFrame ==
  /\ phase = "sleep"
  /\ frame' = (frame + 1) % TicksPerHour
  /\ rpcs' = {[r EXCEPT !.age = @ + 1] : r \in rpcs}
  /\ phase' = "drain"
  /\ UNCHANGED <<clock, is_tick_sync_pending, tick_synced_ready, read_buffer, jobs_of,
                 write_buffer, lost, server_tick>>

-----------------------------------------------------------------------------

GrpcNext == \E r \in rpcs : Lose(r) \/ \E ok \in BOOLEAN : Complete(r, ok)

MainNext ==
  \/ StartDrain
  \/ TickAnswered \/ TickFailed \/ JobsAnswered \/ JobsFailed
  \/ NewHour \/ NoNewHour
  \/ RequestTick \/ NoRequest
  \/ NextFrame

Next == GrpcNext \/ MainNext

Spec == Init /\ [][Next]_vars

\* The loop runs on, an RPC is over by its deadline, and the AI server does not
\* fail a request for the same hour for ever.
Fairness ==
  /\ WF_vars(MainNext)
  /\ WF_vars(\E r \in rpcs, ok \in BOOLEAN : Complete(r, ok))
  /\ SF_vars(\E r \in rpcs : r.kind = "tick" /\ Complete(r, TRUE))

FairSpec == Spec /\ Fairness

-----------------------------------------------------------------------------

Task == [kind : {"tick", "jobs"}, tick : 1 .. MaxTick, ok : BOOLEAN]

TypeOK ==
  /\ frame \in 0 .. TicksPerHour - 1
  /\ phase \in {"drain", "tasks", "request", "sleep"}
  /\ tick \in 0 .. MaxTick /\ next_tick_val \in 0 .. MaxTick /\ temp_deltas \in 0 .. MaxTick
  /\ is_tick_sync_pending \in BOOLEAN /\ tick_synced_ready \in BOOLEAN
  /\ is_first_loop \in BOOLEAN
  /\ rpcs \subseteq Rpc
  /\ write_buffer \in Seq(Task) /\ read_buffer \in Seq(Task)
  /\ lost \in 0 .. MaxLost
  /\ server_tick \in 0 .. MaxTick
  /\ applied \in Seq(0 .. MaxTick)
  /\ jobs_of \in 0 .. MaxTick /\ energy_of \in 0 .. MaxTick

\* The two servers never drift apart: the AI server is at the hour of the game
\* or has just processed the next one, however many answers failed or came too
\* late and however often the same hour was asked for.
ClocksInStep == server_tick \in {tick, tick + 1}

\* Every hour begins exactly once and in order, and its relationship deltas are
\* applied exactly once, when it begins: no answer is overwritten in the cache
\* before it is used, none is used twice, and an hour asked for again counts once.
EveryHourOnce == Len(applied) = tick /\ \A h \in 1 .. tick : applied[h] = h

\* Energy and cooldowns are reset on every day: no failed or late answer makes
\* the clock jump over the hour that starts it.
DailyReset == energy_of >= tick - (tick % TicksPerDay)

\* The jobs of an hour never replace those of a later one.  It takes an
\* hour of at least two deadlines, for its answer and for its jobs; the code has
\* 200 frames and 100.
JobsInOrder == [][2 * Deadline <= TicksPerHour => jobs_of' >= jobs_of]_vars

\* The clock goes on: after a failed hour comes another attempt, and unless a
\* callback is dropped (which leaves is_tick_sync_pending set for good) every
\* hour comes in the end.
HoursPass ==
  \A h \in 0 .. MaxTick - 1 : tick = h ~> tick > h \/ lost > 0
=============================================================================
