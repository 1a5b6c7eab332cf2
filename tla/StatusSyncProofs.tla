-------------------------- MODULE StatusSyncProofs --------------------------
(***************************************************************************)
(* Proofs about the game clock (WorldTick) and the status synchronisation  *)
(* composed with it (StatusSync), for every length of the hour, deadline,  *)
(* number of hours, of dropped callbacks, of agents and of rows.           *)
(*                                                                         *)
(* The clock.  That the two servers are in step is not inductive: an       *)
(* answer in the queue could be of any hour.  The invariant adds what      *)
(* is_tick_sync_pending is for: at most one request or answer exists at    *)
(* any time, and it is of the hour that follows the current one.           *)
(*                                                                         *)
(* The deadlines.  An hour of two deadlines is long enough for all that    *)
(* its beginning sends to be over when the next one begins (AgeStep).      *)
(* That keeps the jobs of the hours in order, and a batch of rows alone.   *)
(*                                                                         *)
(* The rows.  The composition adds to each step of the clock what it means *)
(* for them and never keeps a step from its effect on the clock: every     *)
(* behaviour is one of WorldTick, whose theorems carry over.  For the note *)
(* of what was synchronised the invariant follows the answers on their     *)
(* way: the last of them about an agent says what the AI server has, and   *)
(* if there is none the note itself does (LastNoteIsKnown).                *)
(***************************************************************************)
EXTENDS StatusSync, SequenceTheorems, TLAPS

NoTick(q) == \A k \in DOMAIN q : q[k].kind # "tick"

OneTick(q) ==
  \A i, j \in DOMAIN q : q[i].kind = "tick" /\ q[j].kind = "tick" => i = j

TickRpcs == {r \in rpcs : r.kind = "tick"}

\* A request for an hour is in one place: in flight, pushed, or in the batch
\* of the frame; and only while is_tick_sync_pending says so.
OneRequest ==
  /\ \A r, s \in TickRpcs : r = s
  /\ OneTick(write_buffer) /\ OneTick(read_buffer)
  /\ TickRpcs # {} => NoTick(write_buffer) /\ NoTick(read_buffer)
  /\ ~NoTick(write_buffer) => NoTick(read_buffer)
  /\ ~is_tick_sync_pending =>
       TickRpcs = {} /\ NoTick(write_buffer) /\ NoTick(read_buffer)

\* An answer is of the next hour, and a good one means that the AI server has
\* processed it.
Fresh(q) ==
  \A k \in DOMAIN q : q[k].kind = "tick" =>
    q[k].tick = tick + 1 /\ (q[k].ok => server_tick = tick + 1)

NextHourOnly ==
  /\ \A r \in TickRpcs : r.tick = tick + 1
  /\ Fresh(write_buffer) /\ Fresh(read_buffer)

\* A cached answer is used before anything else can be asked.
CachedAnswer ==
  tick_synced_ready =>
    /\ phase = "tasks" /\ ~is_tick_sync_pending
    /\ next_tick_val = tick + 1 /\ temp_deltas = tick + 1 /\ server_tick = tick + 1

\* No RPC outlives its deadline.
InTime == phase \in {"request", "sleep"} => \A r \in rpcs : r.age < Deadline

Safe == ClocksInStep /\ EveryHourOnce

Inv ==
  TypeOK /\ InTime /\ OneRequest /\ NextHourOnly /\ CachedAnswer /\ Safe

-----------------------------------------------------------------------------

\* A task appended to a queue.
LEMMA AppendTask ==
  ASSUME NEW q \in Seq(Task), NEW t \in Task
  PROVE  /\ Append(q, t) \in Seq(Task)
         /\ NoTick(q) => OneTick(Append(q, t))
         /\ t.kind # "tick" =>
              /\ NoTick(q) => NoTick(Append(q, t))
              /\ OneTick(q) => OneTick(Append(q, t))
         /\ Fresh(q) /\ (t.kind = "tick" =>
                           t.tick = tick + 1 /\ (t.ok => server_tick = tick + 1))
              => Fresh(Append(q, t))
<1>1. /\ Append(q, t) \in Seq(Task)
      /\ DOMAIN Append(q, t) = 1 .. Len(q) + 1
      /\ DOMAIN q = 1 .. Len(q) /\ Len(q) \in Nat
      /\ \A k \in DOMAIN q : Append(q, t)[k] = q[k]
      /\ Append(q, t)[Len(q) + 1] = t
  OBVIOUS
<1>2. \A k \in DOMAIN Append(q, t) : k \in DOMAIN q \/ k = Len(q) + 1
  BY <1>1
<1>3. NoTick(q) => OneTick(Append(q, t))
  BY <1>1, <1>2 DEF NoTick, OneTick
<1>4. t.kind # "tick" => (NoTick(q) => NoTick(Append(q, t)))
  BY <1>1, <1>2 DEF NoTick
<1>5. t.kind # "tick" => (OneTick(q) => OneTick(Append(q, t)))
  BY <1>1, <1>2 DEF OneTick
<1>6. Fresh(q) /\ (t.kind = "tick" =>
                     t.tick = tick + 1 /\ (t.ok => server_tick = tick + 1))
        => Fresh(Append(q, t))
  BY <1>1, <1>2 DEF Fresh
<1>7. QED
  BY <1>1, <1>3, <1>4, <1>5, <1>6

\* The first task taken off a queue.
LEMMA TakeTask ==
  ASSUME NEW q \in Seq(Task), q # <<>>
  PROVE  /\ Head(q) \in Task /\ Tail(q) \in Seq(Task)
         /\ NoTick(q) => NoTick(Tail(q)) /\ Head(q).kind # "tick"
         /\ OneTick(q) => OneTick(Tail(q))
         /\ OneTick(q) /\ Head(q).kind = "tick" => NoTick(Tail(q))
         /\ Fresh(q) => Fresh(Tail(q))
         /\ Fresh(q) /\ Head(q).kind = "tick" =>
              Head(q).tick = tick + 1 /\ (Head(q).ok => server_tick = tick + 1)
<1>1. /\ Head(q) \in Task /\ Tail(q) \in Seq(Task)
      /\ Len(Tail(q)) = Len(q) - 1
      /\ \A k \in 1 .. Len(Tail(q)) : Tail(q)[k] = q[k + 1]
  BY HeadTailProperties
<1>2. /\ Len(q) \in Nat \ {0} /\ DOMAIN q = 1 .. Len(q) /\ Head(q) = q[1]
      /\ DOMAIN Tail(q) = 1 .. Len(q) - 1
  BY <1>1, EmptySeq, LenProperties
<1>3. /\ 1 \in DOMAIN q
      /\ \A k \in DOMAIN Tail(q) :
           k \in Nat \ {0} /\ k + 1 \in DOMAIN q /\ k + 1 # 1 /\ Tail(q)[k] = q[k + 1]
  BY <1>1, <1>2
<1>4. NoTick(q) => NoTick(Tail(q)) /\ Head(q).kind # "tick"
  BY <1>2, <1>3 DEF NoTick
<1>5. OneTick(q) => OneTick(Tail(q))
  BY <1>3 DEF OneTick
<1>6. OneTick(q) /\ Head(q).kind = "tick" => NoTick(Tail(q))
  BY <1>2, <1>3 DEF OneTick, NoTick
<1>7. Fresh(q) => Fresh(Tail(q))
  BY <1>3 DEF Fresh
<1>8. Fresh(q) /\ Head(q).kind = "tick" =>
        Head(q).tick = tick + 1 /\ (Head(q).ok => server_tick = tick + 1)
  BY <1>2, <1>3 DEF Fresh
<1>9. QED
  BY <1>1, <1>4, <1>5, <1>6, <1>7, <1>8

LEMMA ModuloRange ==
  ASSUME NEW a \in Nat, NEW b \in Nat \ {0}
  PROVE  a % b \in 0 .. b - 1
OBVIOUS

LEMMA SmallModulo ==
  ASSUME NEW a \in Nat, NEW b \in Nat \ {0}, a < b
  PROVE  a % b = a
OBVIOUS

LEMMA SelfModulo ==
  ASSUME NEW b \in Nat \ {0}
  PROVE  b % b = 0
OBVIOUS

\* Initially the clock stands at 0 and nothing is under way.
LEMMA InitInv == Init => Inv
<1> SUFFICES ASSUME Init
             PROVE  Inv
  OBVIOUS
<1>1. TypeOK
  <2>1. frame \in 0 .. TicksPerHour - 1
    BY ModuloRange, TickAssumption DEF Init
  <2>2. /\ write_buffer \in Seq(Task) /\ read_buffer \in Seq(Task)
        /\ applied \in Seq(0 .. MaxTick)
    BY EmptySeq DEF Init
  <2>3. /\ 0 \in 0 .. MaxTick /\ 0 \in 0 .. MaxLost
    BY TickAssumption
  <2>4. /\ tick \in 0 .. MaxTick /\ next_tick_val \in 0 .. MaxTick
        /\ temp_deltas \in 0 .. MaxTick /\ lost \in 0 .. MaxLost
        /\ server_tick \in 0 .. MaxTick /\ jobs_of \in 0 .. MaxTick
        /\ energy_of \in 0 .. MaxTick
    BY <2>3 DEF Init
  <2>5. /\ phase \in {"drain", "tasks", "request", "sleep"} /\ rpcs \subseteq Rpc
        /\ is_tick_sync_pending \in BOOLEAN /\ tick_synced_ready \in BOOLEAN
        /\ is_first_loop \in BOOLEAN
    BY DEF Init
  <2>6. QED
    BY <2>1, <2>2, <2>4, <2>5 DEF TypeOK
<1>2. NoTick(<<>>) /\ OneTick(<<>>) /\ Fresh(<<>>)
  BY DEF NoTick, OneTick, Fresh
<1>3. EveryHourOnce
  <2>1. tick = 0 /\ Len(applied) = 0
    BY EmptySeq DEF Init
  <2>2. QED
    BY <2>1 DEF EveryHourOnce
<1>4. QED
  BY <1>1, <1>2, <1>3
     DEF Init, Inv, InTime, OneRequest, NextHourOnly, TickRpcs, CachedAnswer, Safe,
         ClocksInStep

-----------------------------------------------------------------------------

\* An RPC ends; what it was asked for goes into the queue.
LEMMA CompleteInv ==
  ASSUME Inv, NEW r \in rpcs, NEW ok \in BOOLEAN, Complete(r, ok)
  PROVE  Inv'
<1> DEFINE t == [kind |-> r.kind, tick |-> r.tick, ok |-> ok]
<1>1. /\ r \in Rpc /\ t \in Task
      /\ rpcs' = rpcs \ {r} /\ write_buffer' = Append(write_buffer, t)
      /\ UNCHANGED <<clock, main, lost>>
  BY DEF Complete, Inv, TypeOK, Rpc, Task
<1>2. /\ t.kind = r.kind /\ t.tick = r.tick /\ t.ok = ok
      /\ r.kind \in {"tick", "jobs"} /\ r.tick \in 1 .. MaxTick
  BY <1>1 DEF Rpc
<1> HIDE DEF t
<1>3. /\ server_tick' \in 0 .. MaxTick
      /\ r.kind # "tick" => server_tick' = server_tick
      /\ r.kind = "tick" => server_tick' \in {server_tick, tick + 1} /\ r.tick = tick + 1
      /\ r.kind = "tick" /\ ok => server_tick' = tick + 1
  BY <1>1, <1>2 DEF Complete, Process, Inv, TypeOK, NextHourOnly, TickRpcs
<1>4. TypeOK'
  BY <1>1, <1>3, AppendTask DEF Inv, TypeOK, clock, main
<1>5. InTime'
  BY <1>1 DEF Inv, InTime, main
<1>6. TickRpcs' \subseteq TickRpcs /\ (r.kind = "tick" => TickRpcs' = {} /\ TickRpcs # {})
  BY <1>1 DEF Inv, OneRequest, TickRpcs
<1>7. OneRequest'
  BY <1>1, <1>2, <1>6, AppendTask DEF Inv, TypeOK, OneRequest, main, OneTick, NoTick
<1>8. Fresh(write_buffer)' /\ Fresh(read_buffer)'
  <2>1. CASE r.kind = "tick"
    <3>1. NoTick(write_buffer) /\ NoTick(read_buffer)
      BY <1>6, <2>1 DEF Inv, OneRequest
    <3>2. Fresh(read_buffer)'
      BY <1>1, <3>1 DEF Fresh, NoTick, main
    <3>3. Fresh(write_buffer)'
      <4>1. /\ DOMAIN write_buffer' = 1 .. Len(write_buffer) + 1
            /\ DOMAIN write_buffer = 1 .. Len(write_buffer) /\ Len(write_buffer) \in Nat
            /\ \A k \in DOMAIN write_buffer : write_buffer'[k] = write_buffer[k]
            /\ write_buffer'[Len(write_buffer) + 1] = t
        BY <1>1 DEF Inv, TypeOK
      <4>2. \A k \in DOMAIN write_buffer' :
              write_buffer'[k].kind = "tick" => write_buffer'[k] = t
        BY <3>1, <4>1 DEF NoTick
      <4>3. t.tick = tick' + 1 /\ (t.ok => server_tick' = tick' + 1)
        BY <1>1, <1>2, <1>3, <2>1 DEF clock
      <4>4. QED
        BY <4>2, <4>3 DEF Fresh
    <3>4. QED
      BY <3>2, <3>3
  <2>2. CASE r.kind # "tick"
    <3>1. Fresh(Append(write_buffer, t))
      BY <1>1, <1>2, <2>2, AppendTask DEF Inv, TypeOK, NextHourOnly
    <3>2. server_tick' = server_tick /\ tick' = tick
      BY <1>1, <1>3, <2>2 DEF clock
    <3>3. QED
      BY <1>1, <3>1, <3>2 DEF Inv, NextHourOnly, Fresh, main
  <2>3. QED
    BY <2>1, <2>2
<1>9. NextHourOnly'
  BY <1>1, <1>6, <1>8 DEF Inv, NextHourOnly, clock
<1>10. CachedAnswer'
  <2>1. tick_synced_ready => r.kind # "tick"
    BY <1>6 DEF Inv, CachedAnswer, OneRequest
  <2>2. QED
    BY <1>1, <1>3, <2>1 DEF Inv, CachedAnswer, clock, main
<1>11. Safe'
  BY <1>1, <1>3 DEF Inv, Safe, ClocksInStep, EveryHourOnce, clock
<1>12. QED
  BY <1>4, <1>5, <1>7, <1>9, <1>10, <1>11 DEF Inv

\* A callback is dropped: the request is nowhere any more, and pending for ever.
LEMMA LoseInv ==
  ASSUME Inv, NEW r \in rpcs, Lose(r)
  PROVE  Inv'
<1>1. /\ r \in Rpc /\ r.kind = "tick" /\ r.tick = tick + 1 /\ r.tick \in 1 .. MaxTick
      /\ rpcs' = rpcs \ {r} /\ lost' = lost + 1
      /\ UNCHANGED <<clock, main, write_buffer>>
      /\ TickRpcs' = {}
  BY DEF Lose, Inv, TypeOK, NextHourOnly, OneRequest, TickRpcs, Rpc
<1>2. /\ NoTick(write_buffer) /\ NoTick(read_buffer)
      /\ is_tick_sync_pending
      /\ server_tick' \in {server_tick, tick + 1}
  BY <1>1 DEF Lose, Process, Inv, OneRequest, TickRpcs
<1>3. TypeOK'
  BY <1>1, <1>2, TickAssumption DEF Lose, Inv, TypeOK, clock, main
<1>4. InTime' /\ OneRequest'
  BY <1>1, <1>2 DEF Inv, InTime, OneRequest, OneTick, NoTick, main
<1>5. NextHourOnly'
  BY <1>1, <1>2 DEF NextHourOnly, Fresh, NoTick, main
<1>6. CachedAnswer'
  BY <1>1, <1>2 DEF Inv, CachedAnswer, clock, main
<1>7. Safe'
  BY <1>1, <1>2 DEF Inv, Safe, ClocksInStep, EveryHourOnce, clock
<1>8. QED
  BY <1>3, <1>4, <1>5, <1>6, <1>7 DEF Inv

-----------------------------------------------------------------------------

\* The swap moves the pushed tasks into the batch of the frame, which is over.
LEMMA StartDrainInv ==
  ASSUME Inv, StartDrain
  PROVE  Inv'
<1>1. /\ phase = "drain" /\ phase' = "tasks"
      /\ read_buffer' = write_buffer /\ write_buffer' = <<>>
      /\ UNCHANGED <<clock, frame, is_tick_sync_pending, tick_synced_ready, jobs_of, rpcs,
                     lost, server_tick>>
  BY DEF StartDrain
<1>2. ~tick_synced_ready
  BY <1>1 DEF Inv, CachedAnswer
<1>3. TypeOK'
  BY <1>1, EmptySeq DEF Inv, TypeOK, clock
<1>4. NoTick(write_buffer)' /\ OneTick(write_buffer)' /\ Fresh(write_buffer)'
  BY <1>1 DEF NoTick, OneTick, Fresh
<1>5. /\ NoTick(read_buffer)' <=> NoTick(write_buffer)
      /\ OneTick(read_buffer)' <=> OneTick(write_buffer)
      /\ Fresh(read_buffer)' <=> Fresh(write_buffer)
  BY <1>1 DEF NoTick, OneTick, Fresh, clock
<1>6. OneRequest'
  BY <1>1, <1>4, <1>5 DEF Inv, OneRequest, TickRpcs
<1>7. NextHourOnly'
  BY <1>1, <1>4, <1>5 DEF Inv, NextHourOnly, TickRpcs, clock
<1>8. InTime' /\ CachedAnswer' /\ Safe'
  BY <1>1, <1>2
     DEF Inv, InTime, CachedAnswer, Safe, ClocksInStep, EveryHourOnce, clock
<1>9. QED
  BY <1>3, <1>6, <1>7, <1>8 DEF Inv

\* What every task has in common: one task less to run, and no hour begun.
LEMMA NextTaskFacts ==
  ASSUME Inv, NEW kind, NEW ok, NextTask(kind, ok), UNCHANGED tick
  PROVE  /\ phase = "tasks"
         /\ UNCHANGED <<frame, phase, rpcs, write_buffer, lost, server_tick>>
         /\ Head(read_buffer) \in Task /\ read_buffer' \in Seq(Task)
         /\ Head(read_buffer).kind = kind /\ Head(read_buffer).ok = ok
         /\ TickRpcs' = TickRpcs /\ InTime'
         /\ NextHourOnly'
         /\ NoTick(write_buffer)' <=> NoTick(write_buffer)
         /\ OneTick(write_buffer)' /\ OneTick(read_buffer)'
         /\ NoTick(read_buffer) => NoTick(read_buffer)'
         /\ kind = "tick" =>
              /\ TickRpcs = {} /\ NoTick(write_buffer) /\ NoTick(read_buffer)'
              /\ is_tick_sync_pending
              /\ Head(read_buffer).tick = tick + 1
              /\ ok => server_tick = tick + 1
<1> DEFINE h == Head(read_buffer)
<1>1. /\ phase = "tasks" /\ read_buffer # <<>>
      /\ h.kind = kind /\ h.ok = ok
      /\ read_buffer' = Tail(read_buffer)
      /\ UNCHANGED <<frame, phase, rpcs, write_buffer, lost, server_tick>>
  BY DEF NextTask
<1>2. read_buffer \in Seq(Task) /\ OneTick(read_buffer) /\ Fresh(read_buffer)
  BY DEF Inv, TypeOK, OneRequest, NextHourOnly
<1>3. /\ h \in Task /\ Tail(read_buffer) \in Seq(Task)
      /\ NoTick(read_buffer) => NoTick(Tail(read_buffer)) /\ h.kind # "tick"
      /\ OneTick(Tail(read_buffer))
      /\ h.kind = "tick" => NoTick(Tail(read_buffer))
      /\ Fresh(Tail(read_buffer))
      /\ h.kind = "tick" => h.tick = tick + 1 /\ (h.ok => server_tick = tick + 1)
  BY <1>1, <1>2, TakeTask
<1>4. TickRpcs' = TickRpcs /\ InTime'
  BY <1>1 DEF TickRpcs, Inv, InTime
<1>5. Fresh(write_buffer)' /\ Fresh(read_buffer)'
  BY <1>1, <1>3 DEF Inv, NextHourOnly, Fresh
<1>6. NextHourOnly'
  BY <1>4, <1>5 DEF Inv, NextHourOnly
<1>7. /\ NoTick(write_buffer)' <=> NoTick(write_buffer)
      /\ OneTick(write_buffer)' <=> OneTick(write_buffer)
      /\ NoTick(read_buffer)' <=> NoTick(Tail(read_buffer))
      /\ OneTick(read_buffer)' <=> OneTick(Tail(read_buffer))
  BY <1>1 DEF NoTick, OneTick
<1>8. kind = "tick" => TickRpcs = {} /\ NoTick(write_buffer) /\ is_tick_sync_pending
  BY <1>1, <1>3 DEF Inv, OneRequest
<1>9. OneTick(write_buffer)
  BY DEF Inv, OneRequest
<1>10. QED
  BY <1>1, <1>3, <1>4, <1>6, <1>7, <1>8, <1>9

\* The answer to the only request: it is cached, and nothing else can come.
LEMMA TickTaskInv ==
  ASSUME Inv, TickAnswered \/ TickFailed
  PROVE  Inv'
<1>1. /\ NextTask("tick", TRUE) \/ NextTask("tick", FALSE)
      /\ is_tick_sync_pending' = FALSE
      /\ UNCHANGED <<tick, is_first_loop, applied, energy_of, jobs_of>>
  BY DEF TickAnswered, TickFailed, clock
<1>2. /\ phase = "tasks"
      /\ UNCHANGED <<frame, phase, rpcs, write_buffer, lost, server_tick>>
      /\ Head(read_buffer) \in Task /\ read_buffer' \in Seq(Task)
      /\ TickRpcs' = TickRpcs /\ InTime' /\ NextHourOnly'
      /\ NoTick(write_buffer)' /\ NoTick(read_buffer)'
      /\ OneTick(write_buffer)' /\ OneTick(read_buffer)'
      /\ TickRpcs = {} /\ is_tick_sync_pending
      /\ Head(read_buffer).tick = tick + 1
  <2>1. CASE NextTask("tick", TRUE)
    BY <1>1, <2>1, NextTaskFacts
  <2>2. CASE NextTask("tick", FALSE)
    BY <1>1, <2>2, NextTaskFacts
  <2>3. QED
    BY <1>1, <2>1, <2>2
<1>3. Head(read_buffer).tick \in 1 .. MaxTick
  BY <1>2 DEF Task
<1>4. OneRequest'
  BY <1>1, <1>2 DEF OneRequest
<1>5. Safe'
  BY <1>1, <1>2 DEF Inv, Safe, ClocksInStep, EveryHourOnce
<1>6. ~tick_synced_ready
  BY <1>2 DEF Inv, CachedAnswer
<1>7. TypeOK' /\ CachedAnswer'
  <2>1. CASE TickAnswered
    <3>1. server_tick = tick + 1
      BY <1>1, <2>1, NextTaskFacts DEF TickAnswered
    <3>2. CachedAnswer'
      BY <1>1, <1>2, <2>1, <3>1 DEF TickAnswered, CachedAnswer
    <3>3. /\ next_tick_val' \in 0 .. MaxTick /\ temp_deltas' \in 0 .. MaxTick
          /\ tick_synced_ready' \in BOOLEAN
      BY <1>3, <2>1 DEF TickAnswered
    <3>4. TypeOK'
      BY <1>1, <1>2, <3>3 DEF Inv, TypeOK
    <3>5. QED
      BY <3>2, <3>4
  <2>2. CASE TickFailed
    <3>1. UNCHANGED <<clock, tick_synced_ready>>
      BY <2>2 DEF TickFailed
    <3>2. CachedAnswer'
      BY <1>6, <3>1 DEF CachedAnswer
    <3>3. TypeOK'
      BY <1>1, <1>2, <3>1 DEF Inv, TypeOK, clock
    <3>4. QED
      BY <3>2, <3>3
  <2>3. QED
    BY <2>1, <2>2
<1>8. QED
  BY <1>2, <1>4, <1>5, <1>7 DEF Inv

\* An answer with jobs does not concern the clock.
LEMMA JobsTaskInv ==
  ASSUME Inv, JobsAnswered \/ JobsFailed
  PROVE  Inv'
<1>1. /\ NextTask("jobs", TRUE) \/ NextTask("jobs", FALSE)
      /\ UNCHANGED <<clock, is_tick_sync_pending, tick_synced_ready>>
      /\ jobs_of' \in {jobs_of, Head(read_buffer).tick}
  BY DEF JobsAnswered, JobsFailed
<1>2. UNCHANGED <<tick, next_tick_val, temp_deltas, is_first_loop, applied, energy_of>>
  BY <1>1 DEF clock
<1>3. /\ phase = "tasks"
      /\ UNCHANGED <<frame, phase, rpcs, write_buffer, lost, server_tick>>
      /\ Head(read_buffer) \in Task /\ read_buffer' \in Seq(Task)
      /\ TickRpcs' = TickRpcs /\ InTime' /\ NextHourOnly'
      /\ NoTick(write_buffer)' <=> NoTick(write_buffer)
      /\ OneTick(write_buffer)' /\ OneTick(read_buffer)'
      /\ NoTick(read_buffer) => NoTick(read_buffer)'
  <2>1. CASE NextTask("jobs", TRUE)
    BY <1>2, <2>1, NextTaskFacts
  <2>2. CASE NextTask("jobs", FALSE)
    BY <1>2, <2>2, NextTaskFacts
  <2>3. QED
    BY <1>1, <2>1, <2>2
<1>4. OneRequest'
  BY <1>1, <1>3 DEF Inv, OneRequest
<1>5. CachedAnswer' /\ Safe'
  BY <1>1, <1>2, <1>3 DEF Inv, CachedAnswer, Safe, ClocksInStep, EveryHourOnce
<1>6. jobs_of' \in 0 .. MaxTick
  BY <1>1, <1>3 DEF Inv, TypeOK, Task
<1>7. TypeOK'
  BY <1>1, <1>2, <1>3, <1>6 DEF Inv, TypeOK
<1>8. QED
  BY <1>3, <1>4, <1>5, <1>7 DEF Inv

-----------------------------------------------------------------------------

\* The hour begins with the cached answer; only its jobs are asked for.
LEMMA NewHourInv ==
  ASSUME Inv, NewHour
  PROVE  Inv'
<1>1. /\ phase = "tasks" /\ phase' = "request" /\ tick_synced_ready
      /\ \A r \in rpcs : r.age < Deadline
      /\ tick_synced_ready' = FALSE /\ is_first_loop' = FALSE
      /\ tick' = next_tick_val
      /\ applied' = Append(applied, temp_deltas)
      /\ energy_of' \in {tick', energy_of}
      /\ rpcs' = rpcs \cup {[kind |-> "jobs", tick |-> tick', age |-> 0]}
      /\ UNCHANGED <<next_tick_val, temp_deltas, frame, is_tick_sync_pending, read_buffer,
                     jobs_of, write_buffer, lost, server_tick>>
  BY DEF NewHour, TasksDone, TakeAnswer, Issue
<1>2. /\ ~is_tick_sync_pending /\ next_tick_val = tick + 1 /\ temp_deltas = tick + 1
      /\ server_tick = tick + 1
      /\ TickRpcs = {} /\ NoTick(write_buffer) /\ NoTick(read_buffer)
  BY <1>1 DEF Inv, CachedAnswer, OneRequest
<1>3. tick' = tick + 1 /\ tick \in Nat /\ tick' \in 1 .. MaxTick /\ MaxTick \in Nat
  BY <1>1, <1>2, TickAssumption DEF Inv, TypeOK
<1>4. [kind |-> "jobs", tick |-> tick', age |-> 0] \in Rpc
  BY <1>3, TickAssumption DEF Rpc
<1>5. /\ applied' \in Seq(0 .. MaxTick) /\ Len(applied') = Len(applied) + 1
      /\ Len(applied) \in Nat
      /\ \A h \in 1 .. Len(applied) : applied'[h] = applied[h]
      /\ applied'[Len(applied) + 1] = temp_deltas
  BY <1>1 DEF Inv, TypeOK
<1>6. TypeOK'
  BY <1>1, <1>3, <1>4, <1>5 DEF Inv, TypeOK
<1>7. InTime'
  BY <1>1, TickAssumption DEF InTime
<1>8. TickRpcs' = {}
  BY <1>1, <1>2 DEF TickRpcs
<1>9. NoTick(write_buffer)' /\ NoTick(read_buffer)'
  BY <1>1, <1>2 DEF NoTick
<1>10. OneRequest'
  BY <1>1, <1>8, <1>9 DEF Inv, OneRequest, OneTick
<1>11. NextHourOnly'
  BY <1>8, <1>9 DEF NextHourOnly, Fresh, NoTick
<1>12. CachedAnswer'
  BY <1>1 DEF CachedAnswer
<1>13. Safe'
  <2>1. ClocksInStep'
    BY <1>1, <1>2, <1>3 DEF ClocksInStep
  <2>2. Len(applied) = tick /\ \A h \in 1 .. tick : applied[h] = h
    BY DEF Inv, Safe, EveryHourOnce
  <2>3. EveryHourOnce'
    BY <1>2, <1>3, <1>5, <2>2 DEF EveryHourOnce
  <2>4. QED
    BY <2>1, <2>3 DEF Safe
<1>14. QED
  BY <1>6, <1>7, <1>10, <1>11, <1>12, <1>13 DEF Inv

\* The request for the next hour is the only one.
LEMMA RequestTickInv ==
  ASSUME Inv, RequestTick
  PROVE  Inv'
<1>1. /\ phase = "request" /\ phase' = "sleep"
      /\ ~is_tick_sync_pending /\ is_tick_sync_pending' = TRUE /\ tick < MaxTick
      /\ rpcs' = rpcs \cup {[kind |-> "tick", tick |-> tick + 1, age |-> 0]}
      /\ UNCHANGED <<tick, next_tick_val, temp_deltas, is_first_loop, applied, energy_of,
                     frame, tick_synced_ready, read_buffer, jobs_of, write_buffer, lost,
                     server_tick>>
  BY DEF RequestTick, HourIsDue, Issue, clock
<1>2. TickRpcs = {} /\ NoTick(write_buffer) /\ NoTick(read_buffer)
  BY <1>1 DEF Inv, OneRequest
<1>3. TickRpcs' = {[kind |-> "tick", tick |-> tick + 1, age |-> 0]}
  BY <1>1, <1>2 DEF TickRpcs
<1>4. NoTick(write_buffer)' /\ NoTick(read_buffer)'
  BY <1>1, <1>2 DEF NoTick
<1>5. [kind |-> "tick", tick |-> tick + 1, age |-> 0] \in Rpc
  BY <1>1, TickAssumption DEF Rpc, Inv, TypeOK
<1>6. TypeOK'
  BY <1>1, <1>5 DEF Inv, TypeOK
<1>7. InTime'
  BY <1>1, TickAssumption DEF Inv, InTime
<1>8. OneRequest'
  BY <1>1, <1>3, <1>4 DEF OneRequest, OneTick, NoTick
<1>9. NextHourOnly'
  BY <1>1, <1>3, <1>4 DEF NextHourOnly, Fresh, NoTick
<1>10. CachedAnswer' /\ Safe'
  BY <1>1 DEF Inv, CachedAnswer, Safe, ClocksInStep, EveryHourOnce
<1>11. QED
  BY <1>6, <1>7, <1>8, <1>9, <1>10 DEF Inv

\* The steps that only move the frame along.
LEMMA IdleInv ==
  ASSUME Inv, NoNewHour \/ NoRequest \/ UNCHANGED vars
  PROVE  Inv'
<1>1. /\ UNCHANGED <<tick, next_tick_val, temp_deltas, is_first_loop, applied, energy_of,
                     frame, is_tick_sync_pending, tick_synced_ready, read_buffer, jobs_of,
                     rpcs, write_buffer, lost, server_tick>>
      /\ \/ phase' = phase
         \/ ~tick_synced_ready /\ phase' = "request" /\ \A r \in rpcs : r.age < Deadline
         \/ phase = "request" /\ phase' = "sleep"
  BY DEF NoNewHour, TasksDone, NoRequest, vars, main, clock
<1>2. TypeOK' /\ InTime'
  BY <1>1 DEF Inv, TypeOK, InTime
<1>3. OneRequest' /\ NextHourOnly'
  BY <1>1 DEF Inv, OneRequest, NextHourOnly, OneTick, NoTick, Fresh, TickRpcs
<1>4. CachedAnswer' /\ Safe'
  BY <1>1 DEF Inv, CachedAnswer, Safe, ClocksInStep, EveryHourOnce
<1>5. QED
  BY <1>2, <1>3, <1>4 DEF Inv

\* The next frame: every RPC is one frame older.
LEMMA NextFrameInv ==
  ASSUME Inv, NextFrame
  PROVE  Inv'
<1> DEFINE older(r) == [r EXCEPT !.age = @ + 1]
<1>1. /\ phase = "sleep" /\ phase' = "drain"
      /\ frame' = (frame + 1) % TicksPerHour
      /\ rpcs' = {older(r) : r \in rpcs}
      /\ UNCHANGED <<clock, is_tick_sync_pending, tick_synced_ready, read_buffer, jobs_of,
                     write_buffer, lost, server_tick>>
  BY DEF NextFrame
<1>2. frame' \in 0 .. TicksPerHour - 1
  <2>1. frame + 1 \in Nat
    BY TickAssumption DEF Inv, TypeOK
  <2>2. QED
    BY <1>1, <2>1, ModuloRange, TickAssumption
<1>3. ASSUME NEW r \in rpcs
      PROVE  older(r) \in Rpc /\ older(r).kind = r.kind /\ older(r).tick = r.tick
  <2>1. r \in Rpc /\ r.age < Deadline
    BY <1>1 DEF Inv, TypeOK, InTime
  <2>2. r.age + 1 \in 0 .. Deadline
    BY <2>1, TickAssumption DEF Rpc
  <2>3. QED
    BY <2>1, <2>2 DEF Rpc
<1> HIDE DEF older
<1>4. rpcs' \subseteq Rpc
  BY <1>1, <1>3
<1>5. TypeOK'
  <2> HIDE <1>1
  <2>1. UNCHANGED <<tick, next_tick_val, temp_deltas, is_first_loop, applied, energy_of,
                    is_tick_sync_pending, tick_synced_ready, read_buffer, jobs_of,
                    write_buffer, lost, server_tick>>
    BY <1>1 DEF clock
  <2>2. phase' = "drain"
    BY <1>1
  <2>3. QED
    BY <1>2, <1>4, <2>1, <2>2 DEF Inv, TypeOK
<1>6. InTime'
  BY <1>1 DEF InTime
<1>7. ASSUME NEW q \in TickRpcs'
      PROVE  \E r \in TickRpcs : q = older(r) /\ q.tick = r.tick
  BY <1>1, <1>3 DEF TickRpcs
<1>8. OneRequest'
  <2>1. \A r, s \in TickRpcs : r = s
    BY DEF Inv, OneRequest
  <2>2. \A r, s \in TickRpcs' : r = s
    BY <1>7, <2>1
  <2>3. TickRpcs' # {} => TickRpcs # {}
    BY <1>7
  <2>4. /\ NoTick(write_buffer)' <=> NoTick(write_buffer)
        /\ NoTick(read_buffer)' <=> NoTick(read_buffer)
        /\ OneTick(write_buffer)' <=> OneTick(write_buffer)
        /\ OneTick(read_buffer)' <=> OneTick(read_buffer)
    BY <1>1 DEF NoTick, OneTick
  <2>5. is_tick_sync_pending' = is_tick_sync_pending
    BY <1>1
  <2>6. QED
    BY <2>2, <2>3, <2>4, <2>5 DEF Inv, OneRequest
<1>9. NextHourOnly'
  <2>1. \A r \in TickRpcs : r.tick = tick + 1
    BY DEF Inv, NextHourOnly
  <2>2. tick' = tick /\ (Fresh(write_buffer)' <=> Fresh(write_buffer))
        /\ (Fresh(read_buffer)' <=> Fresh(read_buffer))
    BY <1>1 DEF clock, Fresh
  <2>3. QED
    BY <1>7, <2>1, <2>2 DEF Inv, NextHourOnly
<1>10. ~tick_synced_ready
  BY <1>1 DEF Inv, CachedAnswer
<1>11. CachedAnswer' /\ Safe'
  BY <1>1, <1>10 DEF Inv, CachedAnswer, Safe, ClocksInStep, EveryHourOnce, clock
<1>12. QED
  BY <1>5, <1>6, <1>8, <1>9, <1>11 DEF Inv

-----------------------------------------------------------------------------

\* The inductive invariant holds in every reachable state.
THEOREM TickInvariant == Spec => []Inv
<1>1. Inv /\ [Next]_vars => Inv'
  <2> SUFFICES ASSUME Inv, [Next]_vars
               PROVE  Inv'
    OBVIOUS
  <2>1. CASE GrpcNext
    BY <2>1, CompleteInv, LoseInv DEF GrpcNext
  <2>2. CASE MainNext
    BY <2>2, StartDrainInv, TickTaskInv, JobsTaskInv, NewHourInv, RequestTickInv, IdleInv,
       NextFrameInv
       DEF MainNext
  <2>3. CASE UNCHANGED vars
    BY <2>3, IdleInv
  <2>4. QED
    BY <2>1, <2>2, <2>3 DEF Next
<1>2. QED
  BY InitInv, <1>1, PTL DEF Spec

\* The state keeps its types, and the clock stays within its bound.
THEOREM TickTypeCorrect == Spec => []TypeOK
<1>1. Inv => TypeOK
  BY DEF Inv
<1>2. QED
  BY <1>1, TickInvariant, PTL

\* However requests fail, run out of time or are repeated, the AI server is at
\* the hour of the game or has just processed the next one.
THEOREM ClocksStayInStep == Spec => []ClocksInStep
<1>1. Inv => ClocksInStep
  BY DEF Inv, Safe
<1>2. QED
  BY <1>1, TickInvariant, PTL

\* Every hour begins exactly once, in order, with its own relationship deltas.
THEOREM HoursBeginOnce == Spec => []EveryHourOnce
<1>1. Inv => EveryHourOnce
  BY DEF Inv, Safe
<1>2. QED
  BY <1>1, TickInvariant, PTL

\* An hour that starts no day belongs to the day of the hour before.
LEMMA SameDay ==
  ASSUME NEW t \in Nat, NEW d \in Nat \ {0}, (t + 1) % d # 0
  PROVE  (t + 1) - ((t + 1) % d) = t - (t % d)
<1> DEFINE q == t \div d
           r == t % d
           p == (t + 1) \div d
           s == (t + 1) % d
<1>1. t = d * q + r /\ r \in 0 .. d - 1 /\ q \in Int
  BY Z3
<1>2. t + 1 = d * p + s /\ s \in 1 .. d - 1 /\ p \in Int
  BY Z3
<1> HIDE DEF q, r, p, s
<1>3. d * (p - q) = r + 1 - s
  BY <1>1, <1>2, Z3
<1>4. r + 1 - s > -d /\ r + 1 - s < d
  BY <1>1, <1>2
<1>5. p - q < 1
  BY <1>1, <1>2, <1>3, <1>4, Z3
<1>6. p - q > -1
  BY <1>1, <1>2, <1>3, <1>4, Z3
<1>7. p = q
  BY <1>1, <1>2, <1>5, <1>6
<1>8. (t + 1) - s = t - r
  BY <1>1, <1>2, <1>7
<1> QED
  BY <1>8 DEF r, s

\* Every day is reset: a failed, repeated or late answer never makes the clock jump
\* over the hour that starts it.
THEOREM EveryDayIsReset == Spec => []DailyReset
<1>1. Init => DailyReset
  <2> SUFFICES ASSUME Init PROVE DailyReset
    OBVIOUS
  <2>1. 0 % TicksPerDay \in 0 .. TicksPerDay - 1
    BY TickAssumption, ModuloRange
  <2> QED
    BY <2>1, TickAssumption DEF Init, DailyReset
<1>2. Inv /\ DailyReset /\ [Next]_vars => DailyReset'
  <2> SUFFICES ASSUME Inv, DailyReset, [Next]_vars
               PROVE  DailyReset'
    OBVIOUS
  <2>1. CASE NewHour
    <3>1. tick \in Nat /\ energy_of \in Nat /\ tick' = tick + 1
      BY <2>1, TickAssumption
         DEF Inv, TypeOK, CachedAnswer, NewHour, TakeAnswer
    <3>2. CASE StartsDay(tick')
      <4>1. energy_of' = tick'
        BY <2>1, <3>2 DEF NewHour
      <4>2. tick' % TicksPerDay \in 0 .. TicksPerDay - 1
        BY <3>1, TickAssumption, ModuloRange
      <4> QED
        BY <3>1, <4>1, <4>2, TickAssumption DEF DailyReset
    <3>3. CASE ~StartsDay(tick')
      <4>1. energy_of' = energy_of /\ (tick + 1) % TicksPerDay # 0
        BY <2>1, <3>1, <3>3 DEF NewHour, StartsDay
      <4>2. (tick + 1) - ((tick + 1) % TicksPerDay) = tick - (tick % TicksPerDay)
        BY <3>1, <4>1, TickAssumption, SameDay
      <4> QED
        BY <3>1, <4>1, <4>2 DEF DailyReset
    <3> QED
      BY <3>2, <3>3
  <2>2. CASE UNCHANGED <<tick, energy_of>>
    BY <2>2 DEF DailyReset
  <2> QED
    BY <2>1, <2>2
       DEF Next, GrpcNext, MainNext, vars, clock, Complete, Lose, StartDrain, TickAnswered,
           TickFailed, JobsAnswered, JobsFailed, NoNewHour, RequestTick, NoRequest, NextFrame
<1> QED
  BY <1>1, <1>2, TickInvariant, PTL DEF Spec

-----------------------------------------------------------------------------
(* When an hour begins, everything the hour before asked for is over: an   *)
(* hour begins at most Deadline + 1 frames after its request, the next one *)
(* is requested no sooner than TicksPerHour frames after that request, and *)
(* whatever was sent when the hour began has aged past its deadline then.  *)

\* Frames since an hour was last due.
SinceDue == IF frame = 0 /\ phase # "sleep" THEN TicksPerHour ELSE frame

\* The next hour has been asked for, and has not begun.
Asked ==
  \/ TickRpcs # {} \/ ~NoTick(write_buffer) \/ ~NoTick(read_buffer) \/ tick_synced_ready

\* Frames since the request for the hour that has begun last was due, at least.
SinceRequest == SinceDue + (IF Asked THEN TicksPerHour ELSE 0)

\* The request and its answer come within their deadline.
AskedInTime ==
  /\ phase # "tasks" => read_buffer = <<>>
  /\ \A r \in TickRpcs : r.age = SinceDue
  /\ ~NoTick(write_buffer) =>
       SinceDue <= Deadline \/ (phase = "drain" /\ SinceDue <= Deadline + 1)
  /\ ~NoTick(read_buffer) \/ tick_synced_ready => SinceDue <= Deadline + 1

\* What a set of RPCs was sent for began no later than an hour does.
OfLastHour(S) == \A x \in S : x.age + Deadline + 1 >= SinceRequest

LEMMA SinceDueType ==
  ASSUME Inv
  PROVE  SinceDue \in 0 .. TicksPerHour /\ (phase # "sleep" => SinceDue >= 1)
BY TickAssumption DEF Inv, TypeOK, SinceDue

\* SinceRequest moves on with the frames only, and starts again with the hour.
LEMMA AskedStep ==
  ASSUME 2 * Deadline <= TicksPerHour, Inv, AskedInTime, [Next]_vars
  PROVE  /\ AskedInTime'
         /\ NextFrame => SinceRequest' = SinceRequest + 1
         /\ ~NextFrame => SinceRequest' <= SinceRequest
         /\ NewHour => SinceRequest >= TicksPerHour + 1 /\ SinceRequest' <= Deadline + 1
<1>1. /\ TicksPerHour \in Nat \ {0} /\ Deadline \in Nat \ {0} /\ Deadline < TicksPerHour
      /\ SinceDue \in Nat /\ SinceDue <= TicksPerHour
      /\ frame \in 0 .. TicksPerHour - 1
  BY TickAssumption, SinceDueType DEF Inv, TypeOK
<1>2. /\ \A r \in TickRpcs : r \in rpcs /\ r.age \in 0 .. Deadline
      /\ phase \in {"request", "sleep"} => \A r \in TickRpcs : r.age < Deadline
      /\ \A r, s \in TickRpcs : r = s
  BY DEF Inv, TypeOK, Rpc, TickRpcs, InTime, OneRequest
<1>3. tick_synced_ready =>
        phase = "tasks" /\ TickRpcs = {} /\ NoTick(write_buffer) /\ NoTick(read_buffer)
  BY DEF Inv, CachedAnswer, OneRequest
<1>4. NoTick(<<>>)
  BY DEF NoTick
<1>5. ASSUME UNCHANGED <<frame, phase>>, phase # "tasks" => read_buffer' = read_buffer,
             TickRpcs' \subseteq TickRpcs,
             NoTick(write_buffer)' \/ ~NoTick(write_buffer) \/ TickRpcs # {},
             NoTick(read_buffer)' \/ ~NoTick(read_buffer),
             tick_synced_ready' => tick_synced_ready \/ ~NoTick(read_buffer)
      PROVE  AskedInTime' /\ SinceRequest' <= SinceRequest
  <2>1. SinceDue' = SinceDue
    BY <1>5 DEF SinceDue
  <2>2. Asked' => Asked
    BY <1>5 DEF Asked
  <2>3. SinceRequest' <= SinceRequest
    BY <1>1, <2>1, <2>2 DEF SinceRequest
  <2>4. TickRpcs # {} => SinceDue <= Deadline
    BY <1>2 DEF AskedInTime
  <2>5. AskedInTime'
    BY <1>1, <1>5, <2>1, <2>4 DEF AskedInTime
  <2>6. QED
    BY <2>3, <2>5
<1>6. CASE GrpcNext
  <2>1. /\ UNCHANGED <<frame, phase, read_buffer, tick_synced_ready>>
        /\ TickRpcs' \subseteq TickRpcs
    BY <1>6 DEF GrpcNext, Complete, Lose, main, TickRpcs
  <2>2. ASSUME NEW r \in rpcs, NEW ok \in BOOLEAN, Complete(r, ok)
        PROVE  NoTick(write_buffer)' \/ ~NoTick(write_buffer) \/ TickRpcs # {}
    <3>1. [kind |-> r.kind, tick |-> r.tick, ok |-> ok] \in Task
      BY DEF Inv, TypeOK, Rpc, Task
    <3>2. CASE r.kind = "tick"
      BY <3>2 DEF TickRpcs
    <3>3. CASE r.kind # "tick"
      <4>1. write_buffer' = Append(write_buffer, [kind |-> r.kind, tick |-> r.tick, ok |-> ok])
        BY <2>2 DEF Complete
      <4>2. NoTick(write_buffer) => NoTick(write_buffer')
        BY <3>1, <3>3, <4>1, AppendTask DEF Inv, TypeOK
      <4>3. QED
        BY <4>2 DEF NoTick
    <3>4. QED
      BY <3>2, <3>3
  <2>3. ASSUME NEW r \in rpcs, Lose(r)
        PROVE  NoTick(write_buffer)' \/ ~NoTick(write_buffer)
    BY <2>3 DEF Lose, NoTick
  <2>4. NoTick(read_buffer)' <=> NoTick(read_buffer)
    BY <2>1 DEF NoTick
  <2>5. NoTick(write_buffer)' \/ ~NoTick(write_buffer) \/ TickRpcs # {}
    BY <1>6, <2>2, <2>3 DEF GrpcNext
  <2>6. ~NextFrame /\ ~NewHour
    BY <2>1 DEF NextFrame, NewHour, TasksDone
  <2>7. QED
    BY <1>5, <2>1, <2>4, <2>5, <2>6
<1>7. CASE TickAnswered \/ TickFailed \/ JobsAnswered \/ JobsFailed
  <2>1. PICK kind \in {"tick", "jobs"}, ok \in BOOLEAN : NextTask(kind, ok)
    BY <1>7 DEF TickAnswered, TickFailed, JobsAnswered, JobsFailed
  <2>2. /\ phase = "tasks" /\ UNCHANGED <<tick, frame, phase, rpcs, write_buffer>>
        /\ TickRpcs' = TickRpcs /\ read_buffer # <<>> /\ Head(read_buffer).kind = kind
        /\ NoTick(write_buffer)' <=> NoTick(write_buffer)
        /\ NoTick(read_buffer) => NoTick(read_buffer)'
    <3>1. UNCHANGED tick
      BY <1>7 DEF TickAnswered, TickFailed, JobsAnswered, JobsFailed, clock
    <3>2. QED
      BY <2>1, <3>1, NextTaskFacts DEF NextTask
  <2>3. tick_synced_ready' => tick_synced_ready \/ ~NoTick(read_buffer)
    <3>1. TickAnswered => Head(read_buffer).kind = "tick"
      BY DEF TickAnswered, NextTask
    <3>2. NoTick(read_buffer) => Head(read_buffer).kind # "tick"
      BY <2>2, TakeTask DEF Inv, TypeOK
    <3>3. QED
      BY <1>7, <3>1, <3>2 DEF TickFailed, JobsAnswered, JobsFailed
  <2>4. ~NextFrame /\ ~NewHour
    BY <2>2 DEF NextFrame, NewHour, TasksDone
  <2>5. QED
    BY <1>5, <2>2, <2>3, <2>4
<1>8. CASE StartDrain
  <2>1. /\ phase = "drain" /\ phase' = "tasks"
        /\ read_buffer' = write_buffer /\ write_buffer' = <<>>
        /\ UNCHANGED <<frame, tick_synced_ready, rpcs>>
    BY <1>8 DEF StartDrain
  <2>2. SinceDue' = SinceDue /\ TickRpcs' = TickRpcs
    BY <2>1 DEF SinceDue, TickRpcs
  <2>3. NoTick(write_buffer)' /\ (NoTick(read_buffer)' <=> NoTick(write_buffer))
    BY <2>1 DEF NoTick
  <2>4. AskedInTime'
    BY <1>1, <1>3, <2>1, <2>2, <2>3 DEF AskedInTime
  <2>5. Asked' => Asked
    BY <2>1, <2>2, <2>3 DEF Asked
  <2>6. ~NextFrame /\ ~NewHour
    BY <2>1 DEF NextFrame, NewHour, TasksDone
  <2>7. QED
    BY <1>1, <2>2, <2>4, <2>5, <2>6 DEF SinceRequest
<1>9. CASE NewHour
  <2>1. /\ phase = "tasks" /\ phase' = "request" /\ read_buffer = <<>>
        /\ tick_synced_ready /\ ~tick_synced_ready'
        /\ UNCHANGED <<frame, read_buffer, write_buffer>>
        /\ rpcs' = rpcs \cup {[kind |-> "jobs", tick |-> tick', age |-> 0]}
    BY <1>9 DEF NewHour, TasksDone, TakeAnswer, Issue
  <2>2. SinceDue' = SinceDue /\ SinceDue >= 1 /\ SinceDue <= Deadline + 1
    BY <2>1, SinceDueType DEF SinceDue, AskedInTime
  <2>3. TickRpcs' = {} /\ NoTick(write_buffer)' /\ NoTick(read_buffer)'
    BY <1>3, <2>1 DEF TickRpcs, NoTick
  <2>4. Asked /\ ~Asked'
    BY <2>1, <2>3 DEF Asked
  <2>5. AskedInTime'
    BY <2>1, <2>3 DEF AskedInTime
  <2>6. ~NextFrame
    BY <2>1 DEF NextFrame
  <2>7. QED
    BY <1>1, <2>2, <2>4, <2>5, <2>6 DEF SinceRequest
<1>10. CASE NoNewHour
  <2>1. /\ phase = "tasks" /\ phase' = "request" /\ read_buffer = <<>>
        /\ ~tick_synced_ready
        /\ UNCHANGED <<frame, read_buffer, write_buffer, rpcs, tick_synced_ready>>
    BY <1>10 DEF NoNewHour, TasksDone
  <2>2. SinceDue' = SinceDue /\ TickRpcs' = TickRpcs
    BY <2>1 DEF SinceDue, TickRpcs
  <2>3. /\ NoTick(write_buffer)' <=> NoTick(write_buffer)
        /\ NoTick(read_buffer)' <=> NoTick(read_buffer)
    BY <2>1 DEF NoTick
  <2>4. AskedInTime'
    BY <2>1, <2>2, <2>3 DEF AskedInTime
  <2>5. Asked' => Asked
    BY <2>1, <2>2, <2>3 DEF Asked
  <2>6. ~NextFrame /\ ~NewHour
    BY <2>1 DEF NextFrame, NewHour, TakeAnswer
  <2>7. QED
    BY <1>1, <2>2, <2>4, <2>5, <2>6 DEF SinceRequest
<1>11. CASE RequestTick
  <2>1. /\ phase = "request" /\ phase' = "sleep" /\ frame = 0 /\ ~is_tick_sync_pending
        /\ UNCHANGED <<frame, read_buffer, write_buffer, tick_synced_ready>>
        /\ rpcs' = rpcs \cup {[kind |-> "tick", tick |-> tick + 1, age |-> 0]}
    BY <1>11 DEF RequestTick, HourIsDue, Issue
  <2>2. TickRpcs = {} /\ NoTick(write_buffer) /\ NoTick(read_buffer)
    BY <2>1 DEF Inv, OneRequest
  <2>3. /\ TickRpcs' = {[kind |-> "tick", tick |-> tick + 1, age |-> 0]}
        /\ NoTick(write_buffer)' /\ NoTick(read_buffer)' /\ ~tick_synced_ready'
    BY <1>3, <2>1, <2>2 DEF TickRpcs, NoTick
  <2>4. SinceDue = TicksPerHour /\ SinceDue' = 0
    BY <2>1 DEF SinceDue
  <2>5. AskedInTime'
    BY <2>1, <2>3, <2>4 DEF AskedInTime
  <2>6. ~NextFrame /\ ~NewHour
    BY <2>1 DEF NextFrame, NewHour, TasksDone
  <2>7. QED
    BY <1>1, <2>4, <2>5, <2>6 DEF SinceRequest
<1>12. CASE NoRequest
  <2>1. /\ phase = "request" /\ phase' = "sleep"
        /\ UNCHANGED <<frame, read_buffer, write_buffer, rpcs, tick_synced_ready>>
    BY <1>12 DEF NoRequest
  <2>2. /\ TickRpcs' = TickRpcs
        /\ NoTick(write_buffer)' <=> NoTick(write_buffer)
        /\ NoTick(read_buffer)' <=> NoTick(read_buffer)
    BY <2>1 DEF TickRpcs, NoTick
  <2>3. Asked' <=> Asked
    BY <2>1, <2>2 DEF Asked
  <2>4. ~NextFrame /\ ~NewHour
    BY <2>1 DEF NextFrame, NewHour, TasksDone
  <2>5. SinceDue' = frame /\ SinceDue' <= SinceDue
    BY <1>1, <2>1 DEF SinceDue
  <2>6. /\ TickRpcs # {} => SinceDue < Deadline
        /\ ~NoTick(write_buffer) => SinceDue <= Deadline
        /\ NoTick(read_buffer) /\ ~tick_synced_ready
    BY <1>2, <1>3, <1>4, <2>1 DEF AskedInTime
  <2>7. frame = 0 => SinceDue = TicksPerHour
    BY <2>1 DEF SinceDue
  <2>8. frame # 0 => SinceDue' = SinceDue
    BY <2>1 DEF SinceDue
  <2>9. AskedInTime'
    BY <1>1, <1>2, <2>1, <2>2, <2>5, <2>6, <2>7, <2>8 DEF AskedInTime
  <2>10. QED
    BY <1>1, <2>3, <2>4, <2>5, <2>9 DEF SinceRequest
<1>13. CASE NextFrame
  <2>1. /\ phase = "sleep" /\ phase' = "drain" /\ frame' = (frame + 1) % TicksPerHour
        /\ rpcs' = {[r EXCEPT !.age = @ + 1] : r \in rpcs}
        /\ UNCHANGED <<read_buffer, write_buffer, tick_synced_ready>>
    BY <1>13 DEF NextFrame
  <2>2. SinceDue = frame /\ SinceDue' = SinceDue + 1
    <3>1. ASSUME frame + 1 < TicksPerHour
          PROVE  frame' = frame + 1
      <4>1. frame + 1 \in Nat /\ TicksPerHour \in Nat \ {0}
        BY <1>1
      <4>2. (frame + 1) % TicksPerHour = frame + 1
        BY <3>1, <4>1, SmallModulo
      <4>3. QED
        BY <2>1, <4>2
    <3>2. frame + 1 = TicksPerHour => frame' = 0
      BY <1>1, <2>1, SelfModulo
    <3>3. QED
      BY <1>1, <2>1, <3>1, <3>2 DEF SinceDue
  <2>3. ASSUME NEW q \in TickRpcs'
        PROVE  \E r \in TickRpcs : q.age = r.age + 1
    <3>1. PICK r \in rpcs : q = [r EXCEPT !.age = @ + 1]
      BY <2>1 DEF TickRpcs
    <3>2. r \in Rpc
      BY DEF Inv, TypeOK
    <3>3. q.kind = r.kind /\ q.age = r.age + 1
      BY <3>1, <3>2 DEF Rpc
    <3>4. QED
      BY <3>3 DEF TickRpcs
  <2>4. ASSUME NEW r \in TickRpcs
        PROVE  TickRpcs' # {}
    <3>1. r \in Rpc /\ r.kind = "tick"
      BY DEF Inv, TypeOK, TickRpcs
    <3>2. [r EXCEPT !.age = @ + 1].kind = "tick"
      BY <3>1 DEF Rpc
    <3>3. QED
      BY <2>1, <3>2 DEF TickRpcs
  <2>5. /\ NoTick(write_buffer)' <=> NoTick(write_buffer)
        /\ NoTick(read_buffer)' <=> NoTick(read_buffer)
    BY <2>1 DEF NoTick
  <2>6. Asked' <=> Asked
    BY <2>1, <2>3, <2>4, <2>5 DEF Asked
  <2>7. NoTick(read_buffer) /\ ~tick_synced_ready
    BY <1>3, <1>4, <2>1 DEF AskedInTime
  <2>8. AskedInTime'
    <3>1. phase' # "tasks" => read_buffer' = <<>>
      BY <2>1 DEF AskedInTime
    <3>2. \A r \in TickRpcs' : r.age = SinceDue'
      BY <2>2, <2>3 DEF AskedInTime
    <3>3. ~NoTick(write_buffer)' => SinceDue' <= Deadline + 1
      BY <1>1, <2>1, <2>2, <2>5 DEF AskedInTime
    <3>4. QED
      BY <2>1, <2>5, <2>7, <3>1, <3>2, <3>3 DEF AskedInTime
  <2>9. ~NewHour
    BY <2>1 DEF NewHour, TasksDone
  <2>10. QED
    BY <1>1, <1>13, <2>2, <2>6, <2>8, <2>9 DEF SinceRequest
<1>14. CASE UNCHANGED vars
  <2>1. UNCHANGED <<frame, phase, read_buffer, write_buffer, rpcs, tick_synced_ready>>
    BY <1>14 DEF vars, main
  <2>2. /\ TickRpcs' = TickRpcs
        /\ NoTick(write_buffer)' <=> NoTick(write_buffer)
        /\ NoTick(read_buffer)' <=> NoTick(read_buffer)
    BY <2>1 DEF TickRpcs, NoTick
  <2>3. ~NextFrame /\ ~NewHour
    BY <2>1 DEF NextFrame, NewHour, TasksDone
  <2>4. QED
    BY <1>5, <2>1, <2>2, <2>3
<1>15. QED
  BY <1>6, <1>7, <1>8, <1>9, <1>10, <1>11, <1>12, <1>13, <1>14 DEF Next, MainNext

LEMMA SinceRequestType ==
  ASSUME Inv
  PROVE  SinceRequest \in Nat
<1>1. SinceDue \in Nat /\ TicksPerHour \in Nat
  BY SinceDueType, TickAssumption
<1>2. QED
  BY <1>1 DEF SinceRequest

\* How x comes to be in a set of RPCs that was S: every frame they are one older, and
\* only the beginning of an hour sends new ones.
Aged(S, x) ==
  /\ NewHour => x \in S \/ x.age = 0
  /\ NextFrame => \E y \in S : x.age = y.age + 1
  /\ ~NewHour /\ ~NextFrame => x \in S

\* Whatever is sent when an hour begins is over when the next one does.
LEMMA AgeStep ==
  ASSUME 2 * Deadline <= TicksPerHour, Inv, Inv', AskedInTime, [Next]_vars,
         NEW S, \A y \in S : y.age \in Nat, OfLastHour(S),
         NewHour => \A y \in S : y.age < Deadline,
         NEW T, \A x \in T : Aged(S, x)
  PROVE  /\ NewHour => S = {}
         /\ \A x \in T : x.age + Deadline + 1 >= SinceRequest'
<1>1. /\ NextFrame => SinceRequest' = SinceRequest + 1
      /\ ~NextFrame => SinceRequest' <= SinceRequest
      /\ NewHour => SinceRequest >= TicksPerHour + 1 /\ SinceRequest' <= Deadline + 1
  BY AskedStep
<1>2. SinceRequest \in Nat /\ SinceRequest' \in Nat
  <2>1. SinceDue' \in Nat /\ TicksPerHour \in Nat
    BY TickAssumption DEF Inv, TypeOK, SinceDue
  <2>2. Asked' => SinceRequest' = SinceDue' + TicksPerHour
    BY <2>1 DEF SinceRequest
  <2>3. ~Asked' => SinceRequest' = SinceDue' + 0
    BY <2>1 DEF SinceRequest
  <2>4. QED
    BY <2>1, <2>2, <2>3, SinceRequestType
<1>3. TicksPerHour \in Nat /\ Deadline \in Nat
  BY TickAssumption
<1>4. \A y \in S : y.age \in Nat /\ y.age + Deadline + 1 >= SinceRequest
  BY DEF OfLastHour
<1>5. NewHour => S = {}
  BY <1>1, <1>2, <1>3, <1>4
<1>6. ASSUME NEW x \in T
      PROVE  x.age + Deadline + 1 >= SinceRequest'
  <2>1. CASE NewHour
    BY <1>1, <1>2, <1>3, <1>5, <2>1 DEF Aged
  <2>2. CASE NextFrame
    <3>1. PICK y \in S : x.age = y.age + 1
      BY <2>2 DEF Aged
    <3>2. QED
      BY <1>1, <1>2, <1>3, <1>4, <2>2, <3>1
  <2>3. CASE ~NewHour /\ ~NextFrame
    BY <1>1, <1>2, <1>3, <1>4, <2>3 DEF Aged
  <2>4. QED
    BY <2>1, <2>2, <2>3
<1>7. QED
  BY <1>5, <1>6

-----------------------------------------------------------------------------
(* The jobs.  A request for jobs is over, though not necessarily run, when *)
(* the next hour begins; so the answers are queued in the order of hours.  *)

JobRpcs == {r \in rpcs : r.kind = "jobs"}

JobsWithin(q, low, high) ==
  \A k \in DOMAIN q : q[k].kind = "jobs" => low <= q[k].tick /\ q[k].tick <= high

JobsSorted(q) ==
  \A j, k \in DOMAIN q :
    j < k /\ q[j].kind = "jobs" /\ q[k].kind = "jobs" => q[j].tick <= q[k].tick

JobsQueued ==
  /\ \A r \in JobRpcs : r.tick = tick
  /\ jobs_of <= tick
  /\ JobsSorted(read_buffer) /\ JobsWithin(read_buffer, jobs_of, tick)
  /\ JobsSorted(write_buffer) /\ JobsWithin(write_buffer, jobs_of, tick)
  /\ \A k \in DOMAIN read_buffer :
       read_buffer[k].kind = "jobs" => JobsWithin(write_buffer, read_buffer[k].tick, tick)

TimedInv == AskedInTime /\ OfLastHour(JobRpcs)

JobInv == 2 * Deadline <= TicksPerHour => TimedInv /\ JobsQueued

\* An answer with the jobs of the present hour at the end of a queue.
LEMMA AppendJobs ==
  ASSUME NEW q \in Seq(Task), NEW t \in Task, NEW low \in Nat, NEW high \in Nat,
         low <= high, JobsWithin(q, low, high), t.kind = "jobs" => t.tick = high
  PROVE  /\ JobsWithin(Append(q, t), low, high)
         /\ JobsSorted(q) => JobsSorted(Append(q, t))
<1>1. /\ DOMAIN Append(q, t) = 1 .. Len(q) + 1
      /\ DOMAIN q = 1 .. Len(q) /\ Len(q) \in Nat
      /\ \A k \in DOMAIN q : Append(q, t)[k] = q[k]
      /\ Append(q, t)[Len(q) + 1] = t
  OBVIOUS
<1>2. \A k \in DOMAIN Append(q, t) : k \in DOMAIN q \/ k = Len(q) + 1
  BY <1>1
<1>3. JobsWithin(Append(q, t), low, high)
  BY <1>1, <1>2 DEF JobsWithin
<1>4. ASSUME JobsSorted(q), NEW j \in DOMAIN Append(q, t), NEW k \in DOMAIN Append(q, t),
             j < k, Append(q, t)[j].kind = "jobs", Append(q, t)[k].kind = "jobs"
      PROVE  Append(q, t)[j].tick <= Append(q, t)[k].tick
  <2>1. j \in DOMAIN q /\ Append(q, t)[j] = q[j]
    BY <1>1, <1>4
  <2>2. CASE k \in DOMAIN q
    BY <1>1, <1>4, <2>1, <2>2 DEF JobsSorted
  <2>3. CASE k = Len(q) + 1
    BY <1>1, <1>4, <2>1, <2>3 DEF JobsWithin
  <2>4. QED
    BY <1>2, <2>2, <2>3
<1>5. QED
  BY <1>3, <1>4 DEF JobsSorted

\* The first task of a queue: jobs it brings are of no later hour than those behind.
LEMMA TakeJobs ==
  ASSUME NEW q \in Seq(Task), q # <<>>, NEW low, NEW high,
         JobsSorted(q), JobsWithin(q, low, high)
  PROVE  /\ JobsSorted(Tail(q)) /\ JobsWithin(Tail(q), low, high)
         /\ 1 \in DOMAIN q /\ Head(q) = q[1]
         /\ \A k \in DOMAIN Tail(q) : k + 1 \in DOMAIN q /\ Tail(q)[k] = q[k + 1]
         /\ Head(q).kind = "jobs" =>
              /\ low <= Head(q).tick /\ Head(q).tick <= high
              /\ JobsWithin(Tail(q), Head(q).tick, high)
<1>1. /\ Tail(q) \in Seq(Task)
      /\ Len(Tail(q)) = Len(q) - 1
      /\ \A k \in 1 .. Len(Tail(q)) : Tail(q)[k] = q[k + 1]
  BY HeadTailProperties
<1>2. /\ Len(q) \in Nat \ {0} /\ DOMAIN q = 1 .. Len(q) /\ Head(q) = q[1]
      /\ DOMAIN Tail(q) = 1 .. Len(q) - 1
  BY <1>1, EmptySeq, LenProperties
<1>3. /\ 1 \in DOMAIN q
      /\ \A k \in DOMAIN Tail(q) :
           k \in Nat \ {0} /\ k + 1 \in DOMAIN q /\ 1 < k + 1 /\ Tail(q)[k] = q[k + 1]
  BY <1>1, <1>2
<1>4. JobsSorted(Tail(q))
  <2>1. \A j, k \in DOMAIN Tail(q) : j < k => j + 1 < k + 1
    BY <1>3
  <2>2. QED
    BY <1>3, <2>1 DEF JobsSorted
<1>5. JobsWithin(Tail(q), low, high)
  BY <1>3 DEF JobsWithin
<1>6. Head(q).kind = "jobs" =>
        /\ low <= Head(q).tick /\ Head(q).tick <= high
        /\ JobsWithin(Tail(q), Head(q).tick, high)
  BY <1>2, <1>3 DEF JobsSorted, JobsWithin
<1>7. QED
  BY <1>2, <1>3, <1>4, <1>5, <1>6

\* A request for jobs keeps its distance from the last request for an hour, and
\* when an hour begins there is none.
LEMMA TimedStep ==
  ASSUME 2 * Deadline <= TicksPerHour, Inv, Inv', TimedInv, [Next]_vars
  PROVE  TimedInv' /\ (NewHour => JobRpcs = {})
<1>1. AskedInTime' /\ AskedInTime /\ OfLastHour(JobRpcs)
  BY AskedStep DEF TimedInv
<1>2. ASSUME NEW r \in JobRpcs
      PROVE  r.age \in Nat
  <2>1. r \in Rpc
    BY DEF Inv, TypeOK, JobRpcs
  <2>2. r.age \in 0 .. Deadline
    BY <2>1 DEF Rpc
  <2>3. QED
    BY <2>2, TickAssumption
<1>3. NewHour => \A r \in JobRpcs : r.age < Deadline
  BY DEF NewHour, TasksDone, JobRpcs
<1>4. ASSUME NEW x \in JobRpcs'
      PROVE  Aged(JobRpcs, x)
  <2>1. NewHour => x \in JobRpcs \/ x.age = 0
    BY <1>4 DEF NewHour, Issue, JobRpcs
  <2>2. ASSUME NextFrame
        PROVE  \E r \in JobRpcs : x.age = r.age + 1
    <3>1. PICK r \in rpcs : x = [r EXCEPT !.age = @ + 1]
      BY <1>4, <2>2 DEF NextFrame, JobRpcs
    <3>2. r \in Rpc
      BY DEF Inv, TypeOK
    <3>3. x.kind = r.kind /\ x.age = r.age + 1
      BY <3>1, <3>2 DEF Rpc
    <3>4. QED
      BY <1>4, <3>3 DEF JobRpcs
  <2>3. ASSUME ~NewHour, ~NextFrame
        PROVE  x \in JobRpcs
    <3>1. GrpcNext => x \in JobRpcs
      BY <1>4 DEF GrpcNext, Complete, Lose, JobRpcs
    <3>2. StartDrain \/ TickAnswered \/ TickFailed \/ JobsAnswered \/ JobsFailed => x \in JobRpcs
      BY <1>4
         DEF StartDrain, TickAnswered, TickFailed, JobsAnswered, JobsFailed, NextTask, JobRpcs
    <3>3. NoNewHour \/ NoRequest \/ UNCHANGED vars => x \in JobRpcs
      BY <1>4 DEF NoNewHour, NoRequest, vars, JobRpcs
    <3>4. RequestTick => x \in JobRpcs
      BY <1>4 DEF RequestTick, Issue, JobRpcs
    <3>5. QED
      BY <2>3, <3>1, <3>2, <3>3, <3>4 DEF Next, MainNext
  <2>4. QED
    BY <2>1, <2>2, <2>3 DEF Aged
<1>5. /\ NewHour => JobRpcs = {}
      /\ \A x \in JobRpcs' : x.age + Deadline + 1 >= SinceRequest'
  BY <1>1, <1>2, <1>3, <1>4, AgeStep
<1>6. QED
  BY <1>1, <1>5 DEF TimedInv, OfLastHour

LEMMA JobsStep ==
  ASSUME 2 * Deadline <= TicksPerHour, Inv, Inv', TimedInv, JobsQueued, [Next]_vars
  PROVE  JobsQueued' /\ jobs_of' >= jobs_of
<1>1. /\ tick \in Nat /\ jobs_of \in Nat /\ jobs_of <= tick
      /\ read_buffer \in Seq(Task) /\ write_buffer \in Seq(Task)
      /\ \A t \in Task : t.tick \in Nat
  <2>1. tick \in Nat
    BY TickAssumption DEF Inv, TypeOK
  <2>2. jobs_of \in Nat /\ jobs_of <= tick
    BY TickAssumption DEF JobsQueued, Inv, TypeOK
  <2>3. read_buffer \in Seq(Task) /\ write_buffer \in Seq(Task)
    BY DEF Inv, TypeOK
  <2>4. \A t \in Task : t.tick \in Nat
    BY TickAssumption DEF Task
  <2>5. QED
    BY <2>1, <2>2, <2>3, <2>4
<1>2. JobsSorted(<<>>) /\ \A low, high : JobsWithin(<<>>, low, high)
  BY DEF JobsSorted, JobsWithin
<1>3. ASSUME UNCHANGED <<tick, jobs_of, read_buffer, write_buffer>>,
             \A r \in JobRpcs' : r.tick = tick
      PROVE  JobsQueued'
  BY <1>3 DEF JobsQueued, JobsSorted, JobsWithin
<1>4. ASSUME NEW r \in rpcs, NEW ok \in BOOLEAN, Complete(r, ok)
      PROVE  JobsQueued' /\ UNCHANGED jobs_of
  <2> DEFINE t == [kind |-> r.kind, tick |-> r.tick, ok |-> ok]
  <2>1. /\ t \in Task /\ t.kind = r.kind /\ t.tick = r.tick
        /\ write_buffer' = Append(write_buffer, t)
        /\ UNCHANGED <<tick, jobs_of, read_buffer>>
        /\ JobRpcs' \subseteq JobRpcs
    BY <1>4 DEF Complete, clock, main, JobRpcs, Inv, TypeOK, Rpc, Task
  <2>2. t.kind = "jobs" => t.tick = tick
    BY <2>1 DEF JobsQueued, JobRpcs
  <2> HIDE DEF t
  <2>3. JobsSorted(write_buffer)' /\ JobsWithin(write_buffer, jobs_of, tick)'
    <3>1. JobsSorted(Append(write_buffer, t)) /\ JobsWithin(Append(write_buffer, t), jobs_of, tick)
      BY <1>1, <2>1, <2>2, AppendJobs DEF JobsQueued
    <3>2. QED
      BY <2>1, <3>1 DEF JobsSorted, JobsWithin
  <2>4. JobsSorted(read_buffer)' /\ JobsWithin(read_buffer, jobs_of, tick)'
    BY <2>1 DEF JobsQueued, JobsSorted, JobsWithin
  <2>5. ASSUME NEW k \in DOMAIN read_buffer', read_buffer'[k].kind = "jobs"
        PROVE  JobsWithin(write_buffer', read_buffer'[k].tick, tick')
    <3>1. /\ k \in DOMAIN read_buffer /\ read_buffer[k].kind = "jobs"
          /\ read_buffer[k].tick \in Nat /\ read_buffer[k].tick <= tick
          /\ JobsWithin(write_buffer, read_buffer[k].tick, tick)
      <4>1. k \in DOMAIN read_buffer /\ read_buffer[k].kind = "jobs"
        BY <2>1, <2>5
      <4>2. read_buffer[k].tick \in Nat
        BY <1>1, <4>1
      <4>3. QED
        BY <4>1, <4>2 DEF JobsQueued, JobsWithin
    <3>2. JobsWithin(Append(write_buffer, t), read_buffer[k].tick, tick)
      BY <1>1, <2>1, <2>2, <3>1, AppendJobs
    <3>3. QED
      BY <2>1, <3>2
  <2>6. \A k \in DOMAIN read_buffer' :
          read_buffer'[k].kind = "jobs" => JobsWithin(write_buffer, read_buffer[k].tick, tick)'
    BY <2>1, <2>5 DEF JobsWithin
  <2>7. QED
    BY <2>1, <2>3, <2>4, <2>6 DEF JobsQueued
<1>5. ASSUME NEW r \in rpcs, Lose(r)
      PROVE  JobsQueued' /\ UNCHANGED jobs_of
  BY <1>3, <1>5 DEF Lose, clock, main, JobRpcs, JobsQueued
<1>6. CASE StartDrain
  <2>1. /\ read_buffer = <<>> /\ read_buffer' = write_buffer /\ write_buffer' = <<>>
        /\ UNCHANGED <<tick, jobs_of, rpcs>>
    BY <1>6 DEF StartDrain, TimedInv, AskedInTime, clock
  <2>2. QED
    BY <1>1, <1>2, <2>1 DEF JobsQueued, JobsSorted, JobsWithin, JobRpcs
<1>7. ASSUME NEW kind, NEW ok, NextTask(kind, ok), UNCHANGED tick,
             jobs_of' = jobs_of \/ (jobs_of' = Head(read_buffer).tick /\ kind = "jobs")
      PROVE  JobsQueued' /\ jobs_of' >= jobs_of
  <2>1. /\ read_buffer # <<>> /\ read_buffer' = Tail(read_buffer) /\ UNCHANGED write_buffer
        /\ Head(read_buffer).kind = kind /\ JobRpcs' = JobRpcs
    BY <1>7 DEF NextTask, JobRpcs
  <2>2. JobsSorted(read_buffer) /\ JobsWithin(read_buffer, jobs_of, tick)
    BY DEF JobsQueued
  <2>3. /\ JobsSorted(Tail(read_buffer)) /\ JobsWithin(Tail(read_buffer), jobs_of, tick)
        /\ 1 \in DOMAIN read_buffer /\ Head(read_buffer) = read_buffer[1]
        /\ \A k \in DOMAIN Tail(read_buffer) :
             k + 1 \in DOMAIN read_buffer /\ Tail(read_buffer)[k] = read_buffer[k + 1]
        /\ Head(read_buffer).kind = "jobs" =>
             /\ jobs_of <= Head(read_buffer).tick /\ Head(read_buffer).tick <= tick
             /\ JobsWithin(Tail(read_buffer), Head(read_buffer).tick, tick)
    BY <1>1, <2>1, <2>2, TakeJobs
  <2>4. kind = "jobs" => JobsWithin(write_buffer, Head(read_buffer).tick, tick)
    BY <2>1, <2>3 DEF JobsQueued
  <2>5. /\ jobs_of <= jobs_of' /\ jobs_of' <= tick
        /\ JobsWithin(Tail(read_buffer), jobs_of', tick)
        /\ JobsWithin(write_buffer, jobs_of', tick)
    BY <1>1, <1>7, <2>1, <2>3, <2>4 DEF JobsQueued
  <2>6. \A k \in DOMAIN Tail(read_buffer) :
          Tail(read_buffer)[k].kind = "jobs" =>
            JobsWithin(write_buffer, Tail(read_buffer)[k].tick, tick)
    BY <2>3 DEF JobsQueued
  <2>7. QED
    BY <1>7, <2>1, <2>3, <2>5, <2>6 DEF JobsQueued, JobsSorted, JobsWithin
<1>8. CASE TickAnswered \/ TickFailed \/ JobsAnswered \/ JobsFailed
  BY <1>7, <1>8 DEF TickAnswered, TickFailed, JobsAnswered, JobsFailed, clock
<1>9. CASE NewHour
  <2>1. /\ read_buffer = <<>> /\ tick' = tick + 1
        /\ rpcs' = rpcs \cup {[kind |-> "jobs", tick |-> tick', age |-> 0]}
        /\ UNCHANGED <<read_buffer, write_buffer, jobs_of>>
    BY <1>9 DEF NewHour, TasksDone, TakeAnswer, Issue, Inv, CachedAnswer
  <2>2. \A r \in JobRpcs' : r.tick = tick'
    BY <1>9, <2>1, TimedStep DEF JobRpcs
  <2>3. \A k \in DOMAIN write_buffer : write_buffer[k].tick \in Nat
    BY <1>1
  <2>4. JobsWithin(write_buffer, jobs_of, tick + 1) /\ JobsSorted(write_buffer)
    BY <1>1, <2>3 DEF JobsQueued, JobsWithin
  <2>5. QED
    BY <1>1, <2>1, <2>2, <2>4 DEF JobsQueued, JobsSorted, JobsWithin
<1>10. CASE NoNewHour \/ RequestTick \/ NoRequest \/ UNCHANGED vars
  <2>1. JobRpcs' = JobRpcs /\ UNCHANGED <<tick, jobs_of, read_buffer, write_buffer>>
    BY <1>10 DEF NoNewHour, RequestTick, NoRequest, Issue, vars, main, clock, JobRpcs
  <2>2. QED
    BY <1>1, <1>3, <2>1 DEF JobsQueued
<1>11. CASE NextFrame
  <2>1. UNCHANGED <<tick, jobs_of, read_buffer, write_buffer>>
    BY <1>11 DEF NextFrame, clock
  <2>2. ASSUME NEW x \in JobRpcs'
        PROVE  x.tick = tick
    <3>1. PICK r \in rpcs : x = [r EXCEPT !.age = @ + 1]
      BY <1>11, <2>2 DEF NextFrame, JobRpcs
    <3>2. r \in Rpc
      BY DEF Inv, TypeOK
    <3>3. x.kind = r.kind /\ x.tick = r.tick
      BY <3>1, <3>2 DEF Rpc
    <3>4. QED
      BY <2>2, <3>3 DEF JobRpcs, JobsQueued
  <2>3. QED
    BY <1>1, <1>3, <2>1, <2>2
<1>12. QED
  BY <1>1, <1>4, <1>5, <1>6, <1>8, <1>9, <1>10, <1>11 DEF Next, GrpcNext, MainNext, StartDrain

\* main.cpp asks for the tick and, when its hour begins, for the jobs: with an hour of
\* at least two deadlines the answer to a tick comes in time, the requests for jobs
\* that are under way are of the last hour, and their answers queue up in order.
THEOREM JobsInvariant == Spec => []JobInv
<1>1. Init => JobInv
  <2> SUFFICES ASSUME Init PROVE JobInv
    OBVIOUS
  <2>1. NoTick(<<>>) /\ JobsSorted(<<>>) /\ JobsWithin(<<>>, 0, 0)
    BY DEF NoTick, JobsSorted, JobsWithin
  <2>2. QED
    BY <2>1 DEF Init, JobInv, TimedInv, AskedInTime, OfLastHour, JobRpcs, TickRpcs, JobsQueued
<1>2. Inv /\ Inv' /\ JobInv /\ [Next]_vars => JobInv'
  BY TimedStep, JobsStep DEF JobInv
<1>3. QED
  BY <1>1, <1>2, TickInvariant, PTL DEF Spec

\* The jobs of an hour never replace those of a later one, if an hour is at least
\* two deadlines long, whatever answer comes when within its deadline.
THEOREM JobsStayInOrder == Spec => JobsInOrder
<1>1. Inv /\ Inv' /\ JobInv /\ [Next]_vars
        => [2 * Deadline <= TicksPerHour => jobs_of' >= jobs_of]_vars
  BY JobsStep DEF JobInv
<1>2. QED
  BY <1>1, JobsInvariant, TickInvariant, PTL DEF Spec, JobsInOrder

-----------------------------------------------------------------------------
(* The status synchronisation takes only steps of the clock.               *)

\* Each step of the composition is a step of the clock, or leaves it alone.
LEMMA SyncStepIsTickStep == [SyncNext]_allvars => [Next]_vars
<1> SUFFICES ASSUME [SyncNext]_allvars PROVE [Next]_vars
  OBVIOUS
<1>1. CASE SyncMain
  BY <1>1
     DEF SyncMain, DrainBoth, BatchNoted, HourAndSync, FrameWithoutHour, NextFrameBoth, Elsewhere,
         Next, MainNext
<1>2. CASE SyncGrpc
  BY <1>2 DEF SyncGrpc, BatchAnswered, BatchFails, Over, Next
<1>3. CASE \E n \in Agents, v \in Values : Change(n, v)
  BY <1>3 DEF Change
<1>4. CASE UNCHANGED allvars
  BY <1>4 DEF allvars
<1> QED
  BY <1>1, <1>2, <1>3, <1>4 DEF SyncNext

\* The clock with the status synchronisation is still the clock.
THEOREM SyncImplementsTick == SyncSpec => Spec
<1>1. SyncInit => Init
  BY DEF SyncInit
<1> QED
  BY <1>1, SyncStepIsTickStep, PTL DEF SyncSpec, Spec

\* What is proved of the clock holds of the composition the run checks: the two
\* servers are in step, every hour begins once, every day is reset.
THEOREM SyncClockSafe == SyncSpec => [](ClocksInStep /\ EveryHourOnce /\ DailyReset)
BY SyncImplementsTick, ClocksStayInStep, HoursBeginOnce, EveryDayIsReset, PTL

-----------------------------------------------------------------------------
(* The rows.                                                               *)

Notes == UNION {[S -> Nat] : S \in SUBSET Agents}

NoneIn(q, n) == \A k \in DOMAIN q : n \notin DOMAIN q[k]

LastIn(q, n, version) ==
  \E k \in DOMAIN q :
    /\ n \in DOMAIN q[k] /\ q[k][n] = version
    /\ \A j \in DOMAIN q : j > k => n \notin DOMAIN q[j]

\* The last answer on its way about an agent, or else the note, is what the AI
\* server has; unless a batch was received whose failure was reported.
LastNoteIsKnown ==
  \A n \in Agents \ doubt :
    \/ LastIn(acks, n, known[n])
    \/ NoneIn(acks, n) /\ LastIn(acks_due, n, known[n])
    \/ NoneIn(acks, n) /\ NoneIn(acks_due, n) /\ synced[n] = known[n]

\* Answers are run in the drain they came with.
DrainedInTasks == phase # "tasks" => acks_due = <<>>

RowTypes ==
  /\ acks \in Seq(Notes) /\ acks_due \in Seq(Notes)
  /\ \A b \in batches : b.rows \in Notes
  /\ synced \in [Agents -> Nat] /\ known \in [Agents -> Nat]
  /\ past \in [Agents -> Seq(Values)]

RowInv == RowTypes /\ DrainedInTasks /\ LastNoteIsKnown

LEMMA NoteDomain ==
  ASSUME NEW a \in Notes
  PROVE  DOMAIN a \subseteq Agents /\ \A n \in DOMAIN a : a[n] \in Nat
BY DEF Notes

\* A good answer at the end of a queue of answers.
LEMMA AppendNote ==
  ASSUME NEW q \in Seq(Notes), NEW a \in Notes, NEW n
  PROVE  /\ Append(q, a) \in Seq(Notes)
         /\ n \in DOMAIN a => LastIn(Append(q, a), n, a[n])
         /\ n \notin DOMAIN a =>
              /\ NoneIn(q, n) => NoneIn(Append(q, a), n)
              /\ \A v : LastIn(q, n, v) => LastIn(Append(q, a), n, v)
<1>1. /\ Append(q, a) \in Seq(Notes)
      /\ DOMAIN Append(q, a) = 1 .. Len(q) + 1
      /\ DOMAIN q = 1 .. Len(q) /\ Len(q) \in Nat
      /\ \A k \in DOMAIN q : Append(q, a)[k] = q[k]
      /\ Append(q, a)[Len(q) + 1] = a
  OBVIOUS
<1>2. \A k \in DOMAIN Append(q, a) : k \in DOMAIN q \/ k = Len(q) + 1
  BY <1>1
<1>3. n \in DOMAIN a => LastIn(Append(q, a), n, a[n])
  BY <1>1, <1>2 DEF LastIn
<1>4. n \notin DOMAIN a => (NoneIn(q, n) => NoneIn(Append(q, a), n))
  BY <1>1, <1>2 DEF NoneIn
<1>5. ASSUME n \notin DOMAIN a, NEW v, LastIn(q, n, v)
      PROVE  LastIn(Append(q, a), n, v)
  <2>1. PICK k \in DOMAIN q : /\ n \in DOMAIN q[k] /\ q[k][n] = v
                              /\ \A j \in DOMAIN q : j > k => n \notin DOMAIN q[j]
    BY <1>5 DEF LastIn
  <2>2. k \in DOMAIN Append(q, a) /\ Append(q, a)[k] = q[k]
    BY <1>1
  <2>3. \A j \in DOMAIN Append(q, a) : j > k => n \notin DOMAIN Append(q, a)[j]
    BY <1>1, <1>2, <1>5, <2>1
  <2> QED
    BY <2>1, <2>2, <2>3 DEF LastIn
<1> QED
  BY <1>1, <1>3, <1>4, <1>5

\* The first answer of a queue.
LEMMA TakeNote ==
  ASSUME NEW q \in Seq(Notes), q # <<>>, NEW n
  PROVE  /\ Head(q) \in Notes /\ Tail(q) \in Seq(Notes)
         /\ NoneIn(q, n) => NoneIn(Tail(q), n) /\ n \notin DOMAIN Head(q)
         /\ \A v : LastIn(q, n, v) =>
              \/ LastIn(Tail(q), n, v)
              \/ NoneIn(Tail(q), n) /\ n \in DOMAIN Head(q) /\ Head(q)[n] = v
<1>1. /\ Head(q) \in Notes /\ Tail(q) \in Seq(Notes)
      /\ Len(Tail(q)) = Len(q) - 1
      /\ \A k \in 1 .. Len(Tail(q)) : Tail(q)[k] = q[k + 1]
  BY HeadTailProperties
<1>2. /\ Len(q) \in Nat \ {0} /\ DOMAIN q = 1 .. Len(q) /\ Head(q) = q[1]
      /\ DOMAIN Tail(q) = 1 .. Len(q) - 1
  BY <1>1, EmptySeq, LenProperties
<1>3. /\ 1 \in DOMAIN q
      /\ \A k \in DOMAIN Tail(q) :
           k \in Nat \ {0} /\ k + 1 \in DOMAIN q /\ k + 1 # 1 /\ Tail(q)[k] = q[k + 1]
  BY <1>1, <1>2
<1>4. NoneIn(q, n) => NoneIn(Tail(q), n) /\ n \notin DOMAIN Head(q)
  BY <1>2, <1>3 DEF NoneIn
<1>5. ASSUME NEW v, LastIn(q, n, v)
      PROVE  \/ LastIn(Tail(q), n, v)
             \/ NoneIn(Tail(q), n) /\ n \in DOMAIN Head(q) /\ Head(q)[n] = v
  <2>1. PICK k \in DOMAIN q : /\ n \in DOMAIN q[k] /\ q[k][n] = v
                              /\ \A j \in DOMAIN q : j > k => n \notin DOMAIN q[j]
    BY <1>5 DEF LastIn
  <2>2. CASE k = 1
    <3>1. \A j \in DOMAIN Tail(q) : n \notin DOMAIN Tail(q)[j]
      BY <1>2, <1>3, <2>1, <2>2
    <3> QED
      BY <1>2, <2>1, <2>2, <3>1 DEF NoneIn
  <2>3. CASE k # 1
    <3>1. k - 1 \in DOMAIN Tail(q) /\ Tail(q)[k - 1] = q[k] /\ k \in Nat
      BY <1>1, <1>2, <2>3
    <3>2. \A j \in DOMAIN Tail(q) : j > k - 1 => n \notin DOMAIN Tail(q)[j]
      BY <1>2, <1>3, <2>1, <3>1
    <3> QED
      BY <2>1, <3>1, <3>2 DEF LastIn
  <2> QED
    BY <2>2, <2>3
<1> QED
  BY <1>1, <1>4, <1>5

LEMMA UpdatedNote ==
  ASSUME NEW old \in [Agents -> Nat], NEW a \in Notes
  PROVE  /\ Updated(old, a) \in [Agents -> Nat]
         /\ \A n \in Agents : Updated(old, a)[n] = IF n \in DOMAIN a THEN a[n] ELSE old[n]
BY NoteDomain DEF Updated

LEMMA AnsweredRowInv ==
  ASSUME RowInv, NEW b \in batches, BatchAnswered(b)
  PROVE  RowInv'
<1> USE DEF RowInv
<1>1. /\ b.rows \in Notes /\ known' = Updated(known, b.rows) /\ acks' = Append(acks, b.rows)
      /\ batches' \subseteq batches /\ doubt' = doubt \ DOMAIN b.rows
      /\ UNCHANGED <<phase, past, synced, acks_due>>
  BY DEF BatchAnswered, Over, RowTypes, vars, main
<1>2. RowTypes'
  BY <1>1, UpdatedNote, AppendNote DEF RowTypes
<1>3. DrainedInTasks'
  BY <1>1 DEF DrainedInTasks
<1>4. ASSUME NEW n \in Agents, n \notin doubt'
      PROVE  \/ LastIn(acks', n, known'[n])
             \/ NoneIn(acks', n) /\ LastIn(acks_due', n, known'[n])
             \/ NoneIn(acks', n) /\ NoneIn(acks_due', n) /\ synced'[n] = known'[n]
  <2>1. CASE n \in DOMAIN b.rows
    <3>1. known'[n] = b.rows[n]
      BY <1>1, <2>1, UpdatedNote DEF RowTypes
    <3> QED
      BY <1>1, <2>1, <3>1, AppendNote DEF RowTypes
  <2>2. CASE n \notin DOMAIN b.rows
    <3>a. known \in [Agents -> Nat]
      BY DEF RowTypes
    <3>b. Updated(known, b.rows)[n] = known[n]
      BY <1>1, <2>2, <3>a, UpdatedNote
    <3>1. known'[n] = known[n] /\ n \notin doubt
      BY <1>1, <1>4, <2>2, <3>b
    <3>2. /\ NoneIn(acks, n) => NoneIn(acks', n)
          /\ LastIn(acks, n, known[n]) => LastIn(acks', n, known[n])
      BY <1>1, <2>2, AppendNote DEF RowTypes
    <3> QED
      BY <1>1, <3>1, <3>2 DEF LastNoteIsKnown
  <2> QED
    BY <2>1, <2>2
<1>5. LastNoteIsKnown'
  BY <1>4 DEF LastNoteIsKnown, LastIn, NoneIn
<1> QED
  BY <1>2, <1>3, <1>5

LEMMA FailedRowInv ==
  ASSUME RowInv, NEW b \in batches, BatchFails(b)
  PROVE  RowInv'
<1> USE DEF RowInv
<1>1. /\ b.rows \in Notes /\ batches' \subseteq batches
      /\ \/ known' = Updated(known, b.rows) /\ doubt' = doubt \cup DOMAIN b.rows
         \/ UNCHANGED <<known, doubt>>
      /\ UNCHANGED <<phase, past, synced, acks, acks_due>>
  BY DEF BatchFails, Over, RowTypes, vars, main
<1>a. known \in [Agents -> Nat]
  BY DEF RowTypes
<1>b. /\ Updated(known, b.rows) \in [Agents -> Nat]
      /\ \A n \in Agents : n \notin DOMAIN b.rows => Updated(known, b.rows)[n] = known[n]
  BY <1>1, <1>a, UpdatedNote
<1>2. RowTypes'
  BY <1>1, <1>b DEF RowTypes
<1>3. DrainedInTasks'
  BY <1>1 DEF DrainedInTasks
<1>4. \A n \in Agents \ doubt' : n \notin doubt /\ known'[n] = known[n]
  BY <1>1, <1>b
<1>5. LastNoteIsKnown'
  BY <1>1, <1>4 DEF LastNoteIsKnown, LastIn, NoneIn
<1> QED
  BY <1>2, <1>3, <1>5

LEMMA NotedRowInv ==
  ASSUME RowInv, BatchNoted
  PROVE  RowInv'
<1> USE DEF RowInv
<1>1. /\ phase = "tasks" /\ acks_due # <<>> /\ acks_due \in Seq(Notes)
      /\ synced' = Updated(synced, Head(acks_due)) /\ acks_due' = Tail(acks_due)
      /\ UNCHANGED <<phase, past, batches, acks, known, doubt>>
  BY DEF BatchNoted, RowTypes, vars, main
<1>2. Head(acks_due) \in Notes /\ Tail(acks_due) \in Seq(Notes)
  BY <1>1, HeadTailProperties
<1>3. RowTypes'
  BY <1>1, <1>2, UpdatedNote DEF RowTypes
<1>4. DrainedInTasks'
  BY <1>1 DEF DrainedInTasks
<1>5. ASSUME NEW n \in Agents, n \notin doubt
      PROVE  \/ LastIn(acks, n, known[n])
             \/ NoneIn(acks, n) /\ LastIn(acks_due', n, known[n])
             \/ NoneIn(acks, n) /\ NoneIn(acks_due', n) /\ synced'[n] = known[n]
  <2>1. /\ NoneIn(acks_due, n) => NoneIn(acks_due', n) /\ n \notin DOMAIN Head(acks_due)
        /\ LastIn(acks_due, n, known[n]) =>
             \/ LastIn(acks_due', n, known[n])
             \/ /\ NoneIn(acks_due', n) /\ n \in DOMAIN Head(acks_due)
                /\ Head(acks_due)[n] = known[n]
    BY <1>1, TakeNote
  <2>a. synced \in [Agents -> Nat]
    BY DEF RowTypes
  <2>2. synced'[n] = IF n \in DOMAIN Head(acks_due) THEN Head(acks_due)[n] ELSE synced[n]
    BY <1>1, <1>2, <2>a, UpdatedNote
  <2> QED
    BY <1>5, <2>1, <2>2 DEF LastNoteIsKnown
<1>6. LastNoteIsKnown'
  BY <1>1, <1>5 DEF LastNoteIsKnown, LastIn, NoneIn
<1> QED
  BY <1>3, <1>4, <1>6

LEMMA DrainRowInv ==
  ASSUME RowInv, DrainBoth
  PROVE  RowInv'
<1> USE DEF RowInv
<1>1. /\ acks_due = <<>> /\ acks_due' = acks /\ acks' = <<>> /\ phase' = "tasks"
      /\ UNCHANGED <<past, synced, batches, known, doubt>>
  BY DEF DrainBoth, StartDrain, DrainedInTasks
<1>2. \A n, v : NoneIn(<<>>, n) /\ ~LastIn(<<>>, n, v)
  BY DEF NoneIn, LastIn
<1>3. RowTypes' /\ DrainedInTasks'
  BY <1>1 DEF RowTypes, DrainedInTasks
<1>4. \A n \in Agents \ doubt :
        \/ LastIn(acks_due', n, known[n])
        \/ NoneIn(acks_due', n) /\ synced[n] = known[n]
  BY <1>1, <1>2 DEF LastNoteIsKnown
<1>5. LastNoteIsKnown'
  BY <1>1, <1>2, <1>4 DEF LastNoteIsKnown, LastIn, NoneIn
<1> QED
  BY <1>3, <1>5

LEMMA HourRowInv ==
  ASSUME RowInv, HourAndSync
  PROVE  RowInv'
<1> USE DEF RowInv
<1>1. /\ acks_due = <<>> /\ Send(Changed)
      /\ UNCHANGED <<past, synced, acks, acks_due, known, doubt>>
  BY DEF HourAndSync, AcksDone, SystemNetworkSync
<1>2. \A b \in batches' : b.rows \in Notes
  <2>1. Changed \in SUBSET Agents /\ \A n \in Agents : Row(n) \in Nat
    BY DEF Changed, Row, RowTypes
  <2>2. [n \in Changed |-> Row(n)] \in [Changed -> Nat]
    BY <2>1
  <2>3. [n \in Changed |-> Row(n)] \in Notes
    BY <2>1, <2>2 DEF Notes
  <2> QED
    BY <1>1, <2>3 DEF Send, RowTypes
<1> QED
  BY <1>1, <1>2 DEF RowTypes, DrainedInTasks, LastNoteIsKnown, LastIn, NoneIn

\* The steps that leave the rows and the answers alone.
LEMMA OtherRowInv ==
  ASSUME RowInv, DrainedInTasks', UNCHANGED <<synced, acks, acks_due, known, doubt>>,
         past' \in [Agents -> Seq(Values)], \A b \in batches' : b.rows \in Notes
  PROVE  RowInv'
BY DEF RowInv, RowTypes, LastNoteIsKnown, LastIn, NoneIn

LEMMA RowStep == RowInv /\ [SyncNext]_allvars => RowInv'
<1> SUFFICES ASSUME RowInv, [SyncNext]_allvars PROVE RowInv'
  OBVIOUS
<1>1. CASE DrainBoth \/ BatchNoted \/ HourAndSync
  BY <1>1, DrainRowInv, NotedRowInv, HourRowInv
<1>2. CASE \E b \in batches : BatchAnswered(b) \/ BatchFails(b)
  BY <1>2, AnsweredRowInv, FailedRowInv
<1>3. CASE FrameWithoutHour
  <2>1. acks_due = <<>> /\ UNCHANGED rows
    BY <1>3 DEF FrameWithoutHour, AcksDone, Elsewhere
  <2> QED
    BY <2>1, OtherRowInv DEF rows, RowInv, RowTypes, DrainedInTasks
<1>4. CASE NextFrameBoth
  <2>1. /\ phase = "sleep" /\ UNCHANGED <<past, synced, acks, acks_due, known, doubt>>
        /\ batches' = {[b EXCEPT !.age = @ + 1] : b \in batches}
    BY <1>4 DEF NextFrameBoth, NextFrame
  <2>2. acks_due = <<>>
    BY <2>1 DEF RowInv, DrainedInTasks
  <2>3. \A b \in batches : [b EXCEPT !.age = @ + 1].rows = b.rows
    OBVIOUS
  <2> QED
    BY <2>1, <2>2, <2>3, OtherRowInv DEF RowInv, RowTypes, DrainedInTasks
<1>5. CASE Elsewhere /\ (TickAnswered \/ TickFailed \/ JobsAnswered \/ JobsFailed)
  BY <1>5, OtherRowInv
     DEF Elsewhere, rows, TickAnswered, TickFailed, JobsAnswered, JobsFailed, NextTask, RowInv,
         RowTypes, DrainedInTasks
<1>6. CASE Elsewhere /\ (RequestTick \/ NoRequest)
  <2>1. phase # "tasks" /\ UNCHANGED rows
    BY <1>6 DEF Elsewhere, RequestTick, NoRequest
  <2> QED
    BY <2>1, OtherRowInv DEF rows, RowInv, RowTypes, DrainedInTasks
<1>7. CASE Elsewhere /\ GrpcNext
  BY <1>7, OtherRowInv
     DEF Elsewhere, rows, GrpcNext, Complete, Lose, main, RowInv, RowTypes, DrainedInTasks
<1>8. CASE \E n \in Agents, v \in Values : Change(n, v)
  <2>1. PICK n \in Agents, v \in Values : Change(n, v)
    BY <1>8
  <2>2. past[n] \in Seq(Values)
    BY DEF RowInv, RowTypes
  <2>3. past' \in [Agents -> Seq(Values)]
    BY <2>1, <2>2 DEF Change, RowInv, RowTypes
  <2> QED
    BY <2>1, <2>3, OtherRowInv DEF Change, vars, main, RowInv, RowTypes, DrainedInTasks
<1>9. CASE UNCHANGED allvars
  BY <1>9, OtherRowInv DEF allvars, vars, main, rows, RowInv, RowTypes, DrainedInTasks
<1> QED
  BY <1>1, <1>2, <1>3, <1>4, <1>5, <1>6, <1>7, <1>8, <1>9 DEF SyncNext, SyncMain, SyncGrpc

\* The game server's note of what the AI server has is right as soon as nothing about
\* the agent is under way, though rows change, batches fail and the answers of
\* several batches may be queued.
THEOREM NoteIsRight == SyncSpec => []SyncedIsKnown
<1>1. SyncInit => RowInv
  <2> SUFFICES ASSUME SyncInit PROVE RowInv
    OBVIOUS
  <2>1. \A n \in Agents : <<Start[n]>> \in Seq(Values)
    BY SyncAssumption
  <2> QED
    BY <2>1 DEF SyncInit, Init, RowInv, RowTypes, DrainedInTasks, LastNoteIsKnown, NoneIn
<1>2. RowInv => SyncedIsKnown
  <2> SUFFICES ASSUME RowInv, NEW n \in Agents, Quiet(n), n \notin doubt
               PROVE  synced[n] = known[n]
    BY DEF SyncedIsKnown
  <2>1. Elements(acks \o acks_due) = Elements(acks) \cup Elements(acks_due)
    <3> DEFINE q == acks \o acks_due
    <3>1. acks \in Seq(Notes) /\ acks_due \in Seq(Notes)
      BY DEF RowInv, RowTypes
    <3>2. /\ Len(acks) \in Nat /\ Len(acks_due) \in Nat
          /\ DOMAIN acks = 1 .. Len(acks) /\ DOMAIN acks_due = 1 .. Len(acks_due)
          /\ DOMAIN q = 1 .. Len(acks) + Len(acks_due)
          /\ \A k \in DOMAIN q : q[k] = IF k <= Len(acks) THEN acks[k]
                                       ELSE acks_due[k - Len(acks)]
      BY <3>1
    <3>3. \A k \in DOMAIN acks : k \in DOMAIN q /\ q[k] = acks[k]
      BY <3>2
    <3>4. \A k \in DOMAIN acks_due :
            k + Len(acks) \in DOMAIN q /\ q[k + Len(acks)] = acks_due[k]
      BY <3>2
    <3>5. \A k \in DOMAIN q : k \in DOMAIN acks \/ k - Len(acks) \in DOMAIN acks_due
      BY <3>2
    <3> HIDE DEF q
    <3>6. Elements(q) \subseteq Elements(acks) \cup Elements(acks_due)
      BY <3>2, <3>5 DEF Elements
    <3>7. Elements(acks) \cup Elements(acks_due) \subseteq Elements(q)
      BY <3>3, <3>4 DEF Elements
    <3> QED
      BY <3>6, <3>7 DEF q
  <2>2. \A a \in Elements(acks) \cup Elements(acks_due) : n \notin DOMAIN a
    BY <2>1 DEF Quiet, Noted
  <2>3. NoneIn(acks, n) /\ NoneIn(acks_due, n)
    BY <2>2 DEF NoneIn, Elements
  <2>4. ~LastIn(acks, n, known[n]) /\ ~LastIn(acks_due, n, known[n])
    BY <2>3 DEF NoneIn, LastIn
  <2> QED
    BY <2>3, <2>4 DEF RowInv, LastNoteIsKnown
<1> QED
  BY <1>1, <1>2, RowStep, PTL DEF SyncSpec

-----------------------------------------------------------------------------
(* The versions.  No answer overtakes another one: of the answers on their *)
(* way about an agent none is of a later version than one behind it, and   *)
(* none is later than what the AI server has.  An hour finds no batch      *)
(* under way, so that the rows of a batch are those of the last hour.      *)

Batch == [rows : Notes, age : Nat]

NotesWithin(q, n, low, high) ==
  \A k \in DOMAIN q : n \in DOMAIN q[k] => low <= q[k][n] /\ q[k][n] <= high

NotesSorted(q, n) ==
  \A j, k \in DOMAIN q :
    j < k /\ n \in DOMAIN q[j] /\ n \in DOMAIN q[k] => q[j][n] <= q[k][n]

VersionsInOrder(n) ==
  /\ 1 <= synced[n] /\ synced[n] <= known[n] /\ known[n] <= Row(n)
  /\ 1 <= hour_row[n] /\ hour_row[n] <= Row(n)

AnswersInOrder(n) ==
  /\ NotesSorted(acks_due, n) /\ NotesWithin(acks_due, n, synced[n], known[n])
  /\ NotesSorted(acks, n) /\ NotesWithin(acks, n, synced[n], known[n])
  /\ \A k \in DOMAIN acks_due :
       n \in DOMAIN acks_due[k] => NotesWithin(acks, n, acks_due[k][n], known[n])

InBatch(n) == \E b \in batches : n \in DOMAIN b.rows

BatchOfHour(n) ==
  \A b \in batches : n \in DOMAIN b.rows =>
    b.rows[n] = hour_row[n] /\ known[n] <= hour_row[n]

\* The row of the last hour is on its way or has arrived.
HourKept(n) ==
  n \in doubt \cup missed \/ InBatch(n) \/ Value(n, known[n]) = Value(n, hour_row[n])

AgentInv(n) ==
  VersionsInOrder(n) /\ AnswersInOrder(n) /\ BatchOfHour(n) /\ HourKept(n)

BatchTypes ==
  /\ batches \subseteq Batch /\ hour_row \in [Agents -> Nat]
  /\ \A b, c \in batches : b = c

SyncInv == RowInv /\ BatchTypes /\ \A n \in Agents : AgentInv(n)

SyncTimed == AskedInTime /\ OfLastHour(batches)

LEMMA RowType ==
  ASSUME RowTypes, NEW n \in Agents
  PROVE  /\ Row(n) \in Nat /\ synced[n] \in Nat /\ known[n] \in Nat
         /\ past[n] \in Seq(Values)
BY DEF RowTypes, Row

\* The answer to a batch, no older than what came before it, at the end of a queue.
LEMMA AppendOrdered ==
  ASSUME NEW q \in Seq(Notes), NEW a \in Notes, NEW n \in Agents,
         NEW low \in Nat, NEW high \in Nat, NEW new \in Nat, low <= high, high <= new,
         NotesWithin(q, n, low, high), n \in DOMAIN a => a[n] = new
  PROVE  /\ NotesWithin(Append(q, a), n, low, new)
         /\ NotesSorted(q, n) => NotesSorted(Append(q, a), n)
<1>1. /\ DOMAIN Append(q, a) = 1 .. Len(q) + 1
      /\ DOMAIN q = 1 .. Len(q) /\ Len(q) \in Nat
      /\ \A k \in DOMAIN q : Append(q, a)[k] = q[k]
      /\ Append(q, a)[Len(q) + 1] = a
  OBVIOUS
<1>2. \A k \in DOMAIN Append(q, a) : k \in DOMAIN q \/ k = Len(q) + 1
  BY <1>1
<1>3. \A k \in DOMAIN q : n \in DOMAIN q[k] => q[k][n] \in Nat
  BY NoteDomain
<1>4. ASSUME NEW k \in DOMAIN Append(q, a), n \in DOMAIN Append(q, a)[k]
      PROVE  low <= Append(q, a)[k][n] /\ Append(q, a)[k][n] <= new
  <2>1. CASE k \in DOMAIN q
    BY <1>1, <1>3, <1>4, <2>1 DEF NotesWithin
  <2>2. CASE k = Len(q) + 1
    BY <1>1, <1>4, <2>2
  <2>3. QED
    BY <1>2, <2>1, <2>2
<1>5. ASSUME NotesSorted(q, n), NEW j \in DOMAIN Append(q, a), NEW k \in DOMAIN Append(q, a),
             j < k, n \in DOMAIN Append(q, a)[j], n \in DOMAIN Append(q, a)[k]
      PROVE  Append(q, a)[j][n] <= Append(q, a)[k][n]
  <2>1. j \in DOMAIN q /\ Append(q, a)[j] = q[j]
    BY <1>1, <1>5
  <2>2. CASE k \in DOMAIN q
    BY <1>1, <1>5, <2>1, <2>2 DEF NotesSorted
  <2>3. CASE k = Len(q) + 1
    BY <1>1, <1>3, <1>5, <2>1, <2>3 DEF NotesWithin
  <2>4. QED
    BY <1>2, <2>2, <2>3
<1>6. QED
  BY <1>4, <1>5 DEF NotesWithin, NotesSorted

\* The first answer of a queue: the others are no older.
LEMMA TakeOrdered ==
  ASSUME NEW q \in Seq(Notes), q # <<>>, NEW n \in Agents, NEW low, NEW high,
         NotesSorted(q, n), NotesWithin(q, n, low, high)
  PROVE  /\ NotesSorted(Tail(q), n) /\ NotesWithin(Tail(q), n, low, high)
         /\ 1 \in DOMAIN q /\ Head(q) = q[1] /\ Head(q) \in Notes /\ Tail(q) \in Seq(Notes)
         /\ \A k \in DOMAIN Tail(q) : k + 1 \in DOMAIN q /\ Tail(q)[k] = q[k + 1]
         /\ n \in DOMAIN Head(q) =>
              /\ low <= Head(q)[n] /\ Head(q)[n] <= high
              /\ NotesWithin(Tail(q), n, Head(q)[n], high)
<1>1. /\ Head(q) \in Notes /\ Tail(q) \in Seq(Notes)
      /\ Len(Tail(q)) = Len(q) - 1
      /\ \A k \in 1 .. Len(Tail(q)) : Tail(q)[k] = q[k + 1]
  BY HeadTailProperties
<1>2. /\ Len(q) \in Nat \ {0} /\ DOMAIN q = 1 .. Len(q) /\ Head(q) = q[1]
      /\ DOMAIN Tail(q) = 1 .. Len(q) - 1
  BY <1>1, EmptySeq, LenProperties
<1>3. /\ 1 \in DOMAIN q
      /\ \A k \in DOMAIN Tail(q) :
           k \in Nat \ {0} /\ k + 1 \in DOMAIN q /\ 1 < k + 1 /\ Tail(q)[k] = q[k + 1]
  BY <1>1, <1>2
<1>4. NotesSorted(Tail(q), n)
  <2>1. \A j, k \in DOMAIN Tail(q) : j < k => j + 1 < k + 1
    BY <1>3
  <2>2. QED
    BY <1>3, <2>1 DEF NotesSorted
<1>5. NotesWithin(Tail(q), n, low, high)
  BY <1>3 DEF NotesWithin
<1>6. n \in DOMAIN Head(q) =>
        /\ low <= Head(q)[n] /\ Head(q)[n] <= high
        /\ NotesWithin(Tail(q), n, Head(q)[n], high)
  BY <1>2, <1>3 DEF NotesSorted, NotesWithin
<1>7. QED
  BY <1>1, <1>2, <1>3, <1>4, <1>5, <1>6

\* What the AI server has may only be later.
LEMMA NotesBelow ==
  ASSUME NEW q \in Seq(Notes), NEW n \in Agents, NEW low, NEW high \in Nat, NEW new \in Nat,
         high <= new, NotesWithin(q, n, low, high)
  PROVE  NotesWithin(q, n, low, new)
<1>1. \A k \in DOMAIN q : n \in DOMAIN q[k] => q[k][n] \in Nat
  BY NoteDomain
<1>2. QED
  BY <1>1 DEF NotesWithin

LEMMA AnsweredSyncInv ==
  ASSUME SyncInv, NEW b \in batches, BatchAnswered(b)
  PROVE  BatchTypes' /\ \A n \in Agents : AgentInv(n)'
<1>1. /\ b.rows \in Notes /\ known' = Updated(known, b.rows) /\ acks' = Append(acks, b.rows)
      /\ batches' = {} /\ batches = {b}
      /\ doubt' = doubt \ DOMAIN b.rows /\ missed' = missed \ DOMAIN b.rows
      /\ UNCHANGED <<past, synced, acks_due, hour_row>>
  BY DEF BatchAnswered, Over, SyncInv, RowInv, RowTypes, BatchTypes
<1>2. /\ acks \in Seq(Notes) /\ acks_due \in Seq(Notes) /\ known \in [Agents -> Nat]
      /\ RowTypes
  BY DEF SyncInv, RowInv, RowTypes
<1>3. BatchTypes'
  BY <1>1 DEF SyncInv, BatchTypes
<1>4. ASSUME NEW n \in Agents
      PROVE  AgentInv(n)'
  <2>1. VersionsInOrder(n) /\ AnswersInOrder(n) /\ BatchOfHour(n) /\ HourKept(n)
    BY DEF SyncInv, AgentInv
  <2>2. /\ known'[n] = IF n \in DOMAIN b.rows THEN b.rows[n] ELSE known[n]
        /\ n \in DOMAIN b.rows => b.rows[n] = hour_row[n] /\ known[n] <= hour_row[n]
    BY <1>1, <1>2, <2>1, UpdatedNote DEF BatchOfHour
  <2>3. /\ synced[n] \in Nat /\ known[n] \in Nat /\ known'[n] \in Nat /\ hour_row[n] \in Nat
        /\ Row(n) \in Nat
    BY <1>1, <1>2, <2>2, RowType DEF SyncInv, BatchTypes
  <2>4. known[n] <= known'[n] /\ (n \in DOMAIN b.rows => b.rows[n] = known'[n])
    BY <2>2, <2>3
  <2>5. VersionsInOrder(n)'
    BY <1>1, <2>1, <2>2, <2>3, <2>4 DEF VersionsInOrder, Row
  <2>6. AnswersInOrder(n)'
    <3>1. /\ NotesWithin(Append(acks, b.rows), n, synced[n], known'[n])
          /\ NotesSorted(Append(acks, b.rows), n)
      BY <1>1, <1>2, <2>1, <2>3, <2>4, AppendOrdered DEF AnswersInOrder, VersionsInOrder
    <3>2. NotesWithin(acks_due, n, synced[n], known'[n])
      BY <1>2, <2>1, <2>3, <2>4, NotesBelow DEF AnswersInOrder
    <3>3. ASSUME NEW k \in DOMAIN acks_due, n \in DOMAIN acks_due[k]
          PROVE  NotesWithin(Append(acks, b.rows), n, acks_due[k][n], known'[n])
      <4>1. /\ acks_due[k][n] \in Nat /\ acks_due[k][n] <= known[n]
            /\ NotesWithin(acks, n, acks_due[k][n], known[n])
        BY <1>2, <2>1, <3>3, NoteDomain DEF AnswersInOrder, NotesWithin
      <4>2. QED
        BY <1>1, <1>2, <2>3, <2>4, <4>1, AppendOrdered
    <3>4. NotesSorted(acks_due, n)
      BY <2>1 DEF AnswersInOrder
    <3>5. QED
      BY <1>1, <3>1, <3>2, <3>3, <3>4 DEF AnswersInOrder, NotesWithin, NotesSorted
  <2>7. BatchOfHour(n)'
    BY <1>1 DEF BatchOfHour
  <2>8. HourKept(n)'
    BY <1>1, <2>1, <2>2 DEF HourKept, InBatch, Value
  <2>9. QED
    BY <2>5, <2>6, <2>7, <2>8 DEF AgentInv
<1>5. QED
  BY <1>3, <1>4

LEMMA FailedSyncInv ==
  ASSUME SyncInv, NEW b \in batches, BatchFails(b)
  PROVE  BatchTypes' /\ \A n \in Agents : AgentInv(n)'
<1>1. /\ b.rows \in Notes /\ batches' = {} /\ batches = {b}
      /\ \/ /\ known' = Updated(known, b.rows) /\ doubt' = doubt \cup DOMAIN b.rows
            /\ UNCHANGED missed
         \/ missed' = missed \cup DOMAIN b.rows /\ UNCHANGED <<known, doubt>>
      /\ UNCHANGED <<past, synced, acks, acks_due, hour_row>>
  BY DEF BatchFails, Over, SyncInv, RowInv, RowTypes, BatchTypes
<1>2. /\ acks \in Seq(Notes) /\ acks_due \in Seq(Notes) /\ known \in [Agents -> Nat]
      /\ RowTypes
  BY DEF SyncInv, RowInv, RowTypes
<1>3. BatchTypes'
  BY <1>1 DEF SyncInv, BatchTypes
<1>4. ASSUME NEW n \in Agents
      PROVE  AgentInv(n)'
  <2>1. VersionsInOrder(n) /\ AnswersInOrder(n) /\ BatchOfHour(n) /\ HourKept(n)
    BY DEF SyncInv, AgentInv
  <2>2. /\ known'[n] \in {known[n], Updated(known, b.rows)[n]}
        /\ Updated(known, b.rows)[n] = IF n \in DOMAIN b.rows THEN b.rows[n] ELSE known[n]
        /\ n \in DOMAIN b.rows => b.rows[n] = hour_row[n] /\ known[n] <= hour_row[n]
    BY <1>1, <1>2, <2>1, UpdatedNote DEF BatchOfHour
  <2>3. /\ synced[n] \in Nat /\ known[n] \in Nat /\ known'[n] \in Nat /\ hour_row[n] \in Nat
        /\ Row(n) \in Nat
    BY <1>1, <1>2, <2>2, RowType DEF SyncInv, BatchTypes
  <2>4. known[n] <= known'[n] /\ known'[n] <= Row(n)
    BY <2>1, <2>2, <2>3 DEF VersionsInOrder
  <2>5. VersionsInOrder(n)'
    BY <1>1, <2>1, <2>3, <2>4 DEF VersionsInOrder, Row
  <2>6. AnswersInOrder(n)'
    <3>1. /\ NotesWithin(acks, n, synced[n], known'[n])
          /\ NotesWithin(acks_due, n, synced[n], known'[n])
      BY <1>2, <2>1, <2>3, <2>4, NotesBelow DEF AnswersInOrder
    <3>2. ASSUME NEW k \in DOMAIN acks_due, n \in DOMAIN acks_due[k]
          PROVE  NotesWithin(acks, n, acks_due[k][n], known'[n])
      <4>1. NotesWithin(acks, n, acks_due[k][n], known[n])
        BY <2>1, <3>2 DEF AnswersInOrder
      <4>2. QED
        BY <1>2, <2>3, <2>4, <4>1, NotesBelow
    <3>3. NotesSorted(acks_due, n) /\ NotesSorted(acks, n)
      BY <2>1 DEF AnswersInOrder
    <3>4. QED
      BY <1>1, <3>1, <3>2, <3>3 DEF AnswersInOrder, NotesWithin, NotesSorted
  <2>7. BatchOfHour(n)'
    BY <1>1 DEF BatchOfHour
  <2>8. HourKept(n)'
    BY <1>1, <2>1, <2>2 DEF HourKept, InBatch, Value
  <2>9. QED
    BY <2>5, <2>6, <2>7, <2>8 DEF AgentInv
<1>5. QED
  BY <1>3, <1>4

LEMMA NotedSyncInv ==
  ASSUME SyncInv, BatchNoted
  PROVE  BatchTypes' /\ \A n \in Agents : AgentInv(n)'
<1>1. /\ acks_due # <<>> /\ acks \in Seq(Notes) /\ acks_due \in Seq(Notes)
      /\ synced \in [Agents -> Nat] /\ RowTypes
      /\ synced' = Updated(synced, Head(acks_due)) /\ acks_due' = Tail(acks_due)
      /\ UNCHANGED <<past, batches, acks, hour_row, known, doubt, missed>>
  BY DEF BatchNoted, SyncInv, RowInv, RowTypes
<1>2. Head(acks_due) \in Notes
  BY <1>1, HeadTailProperties
<1>3. BatchTypes'
  BY <1>1 DEF SyncInv, BatchTypes
<1>4. ASSUME NEW n \in Agents
      PROVE  AgentInv(n)'
  <2>1. VersionsInOrder(n) /\ AnswersInOrder(n) /\ BatchOfHour(n) /\ HourKept(n)
    BY DEF SyncInv, AgentInv
  <2>2. synced'[n] = IF n \in DOMAIN Head(acks_due) THEN Head(acks_due)[n] ELSE synced[n]
    BY <1>1, <1>2, UpdatedNote
  <2>3. NotesSorted(acks_due, n) /\ NotesWithin(acks_due, n, synced[n], known[n])
    BY <2>1 DEF AnswersInOrder
  <2>4. /\ NotesSorted(Tail(acks_due), n)
        /\ NotesWithin(Tail(acks_due), n, synced[n], known[n])
        /\ 1 \in DOMAIN acks_due /\ Head(acks_due) = acks_due[1]
        /\ \A k \in DOMAIN Tail(acks_due) :
             k + 1 \in DOMAIN acks_due /\ Tail(acks_due)[k] = acks_due[k + 1]
        /\ n \in DOMAIN Head(acks_due) =>
             /\ synced[n] <= Head(acks_due)[n] /\ Head(acks_due)[n] <= known[n]
             /\ NotesWithin(Tail(acks_due), n, Head(acks_due)[n], known[n])
    BY <1>1, <2>3, TakeOrdered
  <2>5. n \in DOMAIN Head(acks_due) => NotesWithin(acks, n, Head(acks_due)[n], known[n])
    BY <2>1, <2>4 DEF AnswersInOrder
  <2>6. /\ synced[n] <= synced'[n] /\ synced'[n] <= known[n] /\ synced'[n] \in Nat
        /\ NotesWithin(Tail(acks_due), n, synced'[n], known[n])
        /\ NotesWithin(acks, n, synced'[n], known[n])
    <3>1. CASE n \in DOMAIN Head(acks_due)
      BY <1>2, <2>2, <2>4, <2>5, <3>1, NoteDomain
    <3>2. CASE n \notin DOMAIN Head(acks_due)
      BY <1>1, <2>1, <2>2, <2>4, <3>2, RowType DEF AnswersInOrder, VersionsInOrder
    <3>3. QED
      BY <3>1, <3>2
  <2>7. VersionsInOrder(n)'
    BY <1>1, <2>1, <2>6, RowType DEF VersionsInOrder, Row
  <2>8. AnswersInOrder(n)'
    <3>1. \A k \in DOMAIN Tail(acks_due) :
            n \in DOMAIN Tail(acks_due)[k] =>
              NotesWithin(acks, n, Tail(acks_due)[k][n], known[n])
      BY <2>1, <2>4 DEF AnswersInOrder
    <3>2. NotesSorted(acks, n)
      BY <2>1 DEF AnswersInOrder
    <3>3. QED
      BY <1>1, <2>4, <2>6, <3>1, <3>2 DEF AnswersInOrder, NotesWithin, NotesSorted
  <2>9. BatchOfHour(n)' /\ HourKept(n)'
    BY <1>1, <2>1 DEF BatchOfHour, HourKept, InBatch, Value
  <2>10. QED
    BY <2>7, <2>8, <2>9 DEF AgentInv
<1>5. QED
  BY <1>3, <1>4

LEMMA DrainSyncInv ==
  ASSUME SyncInv, DrainBoth
  PROVE  BatchTypes' /\ \A n \in Agents : AgentInv(n)'
<1>1. /\ acks_due = <<>> /\ acks_due' = acks /\ acks' = <<>>
      /\ UNCHANGED <<past, synced, batches, hour_row, known, doubt, missed>>
  BY DEF DrainBoth, StartDrain, SyncInv, RowInv, DrainedInTasks
<1>2. BatchTypes'
  BY <1>1 DEF SyncInv, BatchTypes
<1>3. ASSUME NEW n \in Agents
      PROVE  AgentInv(n)'
  <2>1. VersionsInOrder(n) /\ AnswersInOrder(n) /\ BatchOfHour(n) /\ HourKept(n)
    BY DEF SyncInv, AgentInv
  <2>2. AnswersInOrder(n)'
    <3>1. NotesSorted(acks, n) /\ NotesWithin(acks, n, synced[n], known[n])
      BY <2>1 DEF AnswersInOrder
    <3>2. NotesSorted(<<>>, n) /\ \A low, high : NotesWithin(<<>>, n, low, high)
      BY DEF NotesSorted, NotesWithin
    <3>3. QED
      BY <1>1, <3>1, <3>2 DEF AnswersInOrder, NotesSorted, NotesWithin
  <2>3. VersionsInOrder(n)' /\ BatchOfHour(n)' /\ HourKept(n)'
    BY <1>1, <2>1 DEF VersionsInOrder, BatchOfHour, HourKept, InBatch, Value, Row
  <2>4. QED
    BY <2>2, <2>3 DEF AgentInv
<1>4. QED
  BY <1>2, <1>3

\* The batch of an hour has every row that the AI server may not have: a row is left
\* out if it is the one noted, and that is the one the AI server has, unless an
\* answer is still on its way.
LEMMA HourSyncInv ==
  ASSUME SyncInv, HourAndSync, batches = {}
  PROVE  BatchTypes' /\ \A n \in Agents : AgentInv(n)'
<1> DEFINE sent == [rows |-> [n \in Changed |-> Row(n)], age |-> 0]
<1>1. /\ acks_due = <<>> /\ Changed \subseteq Agents /\ RowTypes
      /\ batches' = IF Changed = {} THEN {} ELSE {sent}
      /\ hour_row' = [n \in Agents |-> Row(n)] /\ missed' = Noted(Elements(acks))
      /\ UNCHANGED <<past, synced, acks, acks_due, known, doubt>>
  BY DEF HourAndSync, AcksDone, SystemNetworkSync, SyncHistory, Send, Changed, SyncInv, RowInv
<1>2. \A n \in Agents : Row(n) \in Nat
  BY <1>1, RowType
<1>3. /\ sent.rows = [n \in Changed |-> Row(n)] /\ sent.age = 0
      /\ sent.rows \in Notes /\ sent \in Batch
  <2>1. [n \in Changed |-> Row(n)] \in [Changed -> Nat]
    BY <1>1, <1>2
  <2>2. [n \in Changed |-> Row(n)] \in Notes
    BY <1>1, <2>1 DEF Notes
  <2>3. QED
    BY <2>2 DEF Batch
<1>4. /\ DOMAIN sent.rows = Changed
      /\ \A n \in Changed : sent.rows[n] = Row(n)
  BY <1>3
<1> HIDE DEF sent
<1>5. BatchTypes'
  <2>1. batches' \subseteq Batch /\ \A b, c \in batches' : b = c
    BY <1>1, <1>3
  <2>2. hour_row' \in [Agents -> Nat]
    BY <1>1, <1>2
  <2>3. QED
    BY <2>1, <2>2 DEF BatchTypes
<1>6. ASSUME NEW n \in Agents
      PROVE  AgentInv(n)'
  <2>1. VersionsInOrder(n) /\ AnswersInOrder(n)
    BY DEF SyncInv, AgentInv
  <2>2. hour_row'[n] = Row(n) /\ Row(n) \in Nat
    BY <1>1, <1>2
  <2>3. VersionsInOrder(n)'
    <3>1. 1 <= Row(n)
      BY <1>1, <2>1, RowType DEF VersionsInOrder
    <3>2. QED
      BY <1>1, <2>1, <2>2, <3>1 DEF VersionsInOrder, Row
  <2>4. AnswersInOrder(n)'
    BY <1>1, <2>1 DEF AnswersInOrder, NotesSorted, NotesWithin
  <2>5. BatchOfHour(n)'
    <3>1. known[n] <= Row(n)
      BY <2>1 DEF VersionsInOrder
    <3>2. \A b \in batches' : n \in DOMAIN b.rows => b.rows[n] = Row(n)
      BY <1>1, <1>4
    <3>3. QED
      BY <1>1, <2>2, <3>1, <3>2 DEF BatchOfHour
  <2>6. HourKept(n)'
    <3>1. SUFFICES ASSUME n \notin doubt, n \notin Noted(Elements(acks)), n \notin Changed
                   PROVE  Value(n, known[n]) = Value(n, Row(n))
      <4>1. n \in Changed => InBatch(n)'
        BY <1>1, <1>4 DEF InBatch
      <4>2. QED
        BY <1>1, <2>2, <4>1 DEF HourKept, Value
    <3>2. NoneIn(acks, n) /\ NoneIn(acks_due, n)
      BY <1>1, <3>1 DEF Noted, Elements, NoneIn
    <3>3. ~LastIn(acks, n, known[n]) /\ ~LastIn(acks_due, n, known[n])
      BY <3>2 DEF NoneIn, LastIn
    <3>4. synced[n] = known[n]
      BY <3>1, <3>3 DEF SyncInv, RowInv, LastNoteIsKnown
    <3>5. QED
      BY <3>1, <3>4 DEF Changed
  <2>7. QED
    BY <2>3, <2>4, <2>5, <2>6 DEF AgentInv
<1>7. QED
  BY <1>5, <1>6

\* A row changes: the versions there are keep their values.
LEMMA ChangeSyncInv ==
  ASSUME SyncInv, NEW m \in Agents, NEW v \in Values, Change(m, v)
  PROVE  BatchTypes' /\ \A n \in Agents : AgentInv(n)'
<1>1. /\ past' = [past EXCEPT ![m] = Append(@, v)] /\ past \in [Agents -> Seq(Values)]
      /\ RowTypes
      /\ UNCHANGED <<synced, batches, acks, acks_due, hour_row, known, doubt, missed>>
  BY DEF Change, SyncInv, RowInv, RowTypes
<1>2. BatchTypes'
  BY <1>1 DEF SyncInv, BatchTypes
<1>3. ASSUME NEW n \in Agents
      PROVE  AgentInv(n)'
  <2>1. VersionsInOrder(n) /\ AnswersInOrder(n) /\ BatchOfHour(n) /\ HourKept(n)
    BY DEF SyncInv, AgentInv
  <2>2. /\ Len(past[n]) <= Len(past'[n]) /\ Len(past[n]) \in Nat /\ Len(past'[n]) \in Nat
        /\ \A k \in 1 .. Len(past[n]) : past'[n][k] = past[n][k]
    <3>1. past[n] \in Seq(Values)
      BY <1>1
    <3>2. past'[n] = past[n] \/ past'[n] = Append(past[n], v)
      BY <1>1
    <3>3. QED
      BY <3>1, <3>2
  <2>3. known[n] \in 1 .. Len(past[n]) /\ hour_row[n] \in 1 .. Len(past[n])
    <3>1. known[n] \in Nat /\ synced[n] \in Nat /\ hour_row[n] \in Nat
      BY <1>1, RowType DEF SyncInv, BatchTypes
    <3>2. QED
      BY <2>1, <2>2, <3>1 DEF VersionsInOrder, Row
  <2>4. VersionsInOrder(n)'
    BY <1>1, <2>1, <2>2, <2>3 DEF VersionsInOrder, Row
  <2>5. AnswersInOrder(n)'
    BY <1>1, <2>1 DEF AnswersInOrder, NotesSorted, NotesWithin
  <2>6. BatchOfHour(n)'
    BY <1>1, <2>1 DEF BatchOfHour
  <2>7. HourKept(n)'
    BY <1>1, <2>1, <2>2, <2>3 DEF HourKept, InBatch, Value
  <2>8. QED
    BY <2>4, <2>5, <2>6, <2>7 DEF AgentInv
<1>4. QED
  BY <1>2, <1>3

\* Every batch is a frame older.
LEMMA FrameSyncInv ==
  ASSUME SyncInv, NextFrameBoth
  PROVE  BatchTypes' /\ \A n \in Agents : AgentInv(n)'
<1>1. /\ batches' = {[b EXCEPT !.age = @ + 1] : b \in batches}
      /\ UNCHANGED <<past, synced, acks, acks_due, hour_row, known, doubt, missed>>
  BY DEF NextFrameBoth
<1>2. \A b \in batches :
        [b EXCEPT !.age = @ + 1] \in Batch /\ [b EXCEPT !.age = @ + 1].rows = b.rows
  BY DEF SyncInv, BatchTypes, Batch
<1>3. BatchTypes'
  BY <1>1, <1>2 DEF SyncInv, BatchTypes
<1>4. ASSUME NEW n \in Agents
      PROVE  AgentInv(n)'
  <2>1. VersionsInOrder(n) /\ AnswersInOrder(n) /\ BatchOfHour(n) /\ HourKept(n)
    BY DEF SyncInv, AgentInv
  <2>2. BatchOfHour(n)' /\ (InBatch(n) => InBatch(n)')
    BY <1>1, <1>2, <2>1 DEF BatchOfHour, InBatch
  <2>3. VersionsInOrder(n)' /\ AnswersInOrder(n)' /\ HourKept(n)'
    BY <1>1, <2>1, <2>2
       DEF VersionsInOrder, AnswersInOrder, NotesSorted, NotesWithin, HourKept, Value, Row
  <2>4. QED
    BY <2>2, <2>3 DEF AgentInv
<1>5. QED
  BY <1>3, <1>4

LEMMA ElsewhereSyncInv ==
  ASSUME SyncInv, Elsewhere
  PROVE  BatchTypes' /\ \A n \in Agents : AgentInv(n)'
BY DEF Elsewhere, rows, SyncInv, BatchTypes, AgentInv, VersionsInOrder, AnswersInOrder,
       NotesSorted, NotesWithin, BatchOfHour, HourKept, InBatch, Value, Row

\* A batch keeps its distance from the last request for an hour, and when an hour
\* begins there is none.
LEMMA SyncTimedStep ==
  ASSUME Inv, Inv', SyncInv, SyncTimed, [SyncNext]_allvars
  PROVE  SyncTimed' /\ (HourAndSync => batches = {})
<1>1. [Next]_vars /\ 2 * Deadline <= TicksPerHour /\ AskedInTime /\ OfLastHour(batches)
  BY SyncStepIsTickStep, SyncAssumption DEF SyncTimed
<1>2. AskedInTime'
  BY <1>1, AskedStep
<1>3. \A b \in batches : b.age \in Nat
  BY DEF SyncInv, BatchTypes, Batch
<1>4. /\ NewHour => /\ \A b \in batches : b.age < Deadline
                    /\ HourAndSync
      /\ NextFrame => NextFrameBoth
  <2>1. NewHour => phase = "tasks" /\ phase' = "request"
    BY DEF NewHour, TasksDone
  <2>2. NextFrame => phase = "sleep" /\ phase' = "drain"
    BY DEF NextFrame
  <2>3. UNCHANGED vars => phase' = phase
    BY DEF vars, main
  <2>4. ASSUME NewHour \/ NextFrame, SyncNext
        PROVE  HourAndSync \/ NextFrameBoth
    <3>1. DrainBoth => phase = "drain"
      BY DEF DrainBoth, StartDrain
    <3>2. BatchNoted \/ (\E n \in Agents, v \in Values : Change(n, v)) => phase' = phase
      BY <2>3 DEF BatchNoted, Change
    <3>3. GrpcNext \/ (\E b \in batches : BatchAnswered(b) \/ BatchFails(b)) => phase' = phase
      BY <2>3 DEF GrpcNext, Complete, Lose, main, BatchAnswered, BatchFails, Over
    <3>4. TickAnswered \/ TickFailed \/ JobsAnswered \/ JobsFailed => phase' = phase
      BY DEF TickAnswered, TickFailed, JobsAnswered, JobsFailed, NextTask
    <3>5. RequestTick \/ NoRequest => phase = "request"
      BY DEF RequestTick, NoRequest
    <3>6. FrameWithoutHour => phase = "tasks" /\ ~tick_synced_ready
      BY DEF FrameWithoutHour, NoNewHour, TasksDone
    <3>7. NewHour => tick_synced_ready
      BY DEF NewHour, TakeAnswer
    <3>8. QED
      BY <2>1, <2>2, <2>4, <3>1, <3>2, <3>3, <3>4, <3>5, <3>6, <3>7
         DEF SyncNext, SyncMain, SyncGrpc
  <2>5. NewHour \/ NextFrame => SyncNext
    BY <2>1, <2>2, <2>3 DEF allvars
  <2>6. /\ HourAndSync => NewHour /\ \A b \in batches : b.age < Deadline
        /\ NextFrameBoth => NextFrame
    BY DEF HourAndSync, AcksDone, NextFrameBoth
  <2>7. QED
    BY <2>1, <2>2, <2>4, <2>5, <2>6
<1>5. ASSUME NEW x \in batches'
      PROVE  Aged(batches, x)
  <2>1. CASE HourAndSync
    <3>1. NewHour /\ ~NextFrame /\ (x \in batches \/ x.age = 0)
      BY <1>5, <2>1 DEF HourAndSync, SystemNetworkSync, Send, NewHour, NextFrame, TasksDone
    <3>2. QED
      BY <3>1 DEF Aged
  <2>2. CASE NextFrameBoth
    <3>1. PICK b \in batches : x = [b EXCEPT !.age = @ + 1]
      BY <1>5, <2>2 DEF NextFrameBoth
    <3>2. x.age = b.age + 1
      BY <3>1 DEF SyncInv, BatchTypes, Batch
    <3>3. NextFrame /\ ~NewHour
      BY <2>2 DEF NextFrameBoth, NextFrame, NewHour, TasksDone
    <3>4. QED
      BY <3>2, <3>3 DEF Aged
  <2>3. CASE ~HourAndSync /\ ~NextFrameBoth
    <3>1. batches' \subseteq batches
      BY <2>3
         DEF SyncNext, SyncMain, SyncGrpc, DrainBoth, BatchNoted, FrameWithoutHour, Elsewhere,
             rows, BatchAnswered, BatchFails, Over, Change, allvars
    <3>2. QED
      BY <1>4, <1>5, <2>3, <3>1 DEF Aged
  <2>4. QED
    BY <2>1, <2>2, <2>3
<1>6. /\ NewHour => batches = {}
      /\ \A x \in batches' : x.age + Deadline + 1 >= SinceRequest'
  BY <1>1, <1>3, <1>4, <1>5, AgeStep
<1>7. QED
  BY <1>2, <1>6 DEF SyncTimed, OfLastHour, HourAndSync

LEMMA SyncStep ==
  Inv /\ Inv' /\ SyncInv /\ SyncTimed /\ [SyncNext]_allvars => SyncInv' /\ SyncTimed'
<1> SUFFICES ASSUME Inv, Inv', SyncInv, SyncTimed, [SyncNext]_allvars
             PROVE  SyncInv' /\ SyncTimed'
  OBVIOUS
<1>1. RowInv'
  BY RowStep DEF SyncInv
<1>2. SyncTimed' /\ (HourAndSync => batches = {})
  BY SyncTimedStep
<1>3. BatchTypes' /\ \A n \in Agents : AgentInv(n)'
  <2>1. CASE \E b \in batches : BatchAnswered(b) \/ BatchFails(b)
    BY <2>1, AnsweredSyncInv, FailedSyncInv
  <2>2. CASE DrainBoth \/ BatchNoted \/ HourAndSync \/ NextFrameBoth
    BY <1>2, <2>2, DrainSyncInv, NotedSyncInv, HourSyncInv, FrameSyncInv
  <2>3. CASE \E n \in Agents, v \in Values : Change(n, v)
    BY <2>3, ChangeSyncInv
  <2>4. CASE Elsewhere
    BY <2>4, ElsewhereSyncInv
  <2>5. QED
    BY <2>1, <2>2, <2>3, <2>4
       DEF SyncNext, SyncMain, SyncGrpc, FrameWithoutHour, allvars, Elsewhere
<1>4. QED
  BY <1>1, <1>2, <1>3 DEF SyncInv

\* SystemNetwork.cpp SystemNetworkSync: versions, batches and answers are in order,
\* nothing of an earlier batch is under way when the next is sent, and the last
\* answer under way says what the AI server has.
THEOREM SyncInvariant == SyncSpec => [](Inv /\ SyncInv /\ SyncTimed)
<1>1. SyncInit => SyncInv /\ SyncTimed
  <2> SUFFICES ASSUME SyncInit PROVE SyncInv /\ SyncTimed
    OBVIOUS
  <2>1. \A n \in Agents : <<Start[n]>> \in Seq(Values) /\ Len(<<Start[n]>>) = 1
    BY SyncAssumption
  <2>2. /\ past = [n \in Agents |-> <<Start[n]>>]
        /\ synced = [n \in Agents |-> 1] /\ known = synced /\ hour_row = synced
        /\ batches = {} /\ acks = <<>> /\ acks_due = <<>> /\ doubt = {} /\ missed = {}
    BY DEF SyncInit
  <2>3. RowInv
    BY <2>1, <2>2 DEF RowInv, RowTypes, DrainedInTasks, LastNoteIsKnown, NoneIn
  <2>4. BatchTypes
    BY <2>2 DEF BatchTypes
  <2>5. \A n \in Agents : AgentInv(n)
    BY <2>1, <2>2
       DEF AgentInv, VersionsInOrder, AnswersInOrder, NotesSorted, NotesWithin, BatchOfHour,
           HourKept, Value, Row
  <2>6. SyncTimed
    BY <2>2 DEF SyncTimed, AskedInTime, OfLastHour, SyncInit, Init, TickRpcs, NoTick
  <2>7. QED
    BY <2>3, <2>4, <2>5, <2>6 DEF SyncInv
<1>2. QED
  BY <1>1, SyncStep, SyncImplementsTick, TickInvariant, PTL DEF SyncSpec

\* Once the batch of an hour is through, the AI server has the row of every agent as
\* of that hour, whatever earlier batches failed and however the rows change.
THEOREM HoursAreReported == SyncSpec => []HourReported
<1>1. SyncInv => HourReported
  <2> SUFFICES ASSUME SyncInv, NEW n \in Agents, Quiet(n), n \notin doubt \cup missed
               PROVE  Value(n, known[n]) = Value(n, hour_row[n])
    BY DEF HourReported
  <2>1. ~InBatch(n)
    BY DEF Quiet, Noted, InBatch
  <2>2. QED
    BY <2>1 DEF SyncInv, AgentInv, HourKept
<1>2. QED
  BY <1>1, SyncInvariant, PTL

\* The status synchronisation is a replica that only moves forward, and a note that
\* follows it.
THEOREM SyncImplementsReplica == SyncSpec => ImplementsReplica
<1> DEFINE row == [n \in Agents |-> Row(n)]
<1>1. SyncInit => Replica!Init
  <2> SUFFICES ASSUME SyncInit PROVE Replica!Init
    OBVIOUS
  <2>1. row = [n \in Agents |-> 1]
    BY DEF SyncInit, Row
  <2>2. QED
    BY <2>1 DEF SyncInit, Replica!Init
<1>2. SyncInv /\ SyncInv' /\ [SyncNext]_allvars => [Replica!Next]_<<row, known, synced>>
  <2> SUFFICES ASSUME SyncInv, SyncInv', [SyncNext]_allvars
               PROVE  [Replica!Next]_<<row, known, synced>>
    OBVIOUS
  <2>1. /\ known \in [Agents -> Nat] /\ known' \in [Agents -> Nat]
        /\ synced \in [Agents -> Nat] /\ synced' \in [Agents -> Nat]
        /\ past \in [Agents -> Seq(Values)]
    BY DEF SyncInv, RowInv, RowTypes
  <2>2. \A n \in Agents : /\ synced[n] <= known[n] /\ known[n] <= Row(n)
                          /\ synced'[n] <= known'[n] /\ known'[n] <= Row(n)'
    BY DEF SyncInv, AgentInv, VersionsInOrder
  <2>3. UNCHANGED past => row' = row
    BY DEF Row
  <2>4. CASE \E b \in batches : BatchAnswered(b) \/ BatchFails(b)
    <3>1. PICK b \in batches : BatchAnswered(b) \/ BatchFails(b)
      BY <2>4
    <3>2. UNCHANGED <<past, synced>> /\ known' \in {known, Updated(known, b.rows)}
      BY <3>1 DEF BatchAnswered, BatchFails, Over
    <3>3. ASSUME NEW n \in Agents
          PROVE  known[n] <= known'[n]
      <4>1. n \in DOMAIN b.rows => known[n] <= b.rows[n]
        BY DEF SyncInv, AgentInv, BatchOfHour
      <4>2. QED
        BY <2>1, <3>2, <4>1 DEF Updated
    <3>4. Replica!Forward(known, known', row)
      BY <2>2, <2>3, <3>2, <3>3 DEF Replica!Forward, Row
    <3>5. QED
      BY <2>1, <2>3, <3>2, <3>4 DEF Replica!Next, Replica!Deliver
  <2>5. CASE BatchNoted
    <3>1. /\ UNCHANGED <<past, known>> /\ synced' = Updated(synced, Head(acks_due))
          /\ acks_due # <<>> /\ acks_due \in Seq(Notes)
      BY <2>5 DEF BatchNoted, SyncInv, RowInv, RowTypes
    <3>2. ASSUME NEW n \in Agents
          PROVE  synced[n] <= synced'[n]
      <4>1. NotesSorted(acks_due, n) /\ NotesWithin(acks_due, n, synced[n], known[n])
        BY DEF SyncInv, AgentInv, AnswersInOrder
      <4>2. n \in DOMAIN Head(acks_due) => synced[n] <= Head(acks_due)[n]
        BY <3>1, <4>1, TakeOrdered
      <4>3. QED
        BY <2>1, <3>1, <4>2 DEF Updated
    <3>3. Replica!Forward(synced, synced', known)
      BY <2>2, <3>1, <3>2 DEF Replica!Forward
    <3>4. QED
      BY <2>1, <2>3, <3>1, <3>3 DEF Replica!Next, Replica!Acknowledge
  <2>6. CASE \E n \in Agents, v \in Values : Change(n, v)
    <3>1. PICK n \in Agents, v \in Values : Change(n, v)
      BY <2>6
    <3>2. past' = [past EXCEPT ![n] = Append(@, v)] /\ UNCHANGED <<known, synced>>
      BY <3>1 DEF Change
    <3>3. past[n] \in Seq(Values) /\ Len(Append(past[n], v)) = Len(past[n]) + 1
      BY <2>1
    <3>4. row' = [row EXCEPT ![n] = @ + 1]
      BY <2>1, <3>2, <3>3 DEF Row
    <3>5. QED
      BY <3>2, <3>4 DEF Replica!Next, Replica!Change
  <2>7. CASE UNCHANGED <<past, known, synced>>
    BY <2>3, <2>7
  <2>8. QED
    BY <2>4, <2>5, <2>6, <2>7
       DEF SyncNext, SyncMain, SyncGrpc, DrainBoth, HourAndSync, SystemNetworkSync,
           FrameWithoutHour, NextFrameBoth, Elsewhere, rows, allvars
<1>3. QED
  BY <1>1, <1>2, SyncInvariant, PTL DEF SyncSpec, ImplementsReplica, Replica!Spec
=============================================================================
