# Mundus Vivens game server: verification project

TLA+ models of the C++ game server in `src/`, TLC runs that check them on small
instances, and TLAPS proofs of what matters most for every value of the
constants. The C# AI server, the Unity client and the libraries (Asio, agrpc,
EnTT) are external: they are modelled from how the code uses them.

## The system

Three threads, and no others:

| thread | runs | writes |
|---|---|---|
| main | `GameLoop::Run`, 20 Hz: the result queue's tasks, cleanup, commands, the hourly and the per-frame systems | the EnTT registry, `EntityIndex`, the clock variables of `main` |
| I/O (one Asio thread) | accept loop, one receive and one write coroutine per session | `sessions_`, `pending_commands_`, sockets |
| gRPC (one agrpc thread) | the coroutines of `AsyncGrpcClient` | nothing of the game; it runs callbacks |

They meet in four places: `GrpcResultQueue` (callbacks push tasks, the main
thread drains them once per frame), `pending_commands_` (sessions push, the main
thread swaps them away), `sessions_` (a shared mutex), and the two atomics and
the timer of a session's flow control.

Components, their state, operations and what makes them correct:

| component (source) | state | operations | correct means |
|---|---|---|---|
| result queue (`GrpcResultQueue.h`) | `write_buffer_`, `read_buffer_`, mutex | `Push`, `Drain` | FIFO, nothing lost or repeated, a drain is bounded |
| flow control (`ClientSession.h/.cpp`) | `pending_grpc_requests_`, `is_reading_suspended_`, timer, coroutine | `Increment/DecrementPendingGrpc`, `CheckBackpressure`, `Run` | count exact, no wrap, stops only above HIGH, always resumes |
| TCP server (`TcpServer.cpp`) | `sessions_`, `next_session_id_`, `pending_commands_` | accept, register, unregister, queue, drain, send, broadcast | a session that is gone is forgotten |
| framing (`PacketProtocol.h`, `ClientSession.cpp`) | write channel | `HandlePacket`, `Send`, `WriteLoop` | header and payload agree, memory freed once |
| players and dialogues (`SystemPlayer.cpp`) | `PlayerTag`, `PlayerDialogueComp`, `BusyTag`, `EntityIndex` | login, move, talk, message, end, status, cleanup, five callbacks | indices never dangle, one entity per account, NPCs are freed |
| game clock (`main.cpp`, `GameLoop.cpp`) | `tick`, `is_tick_sync_pending`, ready flag, cached answer | frame, tick request, answer, new hour, pending jobs | every hour once, in order, in step with the AI server |
| gRPC client (`AsyncGrpcClient.cpp`) | RPCs in flight | one coroutine per call: answer, error, deadline, exception | every callback runs |
| job driver (`SystemJobDriver.cpp`) | `JobComp`, `ToilComp`, `BusyTag(ScheduleWait)` | Idle, Moving, Working, Interrupted; reports | an NPC always gets on with its schedule |
| survival and furniture (`SystemSurvival.cpp`, `BehaviorTrees.h`) | `NeedsComp`, `AffordanceComp.occupied_by` | decay, override, find, occupy, release | one occupant per furniture, both sides agree |
| NPC social and emotion (`SystemSocial.cpp`) | `BusyTag`, `CooldownComp`, `EmotionComp`, `EmotionRegistry` | trigger, reply, decay | nobody stays busy without a dialogue, cooldowns respected |
| behaviour trees, combat, perception, death | `AggroComp`, `CombatComp`, `HealthComp` | inhibit, approve, time out, attack, die | who waits gets an answer, nobody attacks without a reason |
| movement, pathfinding (`GridMap.cpp`, `SystemMovement.cpp`) | `PathfindingComp`, grid, path cache | `FindPath`, `IsPathBlocked`, move | paths are free and short, walks end where they should |
| locations (`LocationRegistry.cpp`) | `cell_entities_`, `entity_to_cell_`, zones | `UpdateEntityPosition`, `RemoveEntity`, `GetNearbyEntities` | lists and map agree, who is near is found |
| status sync (`SystemNetwork.cpp`) | `LastSyncedComp` | batch, acknowledgement, snapshot | the AI server ends up with the present row |
| ambient, bootstrap, shutdown, benchmarks | | | see "Not modelled" |

The hard behaviours are: state captured by a callback and used frames later;
sessions that vanish or return in the middle of a request; RPCs that fail after
the AI server has acted, or lose their callback in an exception; the flow control,
which has no lock; memory that is freed by hand; searches that are limited, remembered
and handed to others; positions that are kept twice. `PROJECT.json` lists them, with
their line and the properties that watch them, under `hazards`.

## Modules

| module | models | proofs |
|---|---|---|
| `TaskChannel` | what the result queue promises: a FIFO of tasks, each run once | |
| `GrpcResultQueue` | `GrpcResultQueue.h`, implements `TaskChannel` | `GrpcResultQueueProofs` |
| `Backpressure` | flow control of one session, three threads | `BackpressureProofs` |
| `SendQueue` | the way of a packet to the client: posting, bounded channel, write coroutine, memory, the end of a session | `SendQueueProofs` |
| `PlayerDialogue` | sessions, command queue, players, dialogue RPCs, cleanup, with arbitrary clients | `PlayerDialogueProofs` |
| `PatientClients` | `PlayerDialogue` restricted to well-behaved clients | `PlayerDialogueProofs` |
| `WorldTick` | frame loop, tick RPC, jobs RPC, AI server's clock | `StatusSyncProofs` |
| `StatusReplica` | what the status synchronisation promises: a replica that lags but never goes back | |
| `StatusSync` | `SystemNetworkSync` composed with `WorldTick`, implements `StatusReplica` | `StatusSyncProofs` |
| `NpcSchedule` | job driver, needs and furniture, with the dialogues, fights and movement that interrupt them | `NpcScheduleProofs` |
| `Aggro` | perception, threat inhibition and its question to the AI server, combat, death | `AggroProofs` |
| `GridMap` | tiles, the steps of A*, line of sight; the reference definition of a shortest walk | `PathfindingProofs` |
| `Pathfinding` | `SystemPathfinding`, `FindPath` with limit, budget and cache, `SystemMovement` | `PathfindingProofs` |
| `MC...` | values and symmetry for TLC | |

How they fit together. `PlayerDialogue`, `WorldTick`, `NpcSchedule` and `Aggro` take the
result queue as the FIFO that `GrpcResultQueue` is proved to implement, with the swap
of `Drain` as one step. `StatusSync` extends `WorldTick`: each of its frames is one of
the clock's. `PlayerDialogue` leaves the count of `Backpressure` out: it decides when a
packet is read, and a model that lets clients send at any time allows every such
delay. `SendQueue` takes a reader that falls asleep and is woken from `Backpressure`.
`NpcSchedule` takes a walk as "arrives, or does not yet"; what a walk is made of is in
`Pathfinding`, which in turn takes jobs, flight and dialogues as orders that come at any
time. `NpcSchedule` and `Aggro` share the dialogue and the fight: in each, what the other
models is a free choice.

### GrpcResultQueue

A producer (any thread that calls `Push`) acquires the mutex, appends, and leaves
the `lock_guard`'s scope; the main thread acquires, swaps the buffers and releases
in `Swap`, then runs `read_buffer` task by task without the lock (`Dispatch`),
then clears it. A task that runs may itself start RPCs, whose callbacks push
later from the gRPC thread: the tasks of this program never push directly.
The refinement mapping gives `TaskChannel` the queue "the rest of `read_buffer`,
then `write_buffer`" (`Pending`). Bounds: two producers, two task values, four
pushes; enough for a push before, during and after a swap and for two drains.

### Backpressure

Every atomic load and store, and every call on the timer, is a step. `io` is the
place of the receive coroutine: about to test the flag, about to arm the timer,
asleep, reading, closed. `cancel()` ends a wait in progress and does nothing to
one that has not begun: both outcomes of the unsynchronised call on the timer are
interleavings. Memory is sequentially consistent, as the code's default
`std::atomic` operations are. `queued` stands for the session's commands between the two threads, a
packet may queue none (heartbeat, unknown id) or one. A coroutine that is asleep
does not notice that its client is gone. Broken-off RPCs (`Lose`) are the
`catch` blocks of `DoStartPlayerDialogue`, `DoSendPlayerMessage` and
`DoEndPlayerDialogue`, which log and drop the callback. Bounds: HIGH 3 and LOW 1
(32 and 8 in the code), six packets: twice HIGH, so a session can be stopped,
released and stopped again; one dropped callback, not more than LOW.

### PlayerDialogue, PatientClients

The main thread's frame is the sequence `StartDrain`, `RunTask`*, `StartCleanup`,
`CheckPlayer`*, `CleanUp`, `FetchCommands`, one command each (`Login`,
`TalkToNpc`, `TalkRefused`, `EndDialogue`), `EndFrame`. The I/O and gRPC threads
take steps between any two of them, so that a session may vanish after the
cleanup has looked at it. Within a step the main thread touches shared state once.
A callback's captures are the fields of the RPC's record. The RPC of a dialogue
is named by its number and the AI server's dialogue id is that number.
`told` is the dialogue id the client knows, which it sends with its end command.
`DialogueEnded` does the same on success and on failure, as the callback does
(`SystemPlayer.cpp:346`, which never looks at `success`).
`NewHandles` is what EnTT's versioned handles give: a new entity never has the
handle of one that a callback still holds.

A call that fails may have done its work at the AI server or not (`AtServer`: error,
deadline and exception are alike in this). A start that failed may have opened a
dialogue whose id nobody learns; an end that failed may not have ended one, and neither
the callback (`SystemPlayer.cpp:346`) nor the cleanup's (`SystemPlayer.cpp:35-39`,
`CloseAtServer`) asks again. The history variable `stray` holds the dialogues that are
open for one of these reasons, `closing` those whose end the cleanup has asked for.

Other systems put BusyTags on NPCs, which only refuses talks, and take them away, which
matters: a melee hit takes whatever tag the victim has (`BehaviorTrees.h:905-908`, in
`EndFrame`), and the answer to a dialogue of NPCs those of all participants
(`SystemSocial.cpp:704` and `712`, `NpcDialogueTask`); one that was hit during such a
dialogue may be in a player's by then. Both may hit any busy NPC in any frame
(`TagsTaken`); `taken` remembers which NPCs lost their tag during a talk. `dropped` are
the players whose callback `AsyncGrpcClient` has dropped.

`PatientClients` conjoins to the I/O steps what a careful client does: it waits
until its request is settled, ends a dialogue before it begins another, and does
not share an account. It restricts only clients: disconnects, failing RPCs and
all interleavings of the server stay. The bookkeeping is right under these rules, but
for the NPCs whose tag was taken and the dialogues that failed calls left open;
`leak_on_disconnect` shows what happens without the first of them.

### WorldTick

The frame: `StartDrain`, the tasks (`TickAnswered`, `TickFailed`,
`JobsAnswered`, `JobsFailed`), then `NewHour` (the whole `if` of
`main.cpp:456-553` as far as the clock is concerned) or `NoNewHour`, then
`RequestTick` or `NoRequest`, then `NextFrame`. RPCs carry their age in frames;
the frame that would find an RPC older than its deadline waits in `TasksDone`
until that RPC has completed. This is the one place where time matters, and only
`JobsInOrder` and the order of the status batches depend on it: the code's hour is
exactly two deadlines, 200 and 100 frames, so that the jitter of the sleep and of the
gRPC thread must stay below the round trip of the next tick request plus one frame. The AI server
processes the hour it is asked for, once or again, also when the answer is lost.
It is run as part of `StatusSync`. Bounds: an hour of 4 frames, deadlines of 2 (the
same ratio as in the code), days of 3 hours, three hours, so that the clock passes
midnight in the middle of a run; one dropped callback. `MaxTick` keeps the model
finite: `HourIsDue` asks for no hour beyond it, where the code goes on.

### StatusReplica, StatusSync

A row is (location, emotion, activity) of an agent. `past[n]` is the history of its
values; a batch, an acknowledgement and `LastSyncedComp` name versions, places in
that history, while the test of `SystemNetwork.cpp:12-25` compares values (`Changed`):
a row that changed and changed back is not sent. The batch of an hour goes out in the
frame of the hour (`HourAndSync`); its answer is a task of a later frame
(`BatchNoted`). `BatchFails` is an error status, a deadline or an exception, after
the AI server has got the batch or instead of it. `SyncedIsKnown` and `HourReported`
name, in the history variables `doubt` and `missed`, the two cases in which the game
server cannot know what the other side has. One of them is worth an eye: a batch
that was received but reported as failed leaves the note at the old value, and if the
row then returns to that value, it is never sent again. Assumed of the AI server: it
processes a batch before the deadline of the request or not at all. Bounds: two agents,
two values, two changes; the clock of `WorldTick` above.

### NpcSchedule

A frame is `phase`: "tasks" (answers of the AI server and player commands), "jobs"
(once an hour: `SystemJobDriver`, then NPC-NPC dialogues), "bt" (the behaviour
trees), "body" (`SystemDeath`, `SystemSurvivalOverride`, `SystemPathfinding`,
`SystemMovement`) and "furniture" (`SystemAffordanceResolver`). In "jobs", "bt"
and "body" the NPCs in `todo` are visited in any order, as EnTT's views promise
none. The systems of "body" touch only the NPC they visit and are one step for
each. The tree of an NPC is one step per node (`node`), because the nodes
of the furniture branch read and write different entities.

| in the model | in the code |
|---|---|
| `job[n]`: `place` and `at` | `JobComp::target_location`, and the place in which `target_x`, `target_z` lie; they may differ |
| `npc[n]`: `toil`, `ticks`, `floor` | `ToilComp`: state, `duration_ticks`, `current_action` is one of the two `..._On_Floor` |
| `npc[n]`: `critical` | hunger or fatigue below 15 |
| `npc[n]`: `foe`, `hp`, `pos` | `CombatComp::target_entity`, hits left, `LocationComp` |
| `resolving`, `occupied` | `NeedsComp`: `current_survival_type` while `is_resolving_survival`, `occupied_furniture` |
| `occupied_by`, `camp` | `AffordanceComp`; `camp[f]` is the need a temporary piece serves, `None` if it does not exist |

A job id stands for its payload, the virtual ids 999000 and 999001 are the needs
themselves. `Event` counts what comes from outside (jobs given, dialogues, hits, a
need that becomes critical, walks for pleasure) up to `MaxEvents`; the server's own
steps are not bounded. What is assumed of the outside: bootstrap furniture is not
temporary and none stands in the wilderness; the AI server sends `next_jobs` only
for NPCs that took part in the dialogue; a request of the hour is answered before
the next hour (`WorldTick`'s deadlines); the attacker is external (`Hit`), NPCs
here start no fights. The duration 9999 of `ActionInteractFurniture` is never read
and is left out. `LoseTalk` is the `catch` of `DoTriggerDialogue`, which drops the
callback: its participants stay busy until something else takes their tag.

### Aggro

A frame is "tasks" (answers to `ThreatDetected`, the hour, dialogues), "perceive",
"bt" (one tree after the other, in any order) and death. `SystemPerception` and
`SystemDeath` visit every NPC in one step each, since no NPC's part reads what
another's writes. The tree's branches for threats are disjoint actions in the order of
the tree: `LivingTarget` (`FleeOrChase`, `Strike`), `AggroHigh` (`Pounce` of a beast,
`HeldBack`, `AskFirst`, `KeepWaiting`, `GiveUp` of a sentient NPC), `Peace`.
`questions[n][t]` counts the calls under way by asker and threat, because the callback
captures only these two and reads `AggroComp` when it runs (`Approve`, `Restrain`,
`CallFails`): the answer to an old question meets the state of a newer one. Who stands
near whom, and so who is felt, talked to or struck, is a free choice in every frame.
`Gain` is what perception computes: the hostility of the two factions, which never
changes (`Faction`, `Hostility`), or within a faction a private grudge. `grudge` is that
part of `RelationshipCacheComp` which it reads, the pairs with a liking of -50 or less,
and every hour may bring another one (`NewHour`, `main.cpp:462-474`), while
`threat_entity`, scores and questions stay. So an approval may come when its threat is no
foe any more. `foes[n]`, a history, are those that n has felt as threats since it asked
the oldest of its questions under way.
Scores are scaled to 2, waits to 2 frames, exemptions to 1 and cooldowns to 1 hour.
Bounds: a villager that fears a wolf and bears a rival a grudge in some hours (`Related`);
who ever comes near whom (`Sight`: the rival keeps clear of the wolf); two hours; two
questions about a pair at once, the second being asked after the first was given up.

### SendQueue

`Send` on any thread makes a buffer and posts it; on the I/O thread `TrySend` puts it
into the channel or `Refuse` frees it. The writer takes a packet, writes it and frees
it; when either coroutine ends it closes the socket, and the writer's end and the
destructor empty the channel. A code block without `co_await` is one step. The
object lives as long as its coroutines, the posted handlers and the server's table
refer to it (`Destroy`). `freed[p]` counts how often the heap memory of a large packet
was freed: the buffer is copied byte by byte, nothing in the types prevents a leak or
a second free. Bounds: a channel of 2 (1024), six packets, four of them large.

### GridMap, Pathfinding

A frame is "Orders" (all other systems: jobs, steering, dialogues, furniture), "Plan"
(`SystemPathfinding`), "Search" (a `FindPath` within it, one action per iteration) and
"Move" (`SystemMovement`); `turn` is the NPC visited, in the view's order. The order
matters: the budget of searches goes to the first.

| in the model | in the code |
|---|---|
| `npc[n].waypoints`, `index`, `partial`, `last_target`, `retries`, `last_cap` | `PathfindingComp` |
| `npc[n].toil`, `target`, `loc` | `ToilComp`; `JobComp::target_x/z` and `LocationComp`, as the tile `std::round` gives |
| `npc[n].speed` | `VelocityComp::speed` is not 0 |
| `search` | `open_set`, `g_score`, `parent`, `iterations`, best so far |
| `cache` | `path_cache_`, from squares of start and end to a path |

The ends of a search are fixed when it starts, clamped to the grid (`Here`, `There`, then
`From`, `To`). The costs of a step are parameters: 100 and 141 in the run, for the 1.0 and
1.41421356 of the code, which the proofs cover exactly in units of 10^-8; the rounding of
sums of floats is left out. Of entries of equal f the heap may return any (`Top`). A frame moves
an NPC to a neighbouring tile at most, along the straight line to its waypoint or
target; without path and sight (`Drift`) it gets to any neighbouring tile, walls included, as
the steering may. That an NPC which sees its target keeps to the line is an assumption
on the steering. Furniture stands on free tiles. The reference half of `GridMap`
defines what a search should find without a search: steps whose rectangle is free, and
the cheapest walks by relaxation. Bounds: 6 by 4 tiles with a wall to go round and a
room without a door; squares of 2 (8); 8 iterations (10000), less than the way round
needs from some tiles and enough from others, so that whole, partial and failing
searches occur; one search a frame (8), one path remembered before the cache is
emptied (500); three orders.

## Runs

| run | shows |
|---|---|
| `queue` | the queue implements the channel; a drain runs only what was there when it began; every task runs |
| `backpressure` | the count is exact in all interleavings and paid back except for dropped callbacks; no session is stopped that never had HIGH requests; a sleeper is woken once the main thread has settled |
| `backpressure_wake` | *violation*: two overlapping checks can leave the coroutine asleep with the flag false |
| `send_queue` | the memory of a large packet is freed exactly once; delivery is in order and lacks only what was refused; a session whose socket is closed comes to an end, unless its reader sleeps for good |
| `player_dialogue` | arbitrary clients: indices safe, one entity per account, nothing put on dead players, sessions forgotten; nobody waits for its dialogue for ever but a player whose callback was dropped |
| `patient_clients` | patient clients: a busy NPC is accounted for; an NPC in a dialogue is busy and in no other, unless its tag was taken; no dialogue is left open at the AI server but by a failed call |
| `leak_on_disconnect` | *violation*: disconnecting between talk and answer leaves the NPC busy for good |
| `world_tick` | the clock with the status batches: clocks in step, every hour once, daily reset, jobs in order, hours keep coming; the note of what was synchronised is right, every hour is reported, the replica never goes back |
| `npc_schedule` | both sides of an occupation agree in every state; a camp that is pitched is slept in and pulled down; whoever is busy with a dialogue is in one |
| `npc_crisis` | an NPC in ScheduleWait has neither a job nor a crisis; the virtual job of a crisis ends with it; a crisis ends |
| `aggro` | who holds back has a question under way; nobody attacks one that has neither hit it nor been felt as a foe since it asked, however late an approval comes and whatever the hour has reconciled; no question about one that is exempt |
| `pathfinding` | remembered paths are shortest walks that touch no wall; who is put onto a target is near it but for the shortcuts the code takes; once no new orders come, a walk ends but for two excuses |

Deadlock is checked everywhere but in the two `Backpressure` runs and `send_queue`: a
client that sends nothing more, or has left, lets the session rest, and a session ends.
In `player_dialogue`, `world_tick`, `npc_schedule`, `npc_crisis`, `aggro` and
`pathfinding` the frame loop never stops. `queue` ends in the main thread's idle drains.

States: `patient_clients` 3,743,000; `aggro` 2,302,000; `player_dialogue` 676,000;
`world_tick` 585,000; `npc_schedule` 577,000; `pathfinding` 181,000; `npc_crisis` 148,000; `send_queue` 2,300.

`npc_schedule` has two NPCs for one bed, two camps and two events: enough for two crises at
once, for a dialogue, a fight or a new job in the middle of one, and for each to meet
the other NPC at any node of its tree; NPCs and camps are symmetric. `npc_crisis` has
one NPC, three events and two ticks of work: a job, a dialogue and the answer to its
report, or a crisis, a hit and a job. It uses no symmetry, since it checks liveness.

`player_dialogue` has two sessions, two handles, one NPC and three commands, one
of them possibly from a session that takes over the account of the other; that
is the least in which a login overtakes the cleanup and an old answer meets a new
player. `patient_clients` has two NPCs and six commands: two logins and four commands
of dialogues, so that one client can be in a dialogue, lose its NPC's tag and end it while
the other starts one with the same NPC; it uses symmetry in sessions and
handles, which no definition tells apart, and checks safety only.

`aggro` has three NPCs so that an approval about one threat can meet another; two
questions about a pair, so that the answer to a question that was given up meets the
next one; and an exemption as long as an hour, so that it ends within the run. The
rival is felt weakly: it takes several frames at its sight to reach the score. Whether
the villager bears it a grudge is chosen at the start and in every hour, so that an
approval can meet a rival that was reconciled after the question: without `foes`
`FightsOnlyFoes` is violated.

`pathfinding` has two NPCs and one search a frame, so that one can wait for the other for
ever; three orders, so that a walk can be stopped, sent elsewhere and stopped again. What
the shortcuts of `ArrivesNear` and the excuses of `WalkEnds` admit does occur: without
any one of them the property is violated. That orders come to an end is a condition of
`WalkEnds` and not a bound only: an NPC that is sent elsewhere on its way again and again
may walk for ever. The counter of tries that lead nowhere is watched from one side: one
that ends a walk too early would not violate it.

### Fairness

- `queue`: a thread that is in `Push` or `Drain` goes on, and the loop drains again.
- `backpressure`: the I/O thread runs a ready coroutine, the main thread drains
  commands every frame, the gRPC thread completes every RPC (all have a
  deadline). Packets and disconnects are the client's and get no fairness.
- `send_queue`: the I/O thread runs posted handlers, the writer and the destructor; a
  read on a closed socket fails. Nothing is asked of the wake-up of a sleeping reader,
  which may be missed (finding 1) or never be due (dropped callbacks): `SessionEnds` has
  a reader that sleeps for good as its excuse, since a coroutine asleep does not notice
  that its client is gone, and so the object and its place in `sessions_` stay. A client whose window is closed may hold up a
  write, but not on a socket that has been closed.
- `player_dialogue`: weak fairness of the main thread as a whole and of the
  completion of each RPC, successful or not, done at the AI server or not. Clients owe
  nothing, and neither do hits.
- `world_tick`: weak fairness of the main thread and of completion, of batches too;
  strong fairness of a successful tick answer, which says that the AI server does not
  fail the same hour for ever. Without it no clock could go on: the code only
  promises to ask again (`main.cpp:591`).
- `npc_crisis`: weak fairness of the main thread; dialogues end (their RPCs have
  deadlines, or the client ends them); a walk arrives, which presumes that a way exists
  and, as `CrisisResolved` says, that no dialogue finds the NPC on its way; an NPC that
  is at its target is found to be there by `ActionMoveToTarget`, before and after it has
  settled; a need that recovers tick by tick reaches 95. The last three are strong,
  because each is enabled only at one node of the tree. They replace distances and
  rates that the model has not. No fairness is asked of the AI server, which need not
  send a job.
- `pathfinding`: weak fairness of the game loop, `Frame`. It goes on for ever; nobody has
  to give an order.

## Findings

1. `ClientSession.h:41-50`, run `backpressure_wake`. The comment at line 48 promises
   an immediate wake-up when the pressure is released. `CheckBackpressure` is not
   atomic and runs on two threads; a check that loads `was_suspended` before the
   other thread's store and stores `false` after it issues no cancel. What holds
   is `SleeperWokenWhenSettled`: if requests above LOW are outstanding when all
   checks are over, their completions do wake the coroutine.
2. `SystemPlayer.cpp:15-62`, run `leak_on_disconnect`. The comment at line 29
   promises that the NPC of a lost session is freed; it is not between talk and
   answer.

Observed while modelling, without a run of their own:

- **A walk that is frozen.** `SystemBusyAmbient` (`SystemAmbient.cpp:12-16`) takes the
  speed of an NPC in a dialogue, and the `else` of `SystemMovement.cpp:303-307` that of one
  that was interrupted. If it is on a path, the path is kept, and `SystemPathfinding`
  restores the speed only with a new path (lines 58, 102-107) or with the target in sight
  (line 55): it stays `Moving` and stands until a system gives it a target more than 2
  units away. Conversely, with its target in sight it gets its speed back in the same
  frame and walks on during the dialogue. This is the second excuse of `WalkEnds`.
- **Eight that starve the rest.** NPCs whose search fails in each frame are sent out again
  by `ActionMoveToTarget` (`BehaviorTrees.h:348`); eight of them use up the budget of every
  frame (`SystemMovement.cpp:60`), in the same order. The first excuse of `WalkEnds`.
- **Jumps.** A remembered path is used for any start and end in the same squares, and ends
  as a complete one (`GridMap.cpp:133-139`): the NPC goes straight to its first waypoint,
  through walls, and is put from its last one onto the target (`SystemMovement.cpp:235`),
  although line 270 wants to prevent jumps. So is an NPC whose target no way leads to
  (`GridMap.cpp:254`: only the limit makes a path partial), and one that was put onto a
  bed with a path left over. `ArrivesNear` says by how much.
- `BehaviorTrees.h:437-439`: taking a seat changes the position and not the spatial hash,
  where `LocationRegistry.h:53` says that `entity_to_cell_` is the cell an entity is in now.
  Within a zone the seat may be at any distance (line 336): until it walks again, the
  sleeper is looked for where it stood.
- `SystemSocial.cpp:737`: perception asks for 20 m, of a search of three by three cells of
  8 m (`LocationRegistry.cpp:148`): beyond 8 m it depends on where in its cell the NPC
  stands, beyond 16 m nobody is seen.
- The line of sight passes between two corners that touch, A* does not.
- `SystemPlayer.cpp:350`: a late answer to an end command takes the BusyTag that a later
  dialogue has put on the NPC.
- **A talk is not protected by its tag.** A hit on an NPC that talks with a player takes its
  BusyTag (`BehaviorTrees.h:905-908`), as does the answer to a dialogue of NPCs in which it
  took part before it was hit (`SystemSocial.cpp:704`, `712`). The player keeps its dialogue,
  a second player may begin one with the same NPC, and the first of the two to end releases
  the NPC from both. `NpcKeptForTalk` names this case.
- **A dialogue nobody ends.** If `EndPlayerDialogue` fails, runs out of time or throws, the
  dialogue stays open at the AI server and nobody knows of it: the callback does not look
  at `success` (`SystemPlayer.cpp:346-355`), that of the cleanup only logs (lines 35-39).
  `NoOrphanDialogue` names these, and the dialogues of starts that failed after they had
  been opened.
- **A player that waits for ever.** If the callback of `StartPlayerDialogue` is dropped
  (`AsyncGrpcClient.cpp:239`), the player keeps its BusyTag for as long as it stays and sends
  no end for a dialogue it never got: the one excuse of `NobodyWaitsForEver`.
- `BehaviorTrees.h:1014`: an approval attacks the threat of the moment without asking whether
  it is one still: the hour may have raised the liking (`main.cpp:462-474`), while
  `threat_entity` stays until the score has fallen to 0 at its sight or without it.
- `Systems.h:33`: all unknown ids become 0, so that two bots with ids of their own
  (`load_test.py:19`) share one entity. A login with the id of an NPC finds the NPC
  (`SystemPlayer.cpp:104`).
- `SystemJobDriver.cpp:64-71`: the answer to an interruption report brings a job whose
  coordinates are not copied: the NPC walks to those of its former job and works there.
- While the AI server fails, a sentient NPC asks again in every round of waiting: a failed
  call clears `is_inhibited` and leaves the score (`BehaviorTrees.h:1041`).
- `BehaviorTrees.h:1025`: the exemption of 600 is compared with hours and not with frames.
  It would last 25 days, but `main.cpp:481` clears all cooldowns at midnight, and the end
  of a dialogue overwrites it with 2 hours.
- `main.cpp:619` looks for dialogues by a text that `SystemBusyAmbient` overwrites.
- `SystemSocial.cpp:555`: the 257th emotion name gets the number of the first.

## Proofs

All for any constants that satisfy the named ASSUME of the module: no bound on
producers, tasks, sessions, entities, NPCs, thresholds, hours or deadlines.
Type correctness is part of each inductive invariant.

- **GrpcResultQueueProofs**. `Spec => ImplementsChannel`. The invariant ties each
  thread's program counter to the lock and says that `read_buffer` is empty
  outside a drain; without that the swap would put old tasks back into
  `write_buffer`. A push maps to `Put`, a dispatch to `Run`, swap and clear to
  stuttering. `BoundedDrain` follows from the same invariant: while the main thread
  dispatches, no step of any thread touches `read_buffer`.
- **BackpressureProofs**. `CountExact` with the type invariant is inductive,
  and `NoUnderflow` follows: between the test and the subtraction the RPC being
  completed is still counted. `NoSpuriousStop` needs `StopsSeen`: a thread about to
  store `true` has seen HIGH, and `peak` bounds the count.
- **PlayerDialogueProofs**. `IndexSafety`, `OnePlayerPerAccount` and
  `NoComponentOnDead`, for arbitrary clients. Strengthened by `AccountIndexed`:
  every living player is the entry of its account, so that a login that finds no
  entry cannot create a second one, and `CleanUp`, which erases by the
  player's own tag and id, leaves no entry behind.
  Then, for patient clients, the three properties of `patient_clients`. Their invariant
  has three parts. `OneAtATime`: a session waits for one command, RPC or answer at most,
  which is in one of the queues or in flight and nowhere else; this is what patience buys, and
  every step has to keep it. `InTurn`: the queue that a system of the frame works on is
  empty in the others. `Books`: what that one thing is fits the state it meets
  (`OrdersFit`, `StartsFit`, `EndsFit`), so that a start finds its player without a
  dialogue and an end finds the dialogue it names; an NPC that a start waits for keeps its
  tag and is in no dialogue, unless the tag was taken (`StartsKept`); and every BusyTag is owed to a start
  under way or a dialogue (`Accounted`), every dialogue of the AI server that no failed call left there to a dialogue here, an answer
  that brings it or the cleanup that ends it (`Known`). A dropped callback is the one way to lose an NPC:
  `BusyNpcIsReleased` says so, and `BusyNpcAlwaysAccounted` assumes that none is dropped
  (`MaxLost = 0`), as the run does.
- **StatusSyncProofs**, first the clock. `ClocksInStep`, `EveryHourOnce` and `DailyReset` are
  strengthened by: at most one tick request is anywhere between its issue and its task
  (`OneRequest`, the meaning of `is_tick_sync_pending`), it is for the next hour
  (`NextHourOnly`), and a ready answer is for the next hour, with its deltas, and is used in
  its own frame (`CachedAnswer`). Deadlines are not used. `DailyReset` needs only that an
  hour follows its predecessor, and the arithmetic of days.
  `JobsInOrder` rests on time. `SinceDue` and `SinceRequest` count
  the frames from what `frame` says; the age of every tick request is the former
  (`AskedInTime`). So an hour begins at most `Deadline + 1` frames after it was asked for,
  and it was asked for `TicksPerHour` frames before the next. A request for jobs, or a
  batch, goes out when its hour begins and is therefore, but for `Deadline + 1` frames, as
  old as the request for that hour (`OfLastHour`): if an hour is at least two deadlines
  long, it is over when the next hour begins, and the answers queue up in the order of the
  hours (`JobsQueued`).
- **StatusSyncProofs**, then the synchronisation. Every step of the composition is a step
  of the clock or leaves it alone, so that what is proved of `WorldTick` holds of
  `StatusSync`. `SyncedIsKnown` is strengthened by `LastNoteIsKnown`: the last answer
  queued about an agent says what the AI server has, and if there is none the note
  does. `HourReported` and `ImplementsReplica` need more: versions only grow, from the
  note over the queued answers to what the AI server has and the present row
  (`VersionsInOrder`, `AnswersInOrder`), and a batch is over before the next is sent
  (`OfLastHour` again, of batches). A batch of an agent under way then is of the
  hour's own row (`BatchOfHour`), and its end leaves what `HourReported` says
  (`HourKept`). A row that changes maps to the replica's `Change`, a batch that the AI server
  gets to `Deliver`, its answer in the main thread to `Acknowledge`, all else to
  stuttering.
- **NpcScheduleProofs**. `TypeOK`, `BusyHasItsTalk` and `VirtualJobContained` are inductive
  together with the types. `WaitingIsIdle` needs that the NPC at its turn is not
  busy and that the driver reports only whom it has visited (`WaitInv`). `OccupancyAgrees`
  needs that the nodes behind the need check run in a crisis (`NodeInCrisis`).
  `CampsInUse` is not inductive by far: between pitching and lying down a camp is
  empty. `CampInv` says that this is within one turn, that the camp is of the
  need and at the place of the NPC whose turn it is (`OnlyOwnCamp`), that this NPC holds
  nothing yet (`FreshCrisis`), and that the crisis has a target (`Targets`), so that
  `ActionMoveToTarget` lets it through at once.
- **AggroProofs**. `WaitsForAnswer`, `FightsOnlyFoes`, `NoRenewedQuestion`. An answer may be
  for a question long given up, and the hour may reconcile the two before it comes: the
  threat is always one that has been felt since the oldest question under way was asked
  (`ThreatIsRemembered`). A beast attacks and a question is asked only in the NPC's own turn,
  and nothing changes between `SystemPerception` and that turn what the former has looked
  up (`TurnIsFresh`).
- **SendQueueProofs**. `FreedExactlyOnce` and `DeliveredInOrder`. Strengthened by where
  packets are: they pass the posted handlers, the channel and the writer in the order of
  their numbers (`InOrder`), one that is in none of these has been freed
  (`Accounted`), and while the writer runs nothing is missing that was not refused
  (`NothingMissing`).
- **PathfindingProofs**. A* is right: `CacheIsExact` for every grid, every set of walls, every
  limit and all costs with `Straight <= Diagonal <= 2 * Straight`, which is what the octile
  estimate needs to be consistent (`OctileIsConsistent`).
  *Induction.* The reference definitions (`Within`, `Length`) and `PathTo` are recursive
  functions. The library's induction theorems take operators, which the prover cannot
  instantiate; `Least` says instead of sets that every one of numbers that is not empty
  has a least element, `Induction` that a set with 0 and every successor holds all numbers,
  and `RecursionExists` that a function defined by recursion exists.
  *The search.* `SearchInv`: parents are free steps from tiles with a lower score
  (`TreeInv`), so that `PathTo` ends and gives a free walk no longer than the score; and a
  discovered tile is queued with its score or has been expanded, with every neighbour at
  most one step dearer (`OpenInv`).
  *The goal.* When the goal is on top with the score g, give each tile the lesser of its score
  and g minus its estimate (`Bound`): along no step does this bound rise by more than the
  step costs, because the estimate is consistent and all entries of the queue have an
  f of at least g (`GoalBound`). So no walk from the start to the goal is cheaper than the
  bound of the goal (`WalksRespectBound`), which is g.
  *The reference.* `Within` is shown to keep the cheapest walks of at most k steps, and as many
  steps as there are tiles to be enough. `NoWalkIsShorter` says the same without it: no
  sequence of free steps between the ends costs less.
  *The walkers.* `ArrivesNear` needs that a path which is not partial leads into the
  square of its target or to where no way goes on (`LeadsThere`; `NoWayOut`: when nothing
  is left to expand, no walk leaves what was discovered), that who has used up a path
  stands at its end or was stopped (`StandsAtEnd`), and that between the turn of an NPC in
  `SystemPathfinding` and its turn in `SystemMovement` its target is where its path leads
  (`OnCourse`).

Every safety and action property that a passing run checks is a theorem, and so are the
two refinements. Only model-checked are the liveness properties, for which the prover
has no rule: `EveryTaskRuns`, `CountPaidBack`, `SleeperWokenWhenSettled`, `SessionForgotten`,
`NobodyWaitsForEver`, `HoursPass`, `CrisisResolved`, `SessionEnds`, `WalkEnds`.

## Not modelled

- **Floating-point geometry**: distances, steering round an obstacle just ahead, the
  weights by which a partner for a talk is chosen, emotion decay, the directions of
  flight. Where they decide something, the models choose freely.
- **Bytes**: the 16-bit length of a packet that wraps above 65531 bytes
  (`ClientSession.cpp:114`), emotion numbers of 8 bits. Both are single expressions whose
  wrap a model would only restate.
- **The spatial hash** (`LocationRegistry`): its two maps are changed together by one
  thread and agree by the shape of two functions; zones are the places of `NpcSchedule`;
  who is near whom is a free choice in the models that ask, wrong answers included. Its
  two weaknesses are among the observations.
- **Commands without a consequence for others**: `PlayerMessage` and `GetAgentStatus`
  change nothing but the count of `Backpressure`; `Move` changes coordinates only.
- **Snapshots** broadcast to clients read the world and change nothing.
- **Start-up and shutdown**: the handshake is a sequence of blocking calls before other
  threads exist, the shutdown runs after they have been joined.
- **Texts, logging, benchmarks, profiling, build files, data, test clients, generated
  protobuf code.**
- **Tracy**, vendored under `thirdparty/`: 47,615 of the 54,544 lines of C++ here, 87 %, are
  a profiler of other authors that the server only links. Of the 6,929 lines of the
  server's own code about half are mapped to definitions; most of the rest is logging,
  parsing of messages, benchmarks and start-up.

The components' statuses in `PROJECT.json` give the reason for each part left out.

## What could come next

1. The liveness arguments as safety: a bound on the frames for which a patient client can
   wait, or a measure that falls with every step of a crisis.
2. The optimality of `FindPath` with the sums of floats it uses, whose rounding may prefer
   one of two walks that differ in the last place.
3. Which of the shortcuts of `ArrivesNear` remain if a remembered path is shared only
   between equal ends.
