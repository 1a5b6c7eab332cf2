---------------------------- MODULE NpcSchedule ----------------------------
(***************************************************************************)
(* The schedule of the NPCs: jobs that the AI server plans, the job driver *)
(* that works them off, the behaviour tree that overrides them when an NPC *)
(* is hungry or tired, and the furniture and camps it then occupies.       *)
(*                                                                         *)
(* All of it runs on the main thread.  A frame is: tasks of the result     *)
(* queue and player commands ("tasks"); once an hour the job driver and    *)
(* the NPCs' dialogues ("jobs"); the behaviour trees ("bt"); death, needs, *)
(* paths and movement ("body"); the furniture ("furniture").  What goes    *)
(* wrong goes wrong between the systems: a job can be written by four of   *)
(* them, and an answer of the AI server may be frames old when it arrives. *)
(*                                                                         *)
(* Coordinates are abstracted to the place they lie in, needs to "critical *)
(* or not", a job to its id, which determines its place and category.      *)
(* Attackers are external, NPCs here start no fights (AggroComp < 100).    *)
(***************************************************************************)
EXTENDS Naturals, FiniteSets

CONSTANTS
  Npcs,                 \* NPC entities, with their components
  Fixed,                \* furniture of the bootstrap data
  Camps,                \* handles that EnTT can give to temporary furniture
  Places, Wild,         \* location names; "Wilderness"
  Jobs,                 \* job ids of the AI server
  JobPlace, JobNeed,    \* per job: target_location; need its category serves
  FixedPlace, FixedNeeds, \* per piece of fixed furniture, likewise
  JobTicks,             \* duration_ticks of a job: 3
  HitPoints,            \* hits an NPC survives, and the one it does not
  MaxEvents,            \* bound: jobs given, dialogues, hits, crises, walks
  None                  \* entt::null, "", (0, 0) and job id 0

Needs == {"Hunger", "Fatigue"}
Furniture == Fixed \cup Camps

ASSUME ScheduleAssumption ==
  /\ Fixed \cap Camps = {}
  /\ None \notin Npcs \cup Furniture \cup Places \cup Jobs \cup Needs
  /\ Jobs \cap Needs = {}
  /\ Wild \in Places
  /\ JobPlace \in [Jobs -> Places] /\ JobNeed \in [Jobs -> Needs \cup {None}]
  /\ FixedPlace \in [Fixed -> Places \ {Wild}] /\ FixedNeeds \in [Fixed -> SUBSET Needs]
  /\ JobTicks \in Nat /\ HitPoints \in Nat \ {0} /\ MaxEvents \in Nat

VARIABLES
  phase,                \* the system the frame is at
  todo,                 \* the NPCs its view has still to visit
  turn,                 \* the NPC whose behaviour tree is ticked, or None
  node,                 \* the node of that tree
  job,                  \* JobComp
  npc,                  \* ToilComp, BusyTag, needs, combat, health and place
  resolving,            \* NeedsComp: current_survival_type while is_resolving_survival
  occupied,             \* NeedsComp::occupied_furniture
  occupied_by,          \* AffordanceComp::occupied_by
  camp,                 \* temporary furniture that exists, and the need it serves
  trees,                \* the NPCs that have a BehaviorTreeComp
  asked,                \* GetPendingJobs is under way
  reports,              \* NPCs whose interruption report is under way
  talks,                \* dialogues of the NPCs, by id
  events                \* how much of MaxEvents is used

frame == <<phase, todo, turn, node>>
needs == <<resolving, occupied, occupied_by, camp>>
rpcs == <<asked, reports, talks>>
vars == <<frame, job, npc, needs, trees, rpcs, events>>

JobState == [id : Jobs \cup Needs \cup {None}, place : Places \cup {None},
             at : Places \cup {None},         \* where target_x, target_z lie
             active : BOOLEAN,
             wander : BOOLEAN]                \* intent == "배회 중"

NpcState == [toil : {"Idle", "Moving", "Working", "Interrupted"},
             ticks : 0 .. JobTicks,           \* duration_ticks
             floor : BOOLEAN,                 \* current_action is ..._On_Floor
             busy : {"No", "Dialogue", "ScheduleWait"},
             critical : SUBSET Needs,         \* needs below 15
             foe : BOOLEAN,                   \* CombatComp has a target
             hp : 0 .. HitPoints,             \* 0: is_dead
             pos : Places]

Init ==
  /\ phase = "tasks" /\ todo = {} /\ turn = None /\ node = "root"
  /\ job = [n \in Npcs |-> [id |-> None, place |-> None, at |-> None,
                            active |-> FALSE, wander |-> FALSE]]
  /\ \E p \in [Npcs -> Places] :
       npc = [n \in Npcs |-> [toil |-> "Idle", ticks |-> 0, floor |-> FALSE, busy |-> "No",
                              critical |-> {}, foe |-> FALSE, hp |-> HitPoints, pos |-> p[n]]]
  /\ resolving = [n \in Npcs |-> None] /\ occupied = [n \in Npcs |-> None]
  /\ occupied_by = [f \in Furniture |-> None] /\ camp = [f \in Camps |-> None]
  /\ trees = Npcs
  /\ asked = FALSE /\ reports = {} /\ talks = {}
  /\ events = 0

Event == events < MaxEvents /\ events' = events + 1

-----------------------------------------------------------------------------
(* Jobs as the AI server sends them, at the time their task runs.          *)

Planned(j) == [id |-> j, place |-> JobPlace[j], at |-> JobPlace[j],
               active |-> TRUE, wander |-> FALSE]

\* Broken variant: the NPC that has just finished is not told.
JobsAnsweredSilently ==
  /\ phase = "tasks" /\ asked
  /\ asked' = FALSE
  /\ Event
  /\ \E n \in Npcs, j \in Jobs :
       /\ resolving[n] = None
       /\ job' = [job EXCEPT ![n] = Planned(j)]
       /\ npc' = [npc EXCEPT ![n] = [npc[n] EXCEPT !.toil = "Idle", !.ticks = 0]]
  /\ UNCHANGED <<frame, needs, trees, reports, talks>>

\* The jobs of the hour.  The AI server may send any job, also one it sent
\* before; an NPC in a crisis, or with this very job, passes over it.
JobsAnswered ==
  /\ phase = "tasks" /\ asked
  /\ asked' = FALSE
  /\ Event
  /\ \E offer \in UNION {[T -> Jobs] : T \in SUBSET Npcs} :
       LET taken == {n \in DOMAIN offer :
                       resolving[n] = None /\ ~(job[n].active /\ job[n].id = offer[n])}
       IN /\ job' = [n \in Npcs |-> IF n \in taken THEN Planned(offer[n]) ELSE job[n]]
          /\ npc' = [n \in Npcs |->
                       IF n \in taken
                       THEN [npc[n] EXCEPT !.toil = "Idle", !.ticks = 0,
                                           !.busy = IF @ = "ScheduleWait" THEN "No" ELSE @]
                       ELSE npc[n]]
  /\ UNCHANGED <<frame, needs, trees, reports, talks>>

\* The request fails, or there is no job to give.
NoJobs ==
  /\ phase = "tasks" /\ asked
  /\ asked' = FALSE
  /\ UNCHANGED <<frame, job, npc, needs, trees, reports, talks, events>>

\* The answer to an interruption report may bring another job.  Its
\* coordinates are not copied.
ReportAnswered(n) ==
  /\ phase = "tasks" /\ n \in reports
  /\ reports' = reports \ {n}
  /\ \/ UNCHANGED <<job, npc, events>>
     \/ /\ Event
        /\ \E j \in Jobs :
             job' = [job EXCEPT ![n] = [Planned(j) EXCEPT !.at = job[n].at]]
        /\ npc' = [npc EXCEPT ![n] = [npc[n] EXCEPT !.toil = "Idle", !.ticks = 0]]
  /\ UNCHANGED <<frame, needs, trees, asked, talks>>

-----------------------------------------------------------------------------
(* Dialogues (see PlayerDialogue for those of the players).                *)

StartTalk(S, kind) ==
  /\ Event
  /\ npc' = [n \in Npcs |-> IF n \in S THEN [npc[n] EXCEPT !.busy = "Dialogue"] ELSE npc[n]]
  /\ talks' = talks \cup {[id |-> events + 1, who |-> S, kind |-> kind]}
  /\ UNCHANGED <<frame, job, needs, trees, asked, reports>>

PlayerTalks(n) ==
  /\ phase = "tasks" /\ npc[n].busy = "No"
  /\ StartTalk({n}, "player")

\* SystemSocialInteraction, after the job driver.
CanMeet(n) == npc[n].hp > 0 /\ npc[n].busy = "No" /\ ~npc[n].foe

NpcsMeet(S) ==
  /\ phase = "jobs" /\ todo = {}
  /\ \E a, b \in S : a # b
  /\ \A n \in S : CanMeet(n)
  /\ \A a, b \in S : npc[a].pos = npc[b].pos
  /\ StartTalk(S, "npc")

\* An exception in DoTriggerDialogue is logged, its callback dropped.
LoseTalk(t) ==
  /\ t \in talks /\ t.kind = "npc"
  /\ talks' = (talks \ {t}) \cup {[t EXCEPT !.kind = "lost"]}
  /\ UNCHANGED <<frame, job, npc, needs, trees, asked, reports, events>>

\* Broken variant: only who gets a job is released.
EndTalkOfWorkers(t) ==
  /\ phase = "tasks" /\ t \in talks /\ t.kind # "lost"
  /\ talks' = talks \ {t}
  /\ \E offer \in UNION {[T -> Jobs] : T \in SUBSET t.who} :
       /\ IF DOMAIN offer = {} THEN UNCHANGED events ELSE Event
       /\ job' = [n \in Npcs |-> IF n \in DOMAIN offer THEN Planned(offer[n]) ELSE job[n]]
       /\ npc' = [n \in Npcs |-> IF n \in DOMAIN offer
                                 THEN [npc[n] EXCEPT !.toil = "Idle", !.ticks = 0, !.busy = "No"]
                                 ELSE npc[n]]
  /\ UNCHANGED <<frame, needs, trees, asked, reports>>

\* The end of a dialogue, by answer, failure or command.  That of NPCs may
\* bring next_jobs; the AI server sends them for the NPCs that took part.
EndTalk(t) ==
  /\ phase = "tasks" /\ t \in talks /\ t.kind # "lost"
  /\ talks' = talks \ {t}
  /\ \E offer \in UNION {[T -> Jobs] : T \in SUBSET (IF t.kind = "npc" THEN t.who ELSE {})} :
       /\ IF DOMAIN offer = {} THEN UNCHANGED events ELSE Event
       /\ job' = [n \in Npcs |-> IF n \in DOMAIN offer THEN Planned(offer[n]) ELSE job[n]]
       /\ npc' = [n \in Npcs |->
                    CASE n \in DOMAIN offer -> [npc[n] EXCEPT !.toil = "Idle", !.ticks = 0,
                                                              !.busy = "No"]
                      [] n \in t.who \ DOMAIN offer -> [npc[n] EXCEPT !.busy = "No"]
                      [] OTHER -> npc[n]]
  /\ UNCHANGED <<frame, needs, trees, asked, reports>>

-----------------------------------------------------------------------------
(* The hour.  Its two kinds of short RPC are over before the next one: the *)
(* deadline of both is half an hour of the game (see WorldTick).           *)

BeginHour ==
  /\ phase = "tasks" /\ ~asked /\ reports = {}
  /\ phase' = "jobs" /\ todo' = Npcs
  /\ asked' = TRUE
  /\ UNCHANGED <<turn, node, job, npc, needs, trees, reports, talks, events>>

NoHour ==
  /\ phase = "tasks"
  /\ phase' = "bt" /\ todo' = Npcs
  /\ UNCHANGED <<turn, node, job, npc, needs, trees, rpcs, events>>

Visit(n) == n \in todo /\ todo' = todo \ {n}

NotDriven(n) == npc[n].hp = 0 \/ resolving[n] # None \/ npc[n].foe \/ job[n].wander

\* Interrupted by a BusyTag of any kind; an active job is reported.
Interrupt(n) ==
  /\ npc[n].busy # "No"
  /\ npc' = [npc EXCEPT ![n].toil = "Interrupted"]
  /\ reports' = IF npc[n].toil # "Interrupted" /\ job[n].active THEN reports \cup {n}
                                                                ELSE reports
  /\ UNCHANGED job

\* Interrupted ends with the BusyTag, and the state machine goes on at once.
Toil(n) == IF npc[n].toil = "Interrupted" THEN "Idle" ELSE npc[n].toil

Rest(n) ==
  /\ ~job[n].active
  /\ npc' = [npc EXCEPT ![n].toil = "Idle"]
  /\ UNCHANGED <<job, reports>>

\* Before a long way the needs are filled up.
SetOut(n) ==
  /\ job[n].active /\ Toil(n) = "Idle" /\ npc[n].pos # job[n].place
  /\ \E c \in {npc[n].critical, {}} :
       npc' = [npc EXCEPT ![n] = [npc[n] EXCEPT !.toil = "Moving", !.critical = c]]
  /\ UNCHANGED <<job, reports>>

BeginWork(n) ==
  /\ job[n].active /\ Toil(n) = "Idle" /\ npc[n].pos = job[n].place
  /\ npc' = [npc EXCEPT ![n] = [npc[n] EXCEPT !.toil = "Working", !.ticks = JobTicks]]
  /\ UNCHANGED <<job, reports>>

OnTheWay(n) ==
  /\ job[n].active /\ Toil(n) = "Moving"
  /\ UNCHANGED <<job, npc, reports>>

Work(n) ==
  /\ job[n].active /\ Toil(n) = "Working" /\ npc[n].ticks > 1
  /\ npc' = [npc EXCEPT ![n].ticks = @ - 1]
  /\ UNCHANGED <<job, reports>>

\* The job is over, its report needs no answer: the NPC waits for the next.
Complete(n) ==
  /\ job[n].active /\ Toil(n) = "Working" /\ npc[n].ticks <= 1
  /\ npc' = [npc EXCEPT ![n] = [npc[n] EXCEPT !.toil = "Idle", !.ticks = 0,
                                              !.busy = "ScheduleWait"]]
  /\ job' = [job EXCEPT ![n].active = FALSE]
  /\ UNCHANGED reports

JobDriver(n) ==
  /\ phase = "jobs" /\ Visit(n)
  /\ \/ NotDriven(n) /\ UNCHANGED <<job, npc, reports>>
     \/ ~NotDriven(n) /\ Interrupt(n)
     \/ /\ ~NotDriven(n) /\ npc[n].busy = "No"
        /\ \/ Rest(n) \/ SetOut(n) \/ BeginWork(n)
           \/ OnTheWay(n) \/ Work(n) \/ Complete(n)
  /\ UNCHANGED <<phase, turn, node, needs, trees, asked, talks, events>>

-----------------------------------------------------------------------------
(* The behaviour tree, first the branches of combat.                       *)

MyTurn(n) ==
  /\ phase = "bt" /\ turn = None
  /\ Visit(n)
  /\ UNCHANGED <<phase, trees, rpcs, events>>

TurnOver == turn' = None /\ node' = "root"
GoOn(to) == node' = to /\ UNCHANGED turn

Ticked(n) == npc[n].busy = "No" /\ n \in trees

\* SystemBusyAmbient writes current_action of the busy ones that have moved before.
Ambient(n) == IF npc[n].busy = "No" THEN {npc[n].floor} ELSE {npc[n].floor, FALSE}

\* SystemBehaviorTree passes over an NPC with a BusyTag.
NotTicked(n) ==
  /\ MyTurn(n) /\ ~Ticked(n)
  /\ \E fl \in Ambient(n) : npc' = [npc EXCEPT ![n].floor = fl]
  /\ UNCHANGED <<turn, node, job, needs>>

Fights(n) == MyTurn(n) /\ Ticked(n) /\ npc[n].foe /\ UNCHANGED <<turn, node, needs>>

\* Flee and chase write the target of the job; or the old one is kept.
Chase(n) ==
  /\ Fights(n)
  /\ \/ UNCHANGED <<job, npc>>
     \/ /\ \E p \in Places : \E q \in {p, Wild} :
             job' = [job EXCEPT ![n] = [job[n] EXCEPT !.at = p, !.place = q]]
        /\ npc' = [npc EXCEPT ![n].toil = "Moving"]

Strike(n) ==
  /\ Fights(n)
  /\ \E kills \in BOOLEAN :
       npc' = [npc EXCEPT ![n] = [npc[n] EXCEPT !.toil = IF @ = "Moving" THEN "Working" ELSE @,
                                                !.foe = ~kills]]
  /\ UNCHANGED job

\* No enemy, or a dead one: the tree goes on to the needs.
Peace(n) ==
  /\ MyTurn(n) /\ Ticked(n)
  /\ npc' = [npc EXCEPT ![n].foe = FALSE]
  /\ turn' = n /\ node' = "needs"
  /\ UNCHANGED <<job, needs>>

\* External: an attacker's tree hits the NPC between two turns.
Hit(n) ==
  /\ phase = "bt" /\ turn = None /\ npc[n].hp > 0
  /\ Event
  /\ \E fl \in Ambient(n) :
       npc' = [npc EXCEPT ![n] = [npc[n] EXCEPT !.hp = @ - 1, !.busy = "No", !.foe = TRUE,
                                                !.floor = fl]]
  /\ UNCHANGED <<frame, job, needs, trees, rpcs>>

-----------------------------------------------------------------------------
(* Hunger and fatigue.                                                     *)

AtNode(n, nd) ==
  /\ turn = n /\ node = nd
  /\ UNCHANGED <<phase, todo, trees, rpcs>>

At(n, nd) == AtNode(n, nd) /\ UNCHANGED events

NeedOf(id) == IF id \in Jobs THEN JobNeed[id] ELSE id

\* A job of the virtual id 999000 or 999001 takes the place of the planned one.
BeginCrisis(n, c) ==
  /\ At(n, "needs") /\ resolving[n] = None
  /\ c \in npc[n].critical /\ (c = "Fatigue" => "Hunger" \notin npc[n].critical)
  /\ resolving' = [resolving EXCEPT ![n] = c]
  /\ job' = [job EXCEPT ![n] = [id |-> c, place |-> None, at |-> None,
                                active |-> TRUE, wander |-> FALSE]]
  /\ npc' = [npc EXCEPT ![n] = [npc[n] EXCEPT !.toil = "Idle", !.ticks = 0, !.floor = FALSE]]
  /\ GoOn("find")
  /\ UNCHANGED <<occupied, occupied_by, camp>>

InCrisis(n) ==
  /\ At(n, "needs") /\ resolving[n] # None
  /\ GoOn("find")
  /\ UNCHANGED <<job, npc, needs>>

MealTime(n) ==
  /\ job[n].active /\ NeedOf(job[n].id) # None
  /\ npc[n].toil = "Working" /\ npc[n].pos = job[n].place

ScheduledNeed(n) ==
  /\ At(n, "needs") /\ resolving[n] = None /\ npc[n].critical = {}
  /\ MealTime(n)
  /\ resolving' = [resolving EXCEPT ![n] = NeedOf(job[n].id)]
  /\ GoOn("interact")
  /\ UNCHANGED <<job, npc, occupied, occupied_by, camp>>

Serves(f, c) == IF f \in Fixed THEN c \in FixedNeeds[f] ELSE camp[f] = c
PlaceOf(f) == IF f \in Fixed THEN FixedPlace[f] ELSE Wild
\* Broken variant: occupied_by is not looked at.
FreeForAnyone(c, p) == {f \in Furniture : Serves(f, c) /\ PlaceOf(f) = p}

FreeFor(c, p) == {f \in Furniture : Serves(f, c) /\ PlaceOf(f) = p /\ occupied_by[f] = None}

\* A new entity: its versioned handle is not one that somebody still holds.
NewHandles == {f \in Camps : camp[f] = None /\ \A n \in Npcs : occupied[n] # f}

\* ActionFindFurniture: the target is set; or free furniture in this zone is
\* chosen (within 50 m: sure in a town, not in the wilderness); or, without
\* any, a camp is pitched in the wilderness, elsewhere the NPC stays here.
Target(n, p) ==
  /\ job' = [job EXCEPT ![n] = [job[n] EXCEPT !.place = p, !.at = p]]
  /\ npc' = [npc EXCEPT ![n].toil = "Idle"]

FindFurniture(n) ==
  LET c == resolving[n]
      p == npc[n].pos
  IN
  /\ At(n, "find") /\ GoOn("move")
  /\ \/ job[n].place # None /\ job[n].at # None /\ UNCHANGED <<job, npc, camp>>
     \/ /\ job[n].place = None \/ job[n].at = None
        /\ FreeFor(c, p) # {} \/ p # Wild
        /\ Target(n, p) /\ UNCHANGED camp
     \/ /\ job[n].place = None \/ job[n].at = None
        /\ p = Wild
        /\ \E f \in NewHandles : camp' = [camp EXCEPT ![f] = c]
        /\ Target(n, p)
  /\ UNCHANGED <<resolving, occupied, occupied_by>>

\* ActionMoveToTarget: there by name, or within 0.8 m.
Arrived(n) ==
  /\ At(n, "move")
  /\ npc[n].pos \in {job[n].place, job[n].at}
  /\ GoOn("interact")
  /\ UNCHANGED <<job, npc, needs>>

MoveToTarget(n) ==
  /\ At(n, "move")
  /\ npc[n].pos # job[n].place
  /\ npc' = [npc EXCEPT ![n].toil = "Moving"]
  /\ TurnOver
  /\ UNCHANGED <<job, needs>>

\* Broken variant: nothing records that the NPC lies on the floor.
SettleUnrecorded(n, fl) ==
  npc' = [npc EXCEPT ![n] = [npc[n] EXCEPT !.toil = "Working", !.ticks = JobTicks,
                                           !.floor = FALSE]]

\* ActionInteractFurniture, first time: the first free piece in the zone, be
\* it the one found or not; a new camp; or the floor.  (Its duration, 9999,
\* is never read.)
Settle(n, fl) ==
  npc' = [npc EXCEPT ![n] = [npc[n] EXCEPT !.toil = "Working", !.ticks = JobTicks,
                                           !.floor = fl]]

Occupy(n, f) ==
  /\ occupied_by' = [occupied_by EXCEPT ![f] = n]
  /\ occupied' = [occupied EXCEPT ![n] = f]

NotSettled(n) == occupied[n] = None /\ ~npc[n].floor

SettleDown(n) ==
  LET free == FreeFor(resolving[n], npc[n].pos)
  IN
  /\ At(n, "interact") /\ NotSettled(n) /\ TurnOver
  /\ \/ \E f \in free : Occupy(n, f) /\ Settle(n, FALSE) /\ UNCHANGED camp
     \/ /\ free = {} /\ npc[n].pos = Wild
        /\ \E f \in NewHandles : Occupy(n, f) /\ camp' = [camp EXCEPT ![f] = resolving[n]]
        /\ Settle(n, FALSE)
     \/ /\ free = {} /\ npc[n].pos # Wild
        /\ Settle(n, TRUE) /\ UNCHANGED <<occupied, occupied_by, camp>>
  /\ UNCHANGED <<job, resolving>>

\* Every further tick the need recovers, until it is above 95.
Recover(n) ==
  /\ At(n, "interact") /\ ~NotSettled(n) /\ TurnOver
  /\ UNCHANGED <<job, npc, needs>>

\* Broken variant: the camp is left, not pulled down.
ReleaseOnly(f) ==
  /\ occupied_by' = [x \in Furniture |-> IF x = f THEN None ELSE occupied_by[x]]
  /\ UNCHANGED camp

Release(f) ==
  /\ occupied_by' = [x \in Furniture |-> IF x = f THEN None ELSE occupied_by[x]]
  /\ camp' = [x \in Camps |-> IF x = f THEN None ELSE camp[x]]

\* Broken variant: the virtual job stays active.
ResolveNeedOnly(n) ==
  /\ At(n, "interact") /\ ~NotSettled(n) /\ TurnOver
  /\ Release(occupied[n])
  /\ occupied' = [occupied EXCEPT ![n] = None]
  /\ resolving' = [resolving EXCEPT ![n] = None]
  /\ npc' = [npc EXCEPT ![n] = [npc[n] EXCEPT !.toil = "Idle", !.ticks = 0, !.floor = FALSE,
                                              !.critical = @ \ {resolving[n]}]]
  /\ UNCHANGED job

Resolve(n) ==
  /\ At(n, "interact") /\ ~NotSettled(n) /\ TurnOver
  /\ Release(occupied[n])
  /\ occupied' = [occupied EXCEPT ![n] = None]
  /\ resolving' = [resolving EXCEPT ![n] = None]
  /\ job' = [job EXCEPT ![n].active = FALSE]
  /\ npc' = [npc EXCEPT ![n] = [npc[n] EXCEPT !.toil = "Idle", !.ticks = 0, !.floor = FALSE,
                                              !.critical = @ \ {resolving[n]}]]

\* ActionWander, when there is nothing else to do.
WanderOff(n) ==
  /\ npc[n].toil = "Idle" /\ Event
  /\ job' = [job EXCEPT ![n] = [job[n] EXCEPT !.place = npc[n].pos, !.at = npc[n].pos,
                                              !.wander = TRUE]]
  /\ npc' = [npc EXCEPT ![n] = [npc[n] EXCEPT !.toil = "Moving", !.floor = FALSE]]

\* Broken variant: duration_ticks is not tested.
StandAroundForEver(n) ==
  /\ npc[n].toil = "Working" /\ job[n].wander
  /\ npc' = [npc EXCEPT ![n].ticks = @ - 1]
  /\ UNCHANGED <<job, events>>

StandAround(n) ==
  /\ npc[n].toil = "Working" /\ job[n].wander /\ npc[n].ticks > 0
  /\ npc' = [npc EXCEPT ![n].ticks = @ - 1]
  /\ UNCHANGED <<job, events>>

WanderEnds(n) ==
  /\ npc[n].toil = "Working" /\ job[n].wander /\ npc[n].ticks = 0
  /\ job' = [job EXCEPT ![n].wander = FALSE]
  /\ npc' = [npc EXCEPT ![n] = [npc[n] EXCEPT !.toil = "Idle", !.floor = FALSE]]
  /\ UNCHANGED events

NothingToDo(n) ==
  /\ job[n].active \/ ~(npc[n].toil = "Working" /\ job[n].wander)
  /\ UNCHANGED <<job, npc, events>>

NoNeed(n) ==
  /\ AtNode(n, "needs") /\ resolving[n] = None /\ npc[n].critical = {} /\ ~MealTime(n)
  /\ \/ ~job[n].active /\ (WanderOff(n) \/ StandAround(n) \/ WanderEnds(n))
     \/ NothingToDo(n)
  /\ TurnOver
  /\ UNCHANGED needs

-----------------------------------------------------------------------------
(* SystemDeath, SystemSurvivalOverride, SystemPathfinding and              *)
(* SystemMovement touch nothing but the NPC they visit: one step for each. *)

DecayExempt(n) ==
  {c \in Needs : \/ resolving[n] = c
                 \/ occupied[n] # None /\ npc[n].toil = "Working"
                    /\ job[n].active /\ NeedOf(job[n].id) = c}

Body(n) ==
  /\ phase = "body" /\ Visit(n)
  /\ UNCHANGED <<phase, turn, node, needs, rpcs>>

Dies(n) ==
  /\ Body(n) /\ npc[n].hp = 0
  /\ npc' = [npc EXCEPT ![n] =
               IF npc[n].toil = "Idle" THEN [npc[n] EXCEPT !.foe = FALSE]
               ELSE [npc[n] EXCEPT !.toil = "Idle", !.ticks = 0, !.floor = FALSE,
                                   !.foe = FALSE]]
  /\ trees' = trees \ {n}
  /\ UNCHANGED <<job, events>>

\* In any frame a need may fall below 15.
Grown(n) == {npc[n].critical} \cup {npc[n].critical \cup {c} : c \in Needs \ DecayExempt(n)}
Needy(n, more) == IF more = npc[n].critical THEN UNCHANGED events ELSE Event

Stay(n) ==
  /\ Body(n) /\ npc[n].hp > 0 /\ npc[n].toil # "Moving"
  /\ \E more \in Grown(n) : Needy(n, more) /\ npc' = [npc EXCEPT ![n].critical = more]
  /\ UNCHANGED <<job, trees>>

\* SystemPathfinding looks coordinates up that are (0, 0).
Lookup(n) == IF job[n].at = None THEN job[n].place ELSE job[n].at

Moves(n) ==
  /\ Body(n) /\ npc[n].hp > 0 /\ npc[n].toil = "Moving"
  /\ job' = [job EXCEPT ![n].at = Lookup(n)]
  /\ UNCHANGED trees

Arrive(n) ==
  /\ Moves(n) /\ Lookup(n) # None
  /\ \E more \in Grown(n) :
       /\ Needy(n, more)
       /\ npc' = [npc EXCEPT ![n] = [npc[n] EXCEPT !.critical = more, !.pos = Lookup(n),
                                     !.toil = "Working", !.ticks = JobTicks, !.floor = FALSE]]

\* On the way through any place; or no path is found.
Walk(n) ==
  /\ Moves(n)
  /\ \E more \in Grown(n) :
       /\ Needy(n, more)
       /\ \/ \E p \in Places :
               npc' = [npc EXCEPT ![n] = [npc[n] EXCEPT !.critical = more, !.pos = p]]
          \/ npc' = [npc EXCEPT ![n] = [npc[n] EXCEPT !.critical = more, !.toil = "Idle"]]

-----------------------------------------------------------------------------
(* SystemAffordanceResolver, and the frame.                                *)

Keeps(n) ==
  /\ job[n].active /\ npc[n].toil = "Working"
  /\ NeedOf(job[n].id) # None /\ Serves(occupied[n], NeedOf(job[n].id))

Returns(n) == resolving[n] = None /\ occupied[n] # None /\ ~Keeps(n)

Resolver ==
  LET stale(f) == occupied_by[f] # None /\ occupied[occupied_by[f]] # f
      returned == {occupied[n] : n \in {m \in Npcs : Returns(m)}}
  IN
  /\ phase = "furniture" /\ phase' = "tasks"
  /\ occupied_by' = [f \in Furniture |-> IF stale(f) \/ f \in returned THEN None
                                         ELSE occupied_by[f]]
  /\ camp' = [f \in Camps |-> IF f \in returned THEN None ELSE camp[f]]
  /\ occupied' = [n \in Npcs |-> IF Returns(n) THEN None ELSE occupied[n]]
  /\ UNCHANGED <<todo, turn, node, job, npc, resolving, trees, rpcs, events>>

NextSystem ==
  /\ todo = {} /\ turn = None
  /\ \/ phase = "jobs" /\ phase' = "bt" /\ todo' = Npcs
     \/ phase = "bt" /\ phase' = "body" /\ todo' = Npcs
     \/ phase = "body" /\ phase' = "furniture" /\ todo' = {}
  /\ UNCHANGED <<turn, node, job, npc, needs, trees, rpcs, events>>

Tree(n) ==
  \/ NotTicked(n) \/ Chase(n) \/ Strike(n) \/ Peace(n)
  \/ \E c \in Needs : BeginCrisis(n, c)
  \/ InCrisis(n) \/ ScheduledNeed(n)
  \/ FindFurniture(n) \/ Arrived(n) \/ MoveToTarget(n)
  \/ SettleDown(n) \/ Recover(n) \/ Resolve(n) \/ NoNeed(n)

Frame ==
  \/ BeginHour \/ NoHour \/ NextSystem \/ Resolver
  \/ \E n \in Npcs : \/ JobDriver(n) \/ Tree(n)
                     \/ Dies(n) \/ Stay(n) \/ Arrive(n) \/ Walk(n)

Others ==
  \/ JobsAnswered \/ NoJobs
  \/ \E n \in Npcs : ReportAnswered(n) \/ PlayerTalks(n) \/ Hit(n)
  \/ \E S \in SUBSET Npcs : NpcsMeet(S)
  \/ \E t \in talks : EndTalk(t) \/ LoseTalk(t)

Next == Frame \/ Others

Spec == Init /\ [][Next]_vars

\* The main thread goes on with its frames.  What must not be put off for ever:
\* dialogues end, a walk arrives (the way is assumed to exist, and the walk not
\* to have been held up, see CrisisResolved), who is at the target is found to
\* be within 0.8 m of it, also after having settled there, a need recovers.
FairSpec ==
  /\ Spec
  /\ WF_vars(Frame)
  /\ SF_vars(\E t \in talks : EndTalk(t))
  /\ \A n \in Npcs : /\ SF_vars(Arrive(n)) /\ SF_vars(Arrived(n))
                     /\ SF_vars(Arrived(n) /\ ~NotSettled(n))
                     /\ SF_vars(Resolve(n))

-----------------------------------------------------------------------------
TypeOK ==
  /\ phase \in {"tasks", "jobs", "bt", "body", "furniture"}
  /\ todo \in SUBSET Npcs /\ turn \in Npcs \cup {None}
  /\ node \in {"root", "needs", "find", "move", "interact"}
  /\ job \in [Npcs -> JobState] /\ npc \in [Npcs -> NpcState]
  /\ resolving \in [Npcs -> Needs \cup {None}]
  /\ occupied \in [Npcs -> Furniture \cup {None}]
  /\ occupied_by \in [Furniture -> Npcs \cup {None}]
  /\ camp \in [Camps -> Needs \cup {None}]
  /\ trees \in SUBSET Npcs /\ asked \in BOOLEAN /\ reports \in SUBSET Npcs
  /\ talks \in SUBSET [id : Nat, who : SUBSET Npcs, kind : {"player", "npc", "lost"}]
  /\ events \in Nat

\* Both sides of an occupation agree, in every state: nobody holds furniture
\* that was pulled down or is another's (ActionInteractFurniture uses the
\* handle unchecked), and only an NPC in a crisis holds any.
OccupancyAgrees ==
  /\ \A n \in Npcs : occupied[n] # None =>
       /\ occupied_by[occupied[n]] = n
       /\ resolving[n] # None
       /\ occupied[n] \in Camps => camp[occupied[n]] # None
  /\ \A f \in Furniture : occupied_by[f] # None => occupied[occupied_by[f]] = f

\* Between two turns every camp is occupied: whoever pitches a camp sleeps
\* in it and pulls it down, so that none is left behind.
CampsInUse ==
  turn = None => \A f \in Camps : camp[f] # None => occupied_by[f] # None

\* An NPC that waits for its next job has none: no late answer of the AI
\* server and no end of a dialogue gives it one and leaves it waiting, and
\* its tree, which would not be ticked, is not in a crisis.
WaitingIsIdle ==
  \A n \in Npcs : npc[n].busy = "ScheduleWait" => ~job[n].active /\ resolving[n] = None

\* The virtual job of a crisis does not outlive it: the job driver never
\* drives or reports one.
VirtualJobContained ==
  \A n \in Npcs : job[n].active /\ job[n].id \in Needs => resolving[n] = job[n].id

Lost(n) == \E t \in talks : t.kind = "lost" /\ n \in t.who

\* Whoever has the BusyTag of a dialogue is in one: although hits take the tag
\* away, the end of an old dialogue takes that of a new one, and jobs arrive in
\* between, nobody keeps it when the last of its dialogues is over.  (Of
\* one whose callback was dropped that is never.)
BusyHasItsTalk ==
  \A n \in Npcs : npc[n].busy = "Dialogue" => \E t \in talks : n \in t.who

\* A dialogue that finds an NPC on its way takes its speed, and a walk along
\* a path does not get it back (Pathfinding): it may never arrive.
HeldUp(n) == npc[n].toil = "Moving" /\ npc[n].busy = "Dialogue"

\* A crisis ends, or is cut short by death or a fight, whatever jobs,
\* dialogues and fights come in between; unless a dropped callback leaves the
\* NPC busy.  This is said of NPCs that no dialogue finds on their way: one
\* that does may leave the walk without speed for good (Pathfinding).
CrisisResolved ==
  \A n \in Npcs :
    [](~HeldUp(n)) => (resolving[n] # None ~>
                         resolving[n] = None \/ npc[n].hp = 0 \/ npc[n].foe \/ Lost(n))
=============================================================================
