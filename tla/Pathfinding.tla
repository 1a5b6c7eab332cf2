---------------------------- MODULE Pathfinding ----------------------------
(***************************************************************************)
(* The walks of the NPCs: SystemPathfinding and SystemMovement once a      *)
(* frame, one NPC after the other, and GridMap::FindPath, A* with a limit  *)
(* on its iterations and a cache of whole paths shared by squares of       *)
(* tiles.  An NPC is on one tile and a frame moves it by one at most; what *)
(* gives it its targets (jobs, dialogues, flight, chase, wandering,        *)
(* furniture) is the first phase of the frame and free to do anything.     *)
(***************************************************************************)
EXTENDS GridMap

CONSTANTS N,            \* NPCs, in the order of the registry's view
          Start,        \* where each begins
          Targets,      \* tiles that a job, a chase or a flight may lead to
          MaxIterations,\* 10000: limit of one search
          MaxPathfinds, \* 8: searches in one frame (MAX_PATHFINDS_PER_TICK)
          MaxCached,    \* 500: the cache is emptied above this size
          MaxOrders     \* bound of the model on new targets

ASSUME PathfindingAssumption ==
  /\ {N, MaxIterations, MaxPathfinds} \subseteq Nat \ {0}
  /\ {MaxCached, MaxOrders} \subseteq Nat
  /\ Targets \subseteq Tiles
  /\ Start \in [1 .. N -> Tiles]

VARIABLES phase,    \* "Orders", "Plan" (SystemPathfinding), "Search" (FindPath
                    \* within it) or "Move" (SystemMovement)
          turn,     \* the NPC whose turn it is
          npc,      \* LocationComp, ToilComp, JobComp and PathfindingComp of each,
                    \* whether its VelocityComp has a speed, and disturbed
                    \* (history): another system has stopped it on its path
          budget,   \* searches left in this frame
          cache,    \* path_cache_
          search,   \* the search under way, or NoSearch
          orders    \* new targets given so far

vars == <<phase, turn, npc, budget, cache, search, orders>>

Npcs == 1 .. N

\* The waypoints are dropped.
Forget(w) == [w EXCEPT !.waypoints = <<>>, !.disturbed = FALSE]

\* The arrays of a search are dead when it is over: the next one begins by
\* resetting what this one visited.
NoSearch == [from |-> <<0, 0>>, to |-> <<0, 0>>, g_score |-> <<>>, parent |-> <<>>,
             open |-> {}, iterations |-> 0, best |-> <<0, 0>>]

Init ==
  /\ phase = "Orders"
  /\ turn = 1
  /\ npc = [n \in Npcs |->
              [toil |-> "Idle", speed |-> TRUE, loc |-> Start[n], target |-> Start[n],
               waypoints |-> <<>>, index |-> 1, partial |-> FALSE,
               last_target |-> <<0, 0>>, retries |-> 0, last_cap |-> <<0, 0>>,
               disturbed |-> FALSE]]
  /\ budget = MaxPathfinds
  /\ cache = <<>>
  /\ search = NoSearch
  /\ orders = 0

-----------------------------------------------------------------------------
(* Orders: what happens to an NPC before SystemPathfinding runs.           *)

Ordered == phase = "Orders" /\ orders < MaxOrders /\ orders' = orders + 1

\* A new job: JobDriver sets out for it, the old waypoints stay.
Job(n, t) ==
  /\ Ordered
  /\ npc' = [npc EXCEPT ![n].toil = "Moving", ![n].target = t]
  /\ UNCHANGED <<phase, turn, budget, cache, search>>

\* Flight, chase and wandering drop the old path.
Steer(n, t) ==
  /\ Ordered
  /\ npc' = [npc EXCEPT ![n] = [Forget(@) EXCEPT !.toil = "Moving", !.target = t,
                                                  !.index = 1]]
  /\ UNCHANGED <<phase, turn, budget, cache, search>>

\* A dialogue takes the speed of whom it finds walking (SystemBusyAmbient).
Hold(n) ==
  /\ Ordered
  /\ npc[n].toil = "Moving"
  /\ npc' = [npc EXCEPT ![n].speed = FALSE, ![n].disturbed = npc[n].waypoints # <<>>]
  /\ UNCHANGED <<phase, turn, budget, cache, search>>

\* JobDriver interrupts a busy NPC, a fight stops the pursuer: the waypoints stay.
Interrupt(n) ==
  /\ Ordered
  /\ npc[n].toil = "Moving"
  /\ npc' = [npc EXCEPT ![n].toil = "Idle", ![n].disturbed = npc[n].waypoints # <<>>]
  /\ UNCHANGED <<phase, turn, budget, cache, search>>

\* The survival branch puts the NPC onto its furniture, path or no path.
SitDown(n, t) ==
  /\ Ordered
  /\ IsWalkable(t)
  /\ npc' = [npc EXCEPT ![n].toil = "Working", ![n].target = t, ![n].loc = t,
                        ![n].disturbed = npc[n].waypoints # <<>>]
  /\ UNCHANGED <<phase, turn, budget, cache, search>>

\* JobDriver sends an idle NPC with an active job on its way again.
Resume(n) ==
  /\ phase = "Orders"
  /\ npc[n].toil = "Idle"
  /\ npc[n].loc # npc[n].target
  /\ npc' = [npc EXCEPT ![n].toil = "Moving"]
  /\ UNCHANGED <<phase, turn, budget, cache, search, orders>>

RunSystems ==
  /\ phase = "Orders"
  /\ phase' = "Plan"
  /\ budget' = MaxPathfinds
  /\ UNCHANGED <<turn, npc, cache, search, orders>>

-----------------------------------------------------------------------------
(* SystemPathfinding.                                                      *)

\* After the turn of one NPC comes the next; after the last, the next phase.
NextTurn(after) ==
  /\ turn' = IF turn = N THEN 1 ELSE turn + 1
  /\ phase' = IF turn = N THEN after ELSE IF phase = "Search" THEN "Plan" ELSE phase

Square(i) == i * i

\* The target has moved away from what the waypoints lead to.
TargetMoved(w) ==
  Square(w.target[1] - w.last_target[1]) + Square(w.target[2] - w.last_target[2]) > 4

Refreshed(w) == IF TargetMoved(w) THEN Forget(w) ELSE w

SeesTarget(w) == ~IsPathBlocked(w.loc, w.target)

\* The NPC whose turn it is, when its turn comes.
Planner == Refreshed(npc[turn])

Planning ==
  /\ phase = "Plan"
  /\ npc[turn].toil = "Moving"

PlanStraight ==
  /\ Planning
  /\ SeesTarget(Planner)
  /\ npc' = [npc EXCEPT ![turn] =
               [Forget(npc[turn]) EXCEPT !.index = 1, !.partial = FALSE, !.retries = 0,
                                         !.last_target = npc[turn].target, !.speed = TRUE]]
  /\ NextTurn("Move")
  /\ UNCHANGED <<budget, cache, search, orders>>

KeepPath ==
  /\ Planning
  /\ ~SeesTarget(Planner)
  /\ Planner.waypoints # <<>>
  /\ NextTurn("Move")
  /\ UNCHANGED <<npc, budget, cache, search, orders>>

NeedsSearch == Planning /\ ~SeesTarget(Planner) /\ Planner.waypoints = <<>>

\* The frame has no search left: the NPC keeps moving without a path.
PutOff ==
  /\ NeedsSearch
  /\ budget = 0
  /\ npc' = [npc EXCEPT ![turn] = Planner]
  /\ NextTurn("Move")
  /\ UNCHANGED <<budget, cache, search, orders>>

\* What SystemPathfinding makes of a path that FindPath returned.
Adopt(w, path, partial) ==
  LET stuck == w.loc = w.last_cap
      tries == IF partial /\ stuck THEN w.retries + 1 ELSE 0
      new == [w EXCEPT !.last_target = w.target, !.waypoints = path, !.index = 1,
                       !.partial = partial, !.retries = tries,
                       !.last_cap = IF partial THEN w.loc ELSE @,
                       !.speed = TRUE, !.disturbed = FALSE]
  IN  IF tries < 2 THEN new
      ELSE [new EXCEPT !.toil = "Idle", !.waypoints = <<>>, !.retries = 0, !.speed = FALSE]

\* Broken variant: the NPC keeps moving and looks again in every frame.
AbandonLater(w) == [Forget(w) EXCEPT !.last_target = w.target]

Abandon(w) ==
  [Forget(w) EXCEPT !.last_target = w.target, !.toil = "Idle", !.speed = FALSE]

Finds(result) ==
  /\ npc' = [npc EXCEPT ![turn] = result]
  /\ search' = NoSearch
  /\ NextTurn("Move")
  /\ UNCHANGED orders

CacheKey(from, to) == <<BucketOf(from), BucketOf(to)>>

Spend == NeedsSearch /\ budget > 0 /\ budget' = budget - 1

\* The ends of the path that is asked for.
Here == Clamped(Planner.loc)
There == Clamped(Planner.target)

\* FindPath's answers without a search: the same tile, a target inside an
\* obstacle, a path that is remembered.
FindSameTile ==
  /\ Spend
  /\ Here = There
  /\ Finds(Adopt(Planner, <<There>>, FALSE))
  /\ UNCHANGED cache

FindNothing ==
  /\ Spend
  /\ Here # There
  /\ ~IsWalkable(There)
  /\ Finds(Abandon(Planner))
  /\ UNCHANGED cache

Searchable == Spend /\ Here # There /\ IsWalkable(There)

FindCached ==
  LET key == CacheKey(Here, There) IN
  /\ Searchable
  /\ key \in DOMAIN cache
  /\ Finds(Adopt(Planner, cache[key], FALSE))
  /\ UNCHANGED cache

StartSearch ==
  /\ Searchable
  /\ CacheKey(Here, There) \notin DOMAIN cache
  /\ search' = [from |-> Here, to |-> There, g_score |-> [t \in {Here} |-> 0], parent |-> <<>>,
                open |-> {[at |-> Here, g |-> 0]}, iterations |-> 0, best |-> Here]
  /\ npc' = [npc EXCEPT ![turn] = Planner]
  /\ phase' = "Search"
  /\ UNCHANGED <<turn, cache, orders>>

Dismiss ==
  /\ phase = "Plan"
  /\ npc[turn].toil # "Moving"
  /\ NextTurn("Move")
  /\ UNCHANGED <<npc, budget, cache, search, orders>>

-----------------------------------------------------------------------------
(* The search of FindPath: one action per iteration of its loop.           *)

From == search.from
To == search.to

Heuristic(t) == Octile(t, To)

\* top() of the priority queue; which of equals comes first is up to the heap.
Top(e) ==
  /\ phase = "Search"
  /\ search.iterations < MaxIterations
  /\ e \in search.open
  /\ \A o \in search.open : e.g + Heuristic(e.at) <= o.g + Heuristic(o.at)

Popped(e) == [search EXCEPT !.open = @ \ {e}, !.iterations = @ + 1]

\* An entry that a cheaper one has overtaken.
SkipStale(e) ==
  /\ Top(e)
  /\ e.at # To
  /\ e.g > search.g_score[e.at]
  /\ search' = Popped(e)
  /\ UNCHANGED <<phase, turn, npc, budget, cache, orders>>

\* The array old with what new says written over it.
Over(new, old) ==
  [x \in DOMAIN new \cup DOMAIN old |-> IF x \in DOMAIN new THEN new[x] ELSE old[x]]

Improves(e, t) ==
  t \in DOMAIN search.g_score => e.g + MoveCost(e.at, t) < search.g_score[t]

Expand(e) ==
  LET better == {t \in Neighbours[e.at] : Improves(e, t)} IN
  /\ Top(e)
  /\ e.at # To
  /\ e.g = search.g_score[e.at]
  /\ search' = [Popped(e) EXCEPT
       !.g_score = Over([t \in better |-> e.g + MoveCost(e.at, t)], @),
       !.parent = Over([t \in better |-> e.at], @),
       !.open = @ \cup {[at |-> t, g |-> e.g + MoveCost(e.at, t)] : t \in better},
       !.best = IF Heuristic(e.at) < Heuristic(@) THEN e.at ELSE @]
  /\ UNCHANGED <<phase, turn, npc, budget, cache, orders>>

\* The path to t, from the parents noted on the way.
PathTo(t) ==
  LET path[u \in Tiles] ==
        IF u \in DOMAIN search.parent THEN Append(path[search.parent[u]], u) ELSE <<u>>
  IN  path[t]

Remember(path) ==
  Over([key \in {CacheKey(From, To)} |-> path],
       IF Cardinality(DOMAIN cache) > MaxCached THEN <<>> ELSE cache)

ReachGoal(e) ==
  /\ Top(e)
  /\ e.at = To
  /\ cache' = Remember(PathTo(To))
  /\ Finds(Adopt(npc[turn], PathTo(To), FALSE))
  /\ UNCHANGED budget

\* The loop ends without the goal: the limit is hit, or nothing is left.
GiveUp ==
  LET hit_cap == search.open # {} IN
  /\ phase = "Search"
  /\ search.open = {} \/ search.iterations = MaxIterations
  /\ Finds(IF search.best = From THEN Abandon(npc[turn])
           ELSE Adopt(npc[turn], PathTo(search.best), hit_cap))
  /\ UNCHANGED <<budget, cache>>

-----------------------------------------------------------------------------
(* SystemMovement.                                                         *)

Moving == phase = "Move" /\ npc[turn].toil = "Moving"

Moves(w) ==
  /\ npc' = [npc EXCEPT ![turn] = w]
  /\ NextTurn("Orders")
  /\ UNCHANGED <<budget, cache, search, orders>>

\* The NPC is put onto its target and starts to work.
Arrived(w) ==
  [Forget(w) EXCEPT !.loc = w.target, !.toil = "Working",
                    !.index = 1, !.partial = FALSE, !.retries = 0, !.speed = FALSE]

ArriveStraight ==
  LET w == npc[turn] IN
  Moving /\ w.waypoints = <<>> /\ w.loc = w.target /\ Moves(Arrived(w))

GoStraight ==
  LET w == npc[turn] IN
  /\ Moving
  /\ w.waypoints = <<>>
  /\ w.loc # w.target
  /\ SeesTarget(w)
  /\ Moves([w EXCEPT !.loc = Toward(w.loc, w.target)])

\* Without a path and without sight the steering gets anywhere near.
Drift ==
  LET w == npc[turn] IN
  /\ Moving
  /\ w.waypoints = <<>>
  /\ w.loc # w.target
  /\ ~SeesTarget(w)
  /\ \E t \in (IF w.speed THEN Adjacent[w.loc] ELSE {}) \cup {w.loc} :
       Moves([w EXCEPT !.loc = t])

OnPath(w) == w.waypoints # <<>> /\ w.index <= Len(w.waypoints)

PassWaypoint ==
  LET w == npc[turn] IN
  /\ Moving
  /\ OnPath(w)
  /\ w.loc = w.waypoints[w.index]
  /\ Moves([w EXCEPT !.index = @ + 1])

\* Straight to the waypoint, whatever lies between.
FollowPath ==
  LET w == npc[turn]
      t == Toward(w.loc, w.waypoints[w.index])
  IN  /\ Moving
      /\ OnPath(w)
      /\ w.loc # w.waypoints[w.index]
      /\ w.speed
      /\ Moves([w EXCEPT !.loc = t,
                         !.index = IF t = w.waypoints[w.index] THEN @ + 1 ELSE @])

\* Nothing gives a walker on a path its speed back.
StandOnPath ==
  LET w == npc[turn] IN
  /\ Moving
  /\ OnPath(w)
  /\ w.loc # w.waypoints[w.index]
  /\ ~w.speed
  /\ Moves(w)

PathUsedUp(w) == w.waypoints # <<>> /\ w.index > Len(w.waypoints)

\* Broken variant: a partial path that is used up counts as an arrival.
ArriveAnywhere ==
  LET w == npc[turn] IN Moving /\ PathUsedUp(w) /\ Moves(Arrived(w))

ArriveByPath ==
  LET w == npc[turn] IN
  /\ Moving
  /\ PathUsedUp(w)
  /\ w.loc = w.target \/ ~w.partial
  /\ Moves(Arrived(w))

\* A partial path has been used up: the next frame looks for another.
NextLeg ==
  LET w == npc[turn] IN
  /\ Moving
  /\ PathUsedUp(w)
  /\ w.loc # w.target /\ w.partial
  /\ Moves([Forget(w) EXCEPT !.index = 1])

Stand ==
  /\ phase = "Move"
  /\ npc[turn].toil # "Moving"
  /\ Moves([npc[turn] EXCEPT !.speed = FALSE])

Frame ==
  \/ RunSystems
  \/ Dismiss \/ PlanStraight \/ KeepPath \/ PutOff
  \/ FindSameTile \/ FindNothing \/ FindCached \/ StartSearch
  \/ \E e \in search.open : SkipStale(e) \/ Expand(e) \/ ReachGoal(e)
  \/ GiveUp
  \/ Stand \/ ArriveStraight \/ GoStraight \/ Drift
  \/ PassWaypoint \/ FollowPath \/ StandOnPath \/ ArriveByPath \/ NextLeg

Next ==
  \/ \E n \in Npcs, t \in Targets : Job(n, t) \/ Steer(n, t) \/ SitDown(n, t)
  \/ \E n \in Npcs : Hold(n) \/ Interrupt(n) \/ Resume(n)
  \/ Frame

Spec == Init /\ [][Next]_vars

\* The game loop runs its systems for ever; nobody has to give orders.
FairSpec == Spec /\ WF_vars(Frame)

-----------------------------------------------------------------------------
\* GridMap.cpp FindPath: every path that the cache remembers touches no wall
\* and cuts no corner, is as short as any between its own ends, and lies
\* under the squares of those ends.
CacheIsExact ==
  \A key \in DOMAIN cache :
    LET path == cache[key] IN
    /\ key = <<BucketOf(path[1]), BucketOf(path[Len(path)])>>
    /\ ShortestWalk(path)

\* SystemMovement.cpp puts an NPC onto its target at the end of a path.  It
\* stood on the target's tile then, or it was off by no more than what the
\* code lets pass: the target has moved by two tiles at most since the path
\* was found, and the path led to that place, to another of its square (a
\* remembered path), or as near as one gets to a place with no way to it; and
\* the NPC was at the end of that path, unless it was stopped on it.
ArrivesNear ==
  [][\A n \in Npcs :
       phase = "Move" /\ npc[n].toil = "Moving" /\ npc'[n].toil = "Working" =>
         LET w == npc[n]
             end == w.waypoints[Len(w.waypoints)]
         IN  \/ w.loc = w.target
             \/ /\ ~TargetMoved(w)
                /\ BucketOf(end) = BucketOf(w.last_target) \/ ~Reachable(end, w.last_target)
                /\ w.loc = end \/ w.disturbed]_vars

\* No walk lasts for ever once nobody gives new targets (there are MaxOrders of
\* them here; who is sent elsewhere on its way again and again may walk for ever):
\* an NPC arrives or gives up.  There are two excuses.  Its search is put off again
\* and again, because the frame's budget went to others (SystemMovement.cpp:60).
\* Or another system stopped it on its way round an obstacle: then its path is
\* kept, and SystemPathfinding restores the speed only with a new path or with the
\* target in sight.
WalkEnds ==
  \A n \in Npcs :
    \/ []<>(npc[n].toil # "Moving")
    \/ []<>(turn = n /\ NeedsSearch /\ budget = 0)
    \/ <>[](npc[n].disturbed /\ ~npc[n].speed)
=============================================================================
