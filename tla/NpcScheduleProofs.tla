------------------------- MODULE NpcScheduleProofs -------------------------
(***************************************************************************)
(* Proofs about NpcSchedule, for any number of NPCs, jobs, places and      *)
(* pieces of furniture.                                                    *)
(***************************************************************************)
EXTENDS NpcSchedule, TLAPS

-----------------------------------------------------------------------------
(* Types.                                                                  *)

LEMMA InitType == Init => TypeOK
<1> SUFFICES ASSUME Init PROVE TypeOK
  OBVIOUS
<1>1. TRUE \in BOOLEAN /\ FALSE \in BOOLEAN
  OBVIOUS
<1>2. JobTicks \in Nat /\ HitPoints \in Nat
  BY ScheduleAssumption
<1>3. [id |-> None, place |-> None, at |-> None, active |-> FALSE, wander |-> FALSE] \in JobState
  BY <1>1 DEF JobState
<1>4. job \in [Npcs -> JobState]
  BY <1>3 DEF Init
<1>5. \A q \in Places : [toil |-> "Idle", ticks |-> 0, floor |-> FALSE, busy |-> "No",
        critical |-> {}, foe |-> FALSE, hp |-> HitPoints, pos |-> q] \in NpcState
  BY <1>1, <1>2 DEF NpcState
<1>6. npc \in [Npcs -> NpcState]
  BY <1>5 DEF Init
<1> QED
  BY <1>1, <1>4, <1>6 DEF Init, TypeOK

LEMMA PlannedType ==
  ASSUME NEW j \in Jobs
  PROVE  /\ Planned(j) \in JobState /\ Planned(j).active = TRUE /\ Planned(j).id = j
         /\ Planned(j).place = JobPlace[j] /\ Planned(j).at = JobPlace[j]
         /\ JobPlace[j] \in Places
<1>1. JobPlace[j] \in Places
  BY ScheduleAssumption
<1>2. TRUE \in BOOLEAN /\ FALSE \in BOOLEAN
  OBVIOUS
<1> QED
  BY <1>1, <1>2 DEF Planned, JobState

LEMMA JobsAnsweredType == TypeOK /\ JobsAnswered => TypeOK'
<1> SUFFICES ASSUME TypeOK, JobsAnswered PROVE TypeOK'
  OBVIOUS
<1>1. PICK offer \in UNION {[T -> Jobs] : T \in SUBSET Npcs} :
        \E taken \in SUBSET (DOMAIN offer) :
         /\ job' = [n \in Npcs |-> IF n \in taken THEN Planned(offer[n]) ELSE job[n]]
         /\ npc' = [n \in Npcs |->
                       IF n \in taken
                       THEN [npc[n] EXCEPT !.toil = "Idle", !.ticks = 0,
                                           !.busy = IF @ = "ScheduleWait" THEN "No" ELSE @]
                       ELSE npc[n]]
  BY DEF JobsAnswered
<1>2. \A n \in DOMAIN offer : offer[n] \in Jobs
  <2>1. PICK T \in SUBSET Npcs : offer \in [T -> Jobs]
    OBVIOUS
  <2> QED
    BY <2>1
<1>3. job' \in [Npcs -> JobState]
  <2>1. \A n \in DOMAIN offer : Planned(offer[n]) \in JobState
    BY <1>2, PlannedType
  <2>2. \A n \in Npcs : job[n] \in JobState
    BY DEF TypeOK
  <2>3. PICK taken \in SUBSET (DOMAIN offer) :
          job' = [n \in Npcs |-> IF n \in taken THEN Planned(offer[n]) ELSE job[n]]
    BY <1>1
  <2>4. \A n \in Npcs : (IF n \in taken THEN Planned(offer[n]) ELSE job[n]) \in JobState
    BY <2>1, <2>2
  <2> QED
    BY <2>3, <2>4
<1>4. events' \in Nat /\ UNCHANGED <<frame, needs, trees, reports, talks>> /\ asked' = FALSE
  <2>1. events' = events + 1 /\ UNCHANGED <<frame, needs, trees, reports, talks>> /\ asked' = FALSE
    BY Zenon DEF JobsAnswered, Event
  <2>2. events \in Nat
    BY DEF TypeOK
  <2> QED
    BY <2>1, <2>2
<1>5. \A n \in Npcs : npc'[n] \in NpcState
  <2> TAKE n \in Npcs
  <2>1. npc[n] \in NpcState /\ 0 \in 0 .. JobTicks
    BY ScheduleAssumption DEF TypeOK
  <2>2. \/ npc'[n] = npc[n]
        \/ npc'[n] = [npc[n] EXCEPT !.toil = "Idle", !.ticks = 0,
                                    !.busy = IF @ = "ScheduleWait" THEN "No" ELSE @]
    BY <1>1
  <2> QED
    BY <2>1, <2>2 DEF NpcState
<1>6. npc' \in [Npcs -> NpcState]
  <2>1. npc' = [n \in Npcs |-> npc'[n]]
    BY <1>1
  <2> QED
    BY <1>5, <2>1
<1> QED
  BY <1>3, <1>6, <1>4 DEF TypeOK, frame, needs

LEMMA ReportAnsweredType ==
  ASSUME TypeOK, NEW n \in Npcs, ReportAnswered(n)
  PROVE  TypeOK'
<1>1. CASE UNCHANGED <<job, npc, events>>
  BY <1>1 DEF ReportAnswered, TypeOK, frame, needs
<1>2. CASE ~UNCHANGED <<job, npc, events>>
  <2>1. PICK j \in Jobs : job' = [job EXCEPT ![n] = [Planned(j) EXCEPT !.at = job[n].at]]
    BY <1>2 DEF ReportAnswered
  <2>2. job[n] \in JobState /\ npc[n] \in NpcState /\ 0 \in 0 .. JobTicks
    BY ScheduleAssumption DEF TypeOK
  <2>3. job'[n] = [Planned(j) EXCEPT !.at = job[n].at]
    BY <2>1 DEF TypeOK
  <2>4. job'[n] \in JobState
    BY <2>2, <2>3, PlannedType DEF JobState
  <2>5. npc'[n] = [npc[n] EXCEPT !.toil = "Idle", !.ticks = 0]
        /\ npc' = [npc EXCEPT ![n] = npc'[n]]
    BY <1>2 DEF ReportAnswered, TypeOK
  <2>6. npc'[n] \in NpcState
    BY <2>2, <2>5 DEF NpcState
  <2>7. job' \in [Npcs -> JobState] /\ npc' \in [Npcs -> NpcState]
    BY <2>1, <2>3, <2>4, <2>5, <2>6 DEF TypeOK
  <2> QED
    BY <1>2, <2>7 DEF ReportAnswered, TypeOK, frame, needs, Event
<1> QED
  BY <1>1, <1>2

\* Dialogues: only BusyTags, and the jobs that the end of one may bring.
LEMMA TalkType ==
  ASSUME TypeOK,
         \/ \E n \in Npcs : PlayerTalks(n)
         \/ \E S \in SUBSET Npcs : NpcsMeet(S)
         \/ \E t \in talks : LoseTalk(t)
  PROVE  TypeOK'
<1>1. CASE \E t \in talks : LoseTalk(t)
  <2>1. PICK t \in talks : LoseTalk(t)
    BY <1>1
  <2>2. [t EXCEPT !.kind = "lost"] \in [id : Nat, who : SUBSET Npcs, kind : {"player", "npc", "lost"}]
    BY DEF TypeOK
  <2> QED
    BY <2>1, <2>2 DEF LoseTalk, TypeOK, frame, needs
<1>2. CASE \/ \E n \in Npcs : PlayerTalks(n)
           \/ \E S \in SUBSET Npcs : NpcsMeet(S)
  <2>1. PICK S \in SUBSET Npcs, kind \in {"player", "npc"} : StartTalk(S, kind)
    BY <1>2 DEF PlayerTalks, NpcsMeet
  <2>2. \A n \in Npcs : npc'[n] \in NpcState
    <3> TAKE n \in Npcs
    <3>1. npc[n] \in NpcState
      BY DEF TypeOK
    <3>2. npc'[n] = npc[n] \/ npc'[n] = [npc[n] EXCEPT !.busy = "Dialogue"]
      BY <2>1 DEF StartTalk
    <3> QED
      BY <3>1, <3>2 DEF NpcState
  <2>3. npc' \in [Npcs -> NpcState]
    <3>1. npc' = [n \in Npcs |-> npc'[n]]
      BY <2>1 DEF StartTalk
    <3> QED
      BY <2>2, <3>1
  <2>4. [id |-> events + 1, who |-> S, kind |-> kind]
          \in [id : Nat, who : SUBSET Npcs, kind : {"player", "npc", "lost"}]
    BY <2>1 DEF TypeOK
  <2> QED
    BY <2>1, <2>3, <2>4 DEF StartTalk, Event, TypeOK, frame, needs
<1> QED
  BY <1>1, <1>2

LEMMA EndTalkType ==
  ASSUME TypeOK, NEW t \in talks, EndTalk(t)
  PROVE  TypeOK'
<1>1. PICK offer \in UNION {[T -> Jobs] : T \in SUBSET (IF t.kind = "npc" THEN t.who ELSE {})} :
         /\ job' = [n \in Npcs |-> IF n \in DOMAIN offer THEN Planned(offer[n]) ELSE job[n]]
         /\ npc' = [n \in Npcs |->
                    CASE n \in DOMAIN offer -> [npc[n] EXCEPT !.toil = "Idle", !.ticks = 0,
                                                              !.busy = "No"]
                      [] n \in t.who \ DOMAIN offer -> [npc[n] EXCEPT !.busy = "No"]
                      [] OTHER -> npc[n]]
         /\ events' \in {events, events + 1}
  BY Zenon DEF EndTalk, Event
<1>2. \A n \in DOMAIN offer : offer[n] \in Jobs
  <2>1. PICK T \in SUBSET (IF t.kind = "npc" THEN t.who ELSE {}) : offer \in [T -> Jobs]
    OBVIOUS
  <2> QED
    BY <2>1
<1>3. job' \in [Npcs -> JobState]
  BY <1>1, <1>2, PlannedType DEF TypeOK
<1>4. \A n \in Npcs : npc'[n] \in NpcState
  <2> TAKE n \in Npcs
  <2>1. npc[n] \in NpcState /\ 0 \in 0 .. JobTicks
    BY ScheduleAssumption DEF TypeOK
  <2>2. \/ npc'[n] = npc[n]
        \/ npc'[n] = [npc[n] EXCEPT !.toil = "Idle", !.ticks = 0, !.busy = "No"]
        \/ npc'[n] = [npc[n] EXCEPT !.busy = "No"]
    BY <1>1
  <2> QED
    BY <2>1, <2>2 DEF NpcState
<1>5. npc' \in [Npcs -> NpcState]
  <2>1. npc' = [n \in Npcs |-> npc'[n]]
    BY <1>1
  <2> QED
    BY <1>4, <2>1
<1>6. events' \in Nat
  <2>1. events' \in {events, events + 1}
    BY <1>1
  <2>2. events \in Nat
    BY DEF TypeOK
  <2> QED
    BY <2>1, <2>2
<1> QED
  BY <1>3, <1>5, <1>6 DEF EndTalk, TypeOK, frame, needs

\* The job driver writes the NPC it visits, and no other.
LEMMA JobDriverType ==
  ASSUME TypeOK, NEW n \in Npcs, JobDriver(n)
  PROVE  TypeOK'
<1>1. npc[n] \in NpcState /\ job[n] \in JobState
      /\ 0 \in 0 .. JobTicks /\ JobTicks \in 0 .. JobTicks
  BY ScheduleAssumption DEF TypeOK
<1>2. todo' \in SUBSET Npcs
  BY DEF JobDriver, Visit, TypeOK
<1>3. CASE UNCHANGED <<job, npc, reports>>
  BY <1>2, <1>3 DEF JobDriver, TypeOK, needs
<1>4. CASE Interrupt(n)
  <2>1. npc'[n] = [npc[n] EXCEPT !.toil = "Interrupted"] /\ npc' = [npc EXCEPT ![n] = npc'[n]]
    BY <1>4 DEF Interrupt, TypeOK
  <2>2. npc'[n] \in NpcState
    BY <1>1, <2>1 DEF NpcState
  <2>3. npc' \in [Npcs -> NpcState] /\ reports' \in SUBSET Npcs
    BY <1>4, <2>1, <2>2 DEF Interrupt, TypeOK
  <2> QED
    BY <1>2, <1>4, <2>3 DEF Interrupt, JobDriver, TypeOK, needs
<1>5. CASE Rest(n) \/ SetOut(n) \/ BeginWork(n) \/ Work(n)
  <2>1. /\ npc' = [npc EXCEPT ![n] = npc'[n]]
        /\ \/ npc'[n] = [npc[n] EXCEPT !.toil = "Idle"]
           \/ \E c \in {npc[n].critical, {}} :
                npc'[n] = [npc[n] EXCEPT !.toil = "Moving", !.critical = c]
           \/ npc'[n] = [npc[n] EXCEPT !.toil = "Working", !.ticks = JobTicks]
           \/ npc[n].ticks > 1 /\ npc'[n] = [npc[n] EXCEPT !.ticks = @ - 1]
    BY <1>5 DEF Rest, SetOut, BeginWork, Work, TypeOK
  <2>2. npc[n].ticks > 1 => npc[n].ticks - 1 \in 0 .. JobTicks
    BY <1>1, ScheduleAssumption DEF NpcState
  <2>3. npc'[n] \in NpcState
    <3>1. CASE npc[n].ticks > 1 /\ npc'[n] = [npc[n] EXCEPT !.ticks = @ - 1]
      BY <1>1, <2>2, <3>1 DEF NpcState
    <3>2. CASE \E c \in {npc[n].critical, {}} :
                 npc'[n] = [npc[n] EXCEPT !.toil = "Moving", !.critical = c]
      BY <1>1, <3>2 DEF NpcState
    <3>3. CASE \/ npc'[n] = [npc[n] EXCEPT !.toil = "Idle"]
               \/ npc'[n] = [npc[n] EXCEPT !.toil = "Working", !.ticks = JobTicks]
      BY <1>1, <3>3 DEF NpcState
    <3> QED
      BY <2>1, <3>1, <3>2, <3>3
  <2>4. npc' \in [Npcs -> NpcState]
    BY <2>1, <2>3 DEF TypeOK
  <2> QED
    BY <1>2, <1>5, <2>4 DEF Rest, SetOut, BeginWork, Work, JobDriver, TypeOK, needs
<1>6. CASE Complete(n)
  <2>1. npc'[n] = [npc[n] EXCEPT !.toil = "Idle", !.ticks = 0, !.busy = "ScheduleWait"]
        /\ npc' = [npc EXCEPT ![n] = npc'[n]]
    BY <1>6 DEF Complete, TypeOK
  <2>2. npc'[n] \in NpcState
    BY <1>1, <2>1 DEF NpcState
  <2>3. job'[n] = [job[n] EXCEPT !.active = FALSE] /\ job' = [job EXCEPT ![n] = job'[n]]
    BY <1>6 DEF Complete, TypeOK
  <2>4. FALSE \in BOOLEAN
    OBVIOUS
  <2>5. job'[n] \in JobState
    BY <1>1, <2>3, <2>4 DEF JobState
  <2>6. npc' \in [Npcs -> NpcState] /\ job' \in [Npcs -> JobState]
    BY <2>1, <2>2, <2>3, <2>5 DEF TypeOK
  <2> QED
    BY <1>2, <1>6, <2>6 DEF Complete, JobDriver, TypeOK, needs
<1> QED
  BY <1>3, <1>4, <1>5, <1>6 DEF JobDriver, OnTheWay

\* What a tree, the body or a hit does to the components of the NPC it is about.
LEMMA NpcWrite ==
  ASSUME TypeOK, NEW n \in Npcs, NEW r \in NpcState, npc' = [npc EXCEPT ![n] = r]
  PROVE  npc' \in [Npcs -> NpcState]
  BY DEF TypeOK

LEMMA JobWrite ==
  ASSUME TypeOK, NEW n \in Npcs, NEW r \in JobState, job' = [job EXCEPT ![n] = r]
  PROVE  job' \in [Npcs -> JobState]
  BY DEF TypeOK

LEMMA CombatType ==
  ASSUME TypeOK, NEW n \in Npcs,
         NotTicked(n) \/ Chase(n) \/ Strike(n) \/ Peace(n) \/ Hit(n)
  PROVE  TypeOK'
<1>1. npc[n] \in NpcState /\ job[n] \in JobState
      /\ TRUE \in BOOLEAN /\ FALSE \in BOOLEAN /\ npc[n].floor \in BOOLEAN
  BY DEF TypeOK, NpcState
<1>2. CASE NotTicked(n)
  <2>1. PICK fl \in BOOLEAN : npc' = [npc EXCEPT ![n] = [npc[n] EXCEPT !.floor = fl]]
    BY <1>1, <1>2 DEF NotTicked, Ambient, TypeOK
  <2>2. [npc[n] EXCEPT !.floor = fl] \in NpcState
    BY <1>1 DEF NpcState
  <2>3. npc' \in [Npcs -> NpcState]
    BY <2>1, <2>2, NpcWrite
  <2> QED
    BY <1>2, <2>3 DEF NotTicked, MyTurn, Visit, TypeOK, rpcs, needs
<1>3. CASE Chase(n) /\ UNCHANGED <<job, npc>>
  BY <1>3 DEF Chase, Fights, MyTurn, Visit, TypeOK, rpcs, needs
<1>4. CASE Chase(n) /\ ~UNCHANGED <<job, npc>>
  <2>1. PICK p \in Places, q \in Places :
          job' = [job EXCEPT ![n] = [job[n] EXCEPT !.at = p, !.place = q]]
    BY <1>4, ScheduleAssumption DEF Chase, TypeOK
  <2>2. [job[n] EXCEPT !.at = p, !.place = q] \in JobState
    BY <1>1 DEF JobState
  <2>3. npc' = [npc EXCEPT ![n] = [npc[n] EXCEPT !.toil = "Moving"]]
    BY <1>4 DEF Chase, TypeOK
  <2>4. [npc[n] EXCEPT !.toil = "Moving"] \in NpcState
    BY <1>1 DEF NpcState
  <2>5. npc' \in [Npcs -> NpcState] /\ job' \in [Npcs -> JobState]
    BY <2>1, <2>2, <2>3, <2>4, NpcWrite, JobWrite
  <2> QED
    BY <1>4, <2>5 DEF Chase, Fights, MyTurn, Visit, TypeOK, rpcs, needs
<1>5. CASE Strike(n)
  <2>1. PICK tl \in {"Idle", "Moving", "Working", "Interrupted"}, fo \in BOOLEAN :
          npc' = [npc EXCEPT ![n] = [npc[n] EXCEPT !.toil = tl, !.foe = fo]]
    <3>1. PICK kills \in BOOLEAN :
            npc' = [npc EXCEPT ![n] =
              [npc[n] EXCEPT !.toil = IF npc[n].toil = "Moving" THEN "Working" ELSE npc[n].toil,
                             !.foe = ~kills]]
      BY <1>5 DEF Strike
    <3>2. npc[n].toil \in {"Idle", "Moving", "Working", "Interrupted"} /\ (~kills) \in BOOLEAN
      BY <1>1 DEF NpcState
    <3>3. (IF npc[n].toil = "Moving" THEN "Working" ELSE npc[n].toil)
            \in {"Idle", "Moving", "Working", "Interrupted"}
      BY <3>2
    <3> QED
      BY <3>1, <3>2, <3>3
  <2>2. [npc[n] EXCEPT !.toil = tl, !.foe = fo] \in NpcState
    BY <1>1 DEF NpcState
  <2>3. npc' \in [Npcs -> NpcState]
    BY <2>1, <2>2, NpcWrite
  <2> QED
    BY <1>5, <2>3 DEF Strike, Fights, MyTurn, Visit, TypeOK, rpcs, needs
<1>6. CASE Peace(n)
  <2>1. npc' = [npc EXCEPT ![n] = [npc[n] EXCEPT !.foe = FALSE]]
    BY <1>6 DEF Peace, TypeOK
  <2>2. [npc[n] EXCEPT !.foe = FALSE] \in NpcState
    BY <1>1 DEF NpcState
  <2>3. npc' \in [Npcs -> NpcState]
    BY <2>1, <2>2, NpcWrite
  <2> QED
    BY <1>6, <2>3 DEF Peace, MyTurn, Visit, TypeOK, rpcs, needs
<1>7. CASE Hit(n)
  <2>1. PICK fl \in BOOLEAN :
          npc' = [npc EXCEPT ![n] = [npc[n] EXCEPT !.hp = npc[n].hp - 1, !.busy = "No",
                                                   !.foe = TRUE, !.floor = fl]]
    <3>1. PICK fl \in Ambient(n) :
            npc' = [npc EXCEPT ![n] = [npc[n] EXCEPT !.hp = npc[n].hp - 1, !.busy = "No",
                                                     !.foe = TRUE, !.floor = fl]]
      BY <1>7 DEF Hit
    <3>2. fl \in BOOLEAN
      BY <1>1 DEF Ambient
    <3> QED
      BY <3>1, <3>2
  <2>2. npc[n].hp - 1 \in 0 .. HitPoints
    <3>1. npc[n].hp \in 0 .. HitPoints /\ npc[n].hp > 0
      BY <1>1, <1>7 DEF Hit, NpcState
    <3>2. HitPoints \in Nat
      BY ScheduleAssumption
    <3> QED
      BY <3>1, <3>2
  <2>3. [npc[n] EXCEPT !.hp = npc[n].hp - 1, !.busy = "No", !.foe = TRUE, !.floor = fl]
          \in NpcState
    BY <1>1, <2>2 DEF NpcState
  <2>4. npc' \in [Npcs -> NpcState]
    BY <2>1, <2>3, NpcWrite
  <2>5. events' \in Nat
    <3>1. events' = events + 1
      BY <1>7, Zenon DEF Hit, Event
    <3>2. events \in Nat
      BY DEF TypeOK
    <3> QED
      BY <3>1, <3>2
  <2>6. UNCHANGED <<phase, todo, turn, node, job, resolving, occupied, occupied_by, camp,
                    trees, asked, reports, talks>>
    BY <1>7 DEF Hit, rpcs, needs, frame
  <2> QED
    BY <2>4, <2>5, <2>6 DEF TypeOK
<1> QED
  BY <1>2, <1>3, <1>4, <1>5, <1>6, <1>7

\* Hunger and fatigue: the tree writes its NPC, the furniture and the camps.
LEMMA CrisisType ==
  ASSUME TypeOK, NEW n \in Npcs,
         \/ \E c \in Needs : BeginCrisis(n, c)
         \/ InCrisis(n) \/ ScheduledNeed(n)
  PROVE  TypeOK'
<1>1. npc[n] \in NpcState /\ job[n] \in JobState
      /\ TRUE \in BOOLEAN /\ FALSE \in BOOLEAN /\ 0 \in 0 .. JobTicks
  BY ScheduleAssumption DEF TypeOK
<1>2. CASE \E c \in Needs : BeginCrisis(n, c)
  <2>1. PICK c \in Needs : BeginCrisis(n, c)
    BY <1>2
  <2>2. [id |-> c, place |-> None, at |-> None, active |-> TRUE, wander |-> FALSE] \in JobState
    BY <1>1 DEF JobState
  <2>3. job' \in [Npcs -> JobState]
    BY <2>1, <2>2, JobWrite DEF BeginCrisis
  <2>4. [npc[n] EXCEPT !.toil = "Idle", !.ticks = 0, !.floor = FALSE] \in NpcState
    BY <1>1 DEF NpcState
  <2>5. npc' \in [Npcs -> NpcState]
    BY <2>1, <2>4, NpcWrite DEF BeginCrisis
  <2> QED
    BY <2>1, <2>3, <2>5 DEF BeginCrisis, At, AtNode, GoOn, TypeOK, rpcs
<1>3. CASE InCrisis(n)
  BY <1>3 DEF InCrisis, At, AtNode, GoOn, TypeOK, rpcs, needs
<1>4. CASE ScheduledNeed(n)
  <2>1. job[n].id \in Jobs => JobNeed[job[n].id] \in Needs \cup {None}
    BY ScheduleAssumption
  <2>2. NeedOf(job[n].id) \in Needs
    BY <1>1, <1>4, <2>1 DEF ScheduledNeed, MealTime, NeedOf, JobState
  <2>3. resolving' \in [Npcs -> Needs \cup {None}]
    BY <1>4, <2>2 DEF ScheduledNeed, TypeOK
  <2> QED
    BY <1>4, <2>3 DEF ScheduledNeed, At, AtNode, GoOn, TypeOK, rpcs
<1> QED
  BY <1>2, <1>3, <1>4

LEMMA FindType ==
  ASSUME TypeOK, NEW n \in Npcs,
         FindFurniture(n) \/ Arrived(n) \/ MoveToTarget(n) \/ Recover(n)
  PROVE  TypeOK'
<1>1. npc[n] \in NpcState /\ job[n] \in JobState /\ npc[n].pos \in Places
  BY DEF TypeOK, NpcState
<1>2. CASE Arrived(n) \/ Recover(n)
  BY <1>2 DEF Arrived, Recover, At, AtNode, GoOn, TurnOver, TypeOK, rpcs, needs
<1>3. CASE MoveToTarget(n)
  <2>1. npc' = [npc EXCEPT ![n] = [npc[n] EXCEPT !.toil = "Moving"]]
    BY <1>3 DEF MoveToTarget, TypeOK
  <2>2. [npc[n] EXCEPT !.toil = "Moving"] \in NpcState
    BY <1>1 DEF NpcState
  <2>3. npc' \in [Npcs -> NpcState]
    BY <2>1, <2>2, NpcWrite
  <2> QED
    BY <1>3, <2>3 DEF MoveToTarget, At, AtNode, TurnOver, TypeOK, rpcs, needs
<1>4. CASE FindFurniture(n)
  <2>1. /\ \/ UNCHANGED <<job, npc>> \/ Target(n, npc[n].pos)
        /\ UNCHANGED camp \/ \E f \in Camps : camp' = [camp EXCEPT ![f] = resolving[n]]
    BY <1>4 DEF FindFurniture, NewHandles
  <2>2. job' \in [Npcs -> JobState] /\ npc' \in [Npcs -> NpcState]
    <3>1. CASE UNCHANGED <<job, npc>>
      BY <3>1 DEF TypeOK
    <3>2. CASE Target(n, npc[n].pos)
      <4>1. [job[n] EXCEPT !.place = npc[n].pos, !.at = npc[n].pos] \in JobState
        BY <1>1 DEF JobState
      <4>2. npc' = [npc EXCEPT ![n] = [npc[n] EXCEPT !.toil = "Idle"]]
        BY <3>2 DEF Target, TypeOK
      <4>3. [npc[n] EXCEPT !.toil = "Idle"] \in NpcState
        BY <1>1 DEF NpcState
      <4> QED
        BY <3>2, <4>1, <4>2, <4>3, NpcWrite, JobWrite DEF Target
    <3> QED
      BY <2>1, <3>1, <3>2
  <2>3. camp' \in [Camps -> Needs \cup {None}]
    BY <2>1 DEF TypeOK
  <2> QED
    BY <1>4, <2>2, <2>3 DEF FindFurniture, At, AtNode, GoOn, TypeOK, rpcs
<1> QED
  BY <1>2, <1>3, <1>4

LEMMA SettleType ==
  ASSUME TypeOK, NEW n \in Npcs, SettleDown(n)
  PROVE  TypeOK'
<1>1. npc[n] \in NpcState /\ TRUE \in BOOLEAN /\ FALSE \in BOOLEAN
      /\ JobTicks \in 0 .. JobTicks
  BY ScheduleAssumption DEF TypeOK
<1>2. PICK fl \in BOOLEAN : Settle(n, fl)
  BY <1>1 DEF SettleDown
<1>3. [npc[n] EXCEPT !.toil = "Working", !.ticks = JobTicks, !.floor = fl] \in NpcState
  BY <1>1 DEF NpcState
<1>4. npc' \in [Npcs -> NpcState]
  BY <1>2, <1>3, NpcWrite DEF Settle
<1>5. /\ \/ UNCHANGED <<occupied, occupied_by>> \/ \E f \in Furniture : Occupy(n, f)
      /\ UNCHANGED camp \/ \E f \in Camps : camp' = [camp EXCEPT ![f] = resolving[n]]
  BY DEF SettleDown, FreeFor, NewHandles, Furniture
<1>6. /\ occupied' \in [Npcs -> Furniture \cup {None}]
      /\ occupied_by' \in [Furniture -> Npcs \cup {None}]
      /\ camp' \in [Camps -> Needs \cup {None}]
  BY <1>5 DEF Occupy, TypeOK
<1> QED
  BY <1>4, <1>6 DEF SettleDown, At, AtNode, TurnOver, TypeOK, rpcs

LEMMA ResolveType ==
  ASSUME TypeOK, NEW n \in Npcs, Resolve(n)
  PROVE  TypeOK'
<1>1. npc[n] \in NpcState /\ job[n] \in JobState
      /\ TRUE \in BOOLEAN /\ FALSE \in BOOLEAN /\ 0 \in 0 .. JobTicks
  BY ScheduleAssumption DEF TypeOK
<1>2. [npc[n] EXCEPT !.toil = "Idle", !.ticks = 0, !.floor = FALSE,
                     !.critical = npc[n].critical \ {resolving[n]}] \in NpcState
  BY <1>1 DEF NpcState
<1>3. npc' \in [Npcs -> NpcState]
  BY <1>2, NpcWrite DEF Resolve
<1>4. job' = [job EXCEPT ![n] = [job[n] EXCEPT !.active = FALSE]]
  BY DEF Resolve, TypeOK
<1>5. [job[n] EXCEPT !.active = FALSE] \in JobState
  BY <1>1 DEF JobState
<1>6. job' \in [Npcs -> JobState]
  BY <1>4, <1>5, JobWrite
<1>7. /\ occupied' \in [Npcs -> Furniture \cup {None}]
      /\ occupied_by' \in [Furniture -> Npcs \cup {None}]
      /\ camp' \in [Camps -> Needs \cup {None}]
      /\ resolving' \in [Npcs -> Needs \cup {None}]
  BY DEF Resolve, Release, TypeOK
<1> QED
  BY <1>3, <1>6, <1>7 DEF Resolve, At, AtNode, TurnOver, TypeOK, rpcs

LEMMA NoNeedType ==
  ASSUME TypeOK, NEW n \in Npcs, NoNeed(n)
  PROVE  TypeOK'
<1>1. npc[n] \in NpcState /\ job[n] \in JobState /\ npc[n].pos \in Places
      /\ TRUE \in BOOLEAN /\ FALSE \in BOOLEAN
  BY DEF TypeOK, NpcState
<1>2. CASE NothingToDo(n)
  BY <1>2 DEF NoNeed, NothingToDo, AtNode, TurnOver, TypeOK, rpcs, needs
<1>3. CASE WanderOff(n)
  <2>1. [job[n] EXCEPT !.place = npc[n].pos, !.at = npc[n].pos, !.wander = TRUE] \in JobState
    BY <1>1 DEF JobState
  <2>2. [npc[n] EXCEPT !.toil = "Moving", !.floor = FALSE] \in NpcState
    BY <1>1 DEF NpcState
  <2>3. job' \in [Npcs -> JobState] /\ npc' \in [Npcs -> NpcState]
    BY <1>3, <2>1, <2>2, NpcWrite, JobWrite DEF WanderOff
  <2>4. events' \in Nat
    BY <1>3 DEF WanderOff, Event, TypeOK
  <2> QED
    BY <2>3, <2>4 DEF NoNeed, AtNode, TurnOver, TypeOK, rpcs, needs
<1>4. CASE StandAround(n)
  <2>1. npc' = [npc EXCEPT ![n] = [npc[n] EXCEPT !.ticks = npc[n].ticks - 1]]
    BY <1>4 DEF StandAround, TypeOK
  <2>2. npc[n].ticks - 1 \in 0 .. JobTicks
    <3>1. npc[n].ticks \in 0 .. JobTicks /\ npc[n].ticks > 0
      BY <1>1, <1>4 DEF StandAround, NpcState
    <3>2. JobTicks \in Nat
      BY ScheduleAssumption
    <3> QED
      BY <3>1, <3>2
  <2>3. [npc[n] EXCEPT !.ticks = npc[n].ticks - 1] \in NpcState
    BY <1>1, <2>2 DEF NpcState
  <2>4. npc' \in [Npcs -> NpcState]
    BY <2>1, <2>3, NpcWrite
  <2> QED
    BY <1>4, <2>4 DEF StandAround, NoNeed, AtNode, TurnOver, TypeOK, rpcs, needs
<1>5. CASE WanderEnds(n)
  <2>1. job' = [job EXCEPT ![n] = [job[n] EXCEPT !.wander = FALSE]]
    BY <1>5 DEF WanderEnds, TypeOK
  <2>2. [job[n] EXCEPT !.wander = FALSE] \in JobState
    BY <1>1 DEF JobState
  <2>3. [npc[n] EXCEPT !.toil = "Idle", !.floor = FALSE] \in NpcState
    BY <1>1 DEF NpcState
  <2>4. job' \in [Npcs -> JobState] /\ npc' \in [Npcs -> NpcState]
    BY <1>5, <2>1, <2>2, <2>3, NpcWrite, JobWrite DEF WanderEnds
  <2> QED
    BY <1>5, <2>4 DEF WanderEnds, NoNeed, AtNode, TurnOver, TypeOK, rpcs, needs
<1> QED
  BY <1>2, <1>3, <1>4, <1>5 DEF NoNeed

LEMMA BodyType ==
  ASSUME TypeOK, NEW n \in Npcs,
         Dies(n) \/ Stay(n) \/ Arrive(n) \/ Walk(n)
  PROVE  TypeOK'
<1>1. npc[n] \in NpcState /\ job[n] \in JobState
      /\ TRUE \in BOOLEAN /\ FALSE \in BOOLEAN
      /\ 0 \in 0 .. JobTicks /\ JobTicks \in 0 .. JobTicks
  BY ScheduleAssumption DEF TypeOK
<1>2. UNCHANGED <<phase, turn, node, resolving, occupied, occupied_by, camp,
                  asked, reports, talks>> /\ todo' \in SUBSET Npcs
  BY DEF Dies, Stay, Arrive, Walk, Moves, Body, Visit, TypeOK, rpcs, needs
<1>3. \A more \in Grown(n) : more \in SUBSET Needs
  <2>1. npc[n].critical \in SUBSET Needs
    BY <1>1 DEF NpcState
  <2> QED
    BY <2>1 DEF Grown
<1>4. \A more : Needy(n, more) => events' \in Nat
  BY DEF Needy, Event, TypeOK
<1>5. CASE Dies(n)
  <2>1. \/ npc' = [npc EXCEPT ![n] = [npc[n] EXCEPT !.foe = FALSE]]
        \/ npc' = [npc EXCEPT ![n] = [npc[n] EXCEPT !.toil = "Idle", !.ticks = 0,
                                                     !.floor = FALSE, !.foe = FALSE]]
    BY <1>5 DEF Dies, TypeOK
  <2>2. /\ [npc[n] EXCEPT !.foe = FALSE] \in NpcState
        /\ [npc[n] EXCEPT !.toil = "Idle", !.ticks = 0, !.floor = FALSE, !.foe = FALSE]
             \in NpcState
    BY <1>1 DEF NpcState
  <2>3. npc' \in [Npcs -> NpcState]
    BY <2>1, <2>2, NpcWrite
  <2> QED
    BY <1>2, <1>5, <2>3 DEF Dies, TypeOK
<1>6. CASE Stay(n)
  <2>1. PICK more \in SUBSET Needs :
          npc' = [npc EXCEPT ![n] = [npc[n] EXCEPT !.critical = more]] /\ Needy(n, more)
    BY <1>3, <1>6 DEF Stay, TypeOK
  <2>2. [npc[n] EXCEPT !.critical = more] \in NpcState
    BY <1>1 DEF NpcState
  <2>3. npc' \in [Npcs -> NpcState]
    BY <2>1, <2>2, NpcWrite
  <2> QED
    BY <1>2, <1>4, <1>6, <2>1, <2>3 DEF Stay, TypeOK
<1>7. CASE Arrive(n) \/ Walk(n)
  <2>1. Lookup(n) \in Places \cup {None}
    BY <1>1 DEF Lookup, JobState
  <2>2. job' = [job EXCEPT ![n] = [job[n] EXCEPT !.at = Lookup(n)]]
    BY <1>7 DEF Arrive, Walk, Moves, TypeOK
  <2>3. [job[n] EXCEPT !.at = Lookup(n)] \in JobState
    BY <1>1, <2>1 DEF JobState
  <2>4. PICK more \in SUBSET Needs :
          /\ Needy(n, more)
          /\ \/ \E p \in Places :
                  npc' = [npc EXCEPT ![n] = [npc[n] EXCEPT !.critical = more, !.pos = p]]
             \/ npc' = [npc EXCEPT ![n] = [npc[n] EXCEPT !.critical = more, !.toil = "Idle"]]
             \/ \E p \in Places :
                  npc' = [npc EXCEPT ![n] = [npc[n] EXCEPT !.critical = more, !.pos = p,
                            !.toil = "Working", !.ticks = JobTicks, !.floor = FALSE]]
    BY <1>3, <1>7, <2>1 DEF Arrive, Walk
  <2>5. \A p \in Places :
          /\ [npc[n] EXCEPT !.critical = more, !.pos = p] \in NpcState
          /\ [npc[n] EXCEPT !.critical = more, !.pos = p,
                            !.toil = "Working", !.ticks = JobTicks, !.floor = FALSE] \in NpcState
    BY <1>1 DEF NpcState
  <2>6. [npc[n] EXCEPT !.critical = more, !.toil = "Idle"] \in NpcState
    BY <1>1 DEF NpcState
  <2>7. npc' \in [Npcs -> NpcState] /\ job' \in [Npcs -> JobState]
    BY <2>2, <2>3, <2>4, <2>5, <2>6, NpcWrite, JobWrite
  <2>8. UNCHANGED trees
    BY <1>7 DEF Arrive, Walk, Moves
  <2> QED
    BY <1>2, <1>4, <2>4, <2>7, <2>8 DEF TypeOK
<1> QED
  BY <1>5, <1>6, <1>7

LEMMA FrameType == TypeOK /\ (BeginHour \/ NoHour \/ NextSystem \/ Resolver \/ NoJobs) => TypeOK'
<1>1. ASSUME TypeOK, BeginHour \/ NoHour \/ NextSystem \/ NoJobs PROVE TypeOK'
  BY <1>1 DEF BeginHour, NoHour, NextSystem, NoJobs, TypeOK, rpcs, needs, frame
<1>2. ASSUME TypeOK, Resolver PROVE TypeOK'
  <2>1. /\ occupied_by' \in [Furniture -> Npcs \cup {None}]
        /\ camp' \in [Camps -> Needs \cup {None}]
        /\ occupied' \in [Npcs -> Furniture \cup {None}]
    BY <1>2 DEF Resolver, TypeOK
  <2> QED
    BY <1>2, <2>1 DEF Resolver, TypeOK, rpcs
<1> QED
  BY <1>1, <1>2

LEMMA TypeStep == TypeOK /\ [Next]_vars => TypeOK'
<1> SUFFICES ASSUME TypeOK, [Next]_vars PROVE TypeOK'
  OBVIOUS
<1>1. CASE UNCHANGED vars
  BY <1>1 DEF TypeOK, vars, frame, needs, rpcs
<1>2. CASE Others
  BY <1>2, JobsAnsweredType, FrameType, ReportAnsweredType, TalkType, EndTalkType, CombatType
     DEF Others
<1>3. CASE Frame
  BY <1>3, FrameType, JobDriverType, CombatType, CrisisType, FindType, SettleType, ResolveType,
     NoNeedType, BodyType DEF Frame, Tree
<1> QED
  BY <1>1, <1>2, <1>3 DEF Next

\* Every component keeps its type, whatever the systems, the AI server and the
\* attackers do: no index of furniture, no NPC and no duration is ever out of
\* range, for any number of NPCs, jobs, places and pieces of furniture.
THEOREM ScheduleTypeCorrect == Spec => []TypeOK
<1>1. Init => TypeOK
  BY InitType
<1>2. TypeOK /\ [Next]_vars => TypeOK'
  BY TypeStep
<1> QED
  BY <1>1, <1>2, PTL DEF Spec

-----------------------------------------------------------------------------
(* What the steps of a tree and of the body leave alone.                   *)

LEMMA BusyKept ==
  ASSUME TypeOK, NEW n \in Npcs,
         Tree(n) \/ Dies(n) \/ Stay(n) \/ Arrive(n) \/ Walk(n)
  PROVE  /\ \A m \in Npcs : npc'[m].busy = npc[m].busy
         /\ UNCHANGED <<asked, reports, talks>>
<1>1. ASSUME NEW m \in Npcs PROVE npc'[m].busy = npc[m].busy
  <2>1. CASE NotTicked(n)
    BY <2>1 DEF NotTicked, TypeOK, NpcState
  <2>2. CASE Strike(n)
    BY <2>2 DEF Strike, TypeOK, NpcState, Fights
  <2>3. CASE Peace(n)
    BY <2>3 DEF Peace, TypeOK, NpcState
  <2>4. CASE InCrisis(n)
    BY <2>4 DEF InCrisis, TypeOK, NpcState
  <2>5. CASE ScheduledNeed(n)
    BY <2>5 DEF ScheduledNeed, TypeOK, NpcState
  <2>6. CASE FindFurniture(n)
    BY <2>6 DEF FindFurniture, TypeOK, NpcState, Target
  <2>7. CASE Arrived(n)
    BY <2>7 DEF Arrived, TypeOK, NpcState
  <2>8. CASE MoveToTarget(n)
    BY <2>8 DEF MoveToTarget, TypeOK, NpcState
  <2>9. CASE Recover(n)
    BY <2>9 DEF Recover, TypeOK, NpcState
  <2>10. CASE Resolve(n)
    BY <2>10 DEF Resolve, TypeOK, NpcState
  <2>11. CASE Dies(n)
    BY <2>11 DEF Dies, TypeOK, NpcState
  <2>12. CASE Stay(n)
    BY <2>12 DEF Stay, TypeOK, NpcState
  <2>13. CASE Arrive(n)
    <3>1. PICK more \in Grown(n) :
            npc' = [npc EXCEPT ![n] = [npc[n] EXCEPT !.critical = more, !.pos = Lookup(n),
                                !.toil = "Working", !.ticks = JobTicks, !.floor = FALSE]]
      BY <2>13 DEF Arrive
    <3> QED
      BY <3>1 DEF TypeOK, NpcState
  <2>14. CASE \E c \in Needs : BeginCrisis(n, c)
    BY <2>14 DEF BeginCrisis, TypeOK, NpcState
  <2>15. CASE Chase(n)
    <3>1. npc' = npc \/ npc' = [npc EXCEPT ![n].toil = "Moving"]
      BY <2>15 DEF Chase
    <3> QED
      BY <3>1 DEF TypeOK, NpcState
  <2>16. CASE SettleDown(n)
    <3>1. PICK fl \in BOOLEAN : Settle(n, fl)
      BY <2>16 DEF SettleDown
    <3> QED
      BY <3>1 DEF Settle, TypeOK, NpcState
  <2>17. CASE NoNeed(n) /\ WanderOff(n)
    BY <2>17 DEF WanderOff, TypeOK, NpcState
  <2>18. CASE NoNeed(n) /\ StandAround(n)
    BY <2>18 DEF StandAround, TypeOK, NpcState
  <2>19. CASE NoNeed(n) /\ WanderEnds(n)
    BY <2>19 DEF WanderEnds, TypeOK, NpcState
  <2>20. CASE NoNeed(n) /\ NothingToDo(n)
    BY <2>20 DEF NothingToDo, TypeOK, NpcState
  <2>21. CASE Walk(n)
    <3>1. PICK more \in Grown(n) :
            \/ \E p \in Places : npc' = [npc EXCEPT ![n] = [npc[n] EXCEPT !.critical = more, !.pos = p]]
            \/ npc' = [npc EXCEPT ![n] = [npc[n] EXCEPT !.critical = more, !.toil = "Idle"]]
      BY <2>21 DEF Walk
    <3>2. CASE npc' = [npc EXCEPT ![n] = [npc[n] EXCEPT !.critical = more, !.toil = "Idle"]]
      BY <3>2 DEF TypeOK, NpcState
    <3>3. CASE \E p \in Places : npc' = [npc EXCEPT ![n] = [npc[n] EXCEPT !.critical = more, !.pos = p]]
      BY <3>3 DEF TypeOK, NpcState
    <3> QED
      BY <3>1, <3>2, <3>3
  <2> QED
    BY <2>1, <2>2, <2>3, <2>4, <2>5, <2>6, <2>7, <2>8, <2>9, <2>10, <2>11, <2>12, <2>13, <2>14,
       <2>15, <2>16, <2>17, <2>18, <2>19, <2>20, <2>21 DEF Tree, NoNeed
<1>2. UNCHANGED <<asked, reports, talks>>
  BY DEF Tree, NotTicked, Chase, Strike, Peace, Fights, MyTurn, BeginCrisis, InCrisis, ScheduledNeed,
         FindFurniture, Arrived, MoveToTarget, SettleDown, Recover, Resolve, NoNeed, At, AtNode,
         Dies, Stay, Arrive, Walk, Moves, Body, rpcs
<1> QED
  BY <1>1, <1>2

\* Only the beginning and the end of a crisis change which job an NPC has.
LEMMA JobKept ==
  ASSUME TypeOK, NEW n \in Npcs,
         \/ NotTicked(n) \/ Chase(n) \/ Strike(n) \/ Peace(n) \/ InCrisis(n) \/ ScheduledNeed(n)
         \/ FindFurniture(n) \/ Arrived(n) \/ MoveToTarget(n) \/ Recover(n) \/ SettleDown(n)
         \/ NoNeed(n) \/ Dies(n) \/ Stay(n) \/ Arrive(n) \/ Walk(n)
  PROVE  \A m \in Npcs : job'[m].id = job[m].id /\ job'[m].active = job[m].active
<1> TAKE m \in Npcs
<1>1. job[m] \in JobState /\ job[n] \in JobState
  BY DEF TypeOK
<1>2. CASE \/ NotTicked(n) \/ Strike(n) \/ Peace(n) \/ InCrisis(n) \/ ScheduledNeed(n)
           \/ Arrived(n) \/ MoveToTarget(n) \/ Recover(n) \/ SettleDown(n) \/ Dies(n) \/ Stay(n)
  BY <1>2 DEF NotTicked, Strike, Peace, InCrisis, ScheduledNeed, Arrived, MoveToTarget, Recover,
              SettleDown, Dies, Stay
<1>3. CASE Chase(n)
  <2>1. CASE job' = job
    BY <2>1
  <2>2. CASE job' # job
    <3>1. PICK p, q \in Places : job' = [job EXCEPT ![n] = [job[n] EXCEPT !.at = p, !.place = q]]
      BY <1>3, <2>2, ScheduleAssumption DEF Chase
    <3>2. job'[n] = [job[n] EXCEPT !.at = p, !.place = q] /\ (m # n => job'[m] = job[m])
      BY <3>1 DEF TypeOK
    <3> QED
      BY <1>1, <3>2 DEF JobState
  <2> QED
    BY <2>1, <2>2
<1>4. CASE FindFurniture(n)
  <2>1. \/ job' = job
        \/ job' = [job EXCEPT ![n] = [job[n] EXCEPT !.place = npc[n].pos, !.at = npc[n].pos]]
    BY <1>4 DEF FindFurniture, Target
  <2>2. /\ \/ job'[n] = job[n]
           \/ job'[n] = [job[n] EXCEPT !.place = npc[n].pos, !.at = npc[n].pos]
        /\ m # n => job'[m] = job[m]
    BY <2>1 DEF TypeOK
  <2> QED
    BY <1>1, <2>2 DEF JobState
<1>5. CASE NoNeed(n)
  <2>1. \/ job' = job
        \/ job' = [job EXCEPT ![n] = [job[n] EXCEPT !.place = npc[n].pos, !.at = npc[n].pos,
                                                    !.wander = TRUE]]
        \/ job' = [job EXCEPT ![n].wander = FALSE]
    BY <1>5 DEF NoNeed, WanderOff, StandAround, WanderEnds, NothingToDo
  <2>2. /\ \/ job'[n] = job[n]
           \/ job'[n] = [job[n] EXCEPT !.place = npc[n].pos, !.at = npc[n].pos, !.wander = TRUE]
           \/ job'[n] = [job[n] EXCEPT !.wander = FALSE]
        /\ m # n => job'[m] = job[m]
    BY <2>1 DEF TypeOK
  <2> QED
    BY <1>1, <2>2 DEF JobState
<1>6. CASE Arrive(n) \/ Walk(n)
  <2>1. job' = [job EXCEPT ![n].at = Lookup(n)]
    BY <1>6 DEF Arrive, Walk, Moves
  <2> QED
    BY <1>1, <2>1 DEF TypeOK, JobState
<1> QED
  BY <1>2, <1>3, <1>4, <1>5, <1>6

-----------------------------------------------------------------------------
(* Nobody is left busy.                                                    *)

LEMMA DriverBusy ==
  ASSUME TypeOK, NEW n \in Npcs, JobDriver(n)
  PROVE  /\ UNCHANGED talks
         /\ \A m \in Npcs : npc'[m].busy = "Dialogue" => npc[m].busy = "Dialogue"
<1>1. ASSUME NEW m \in Npcs PROVE npc'[m].busy \in {npc[m].busy, "ScheduleWait"}
  <2>1. CASE Interrupt(n)
    BY <2>1 DEF Interrupt, TypeOK, NpcState
  <2>2. CASE Rest(n)
    BY <2>2 DEF Rest, TypeOK, NpcState
  <2>3. CASE SetOut(n)
    BY <2>3 DEF SetOut, TypeOK, NpcState
  <2>4. CASE BeginWork(n)
    BY <2>4 DEF BeginWork, TypeOK, NpcState
  <2>5. CASE OnTheWay(n)
    BY <2>5 DEF OnTheWay, TypeOK, NpcState
  <2>6. CASE Work(n)
    BY <2>6 DEF Work, TypeOK, NpcState
  <2>7. CASE Complete(n)
    BY <2>7 DEF Complete, TypeOK, NpcState
  <2> QED
    BY <2>1, <2>2, <2>3, <2>4, <2>5, <2>6, <2>7 DEF JobDriver
<1> QED
  BY <1>1 DEF JobDriver

LEMMA BusyStep == TypeOK /\ BusyHasItsTalk /\ [Next]_vars => BusyHasItsTalk'
<1> SUFFICES ASSUME TypeOK, BusyHasItsTalk, [Next]_vars PROVE BusyHasItsTalk'
  OBVIOUS
<1>1. ASSUME UNCHANGED talks,
             \A m \in Npcs : npc'[m].busy = "Dialogue" => npc[m].busy = "Dialogue"
      PROVE  BusyHasItsTalk'
  BY <1>1 DEF BusyHasItsTalk
<1>2. CASE \/ UNCHANGED vars \/ BeginHour \/ NoHour \/ NextSystem \/ Resolver \/ NoJobs
  BY <1>1, <1>2 DEF vars, rpcs, BeginHour, NoHour, NextSystem, Resolver, NoJobs
<1>3. CASE JobsAnswered
  <2>1. \A m \in Npcs : npc[m] \in NpcState
    BY DEF TypeOK
  <2>2. \A m \in Npcs : \/ npc'[m] = npc[m]
                        \/ npc'[m] = [npc[m] EXCEPT !.toil = "Idle", !.ticks = 0,
                                        !.busy = IF @ = "ScheduleWait" THEN "No" ELSE @]
    BY <1>3 DEF JobsAnswered
  <2>3. \A m \in Npcs : npc'[m].busy = "Dialogue" => npc[m].busy = "Dialogue"
    BY <2>1, <2>2 DEF NpcState
  <2> QED
    BY <1>1, <1>3, <2>3 DEF JobsAnswered
<1>4. CASE \E n \in Npcs : ReportAnswered(n) \/ Hit(n)
  <2>1. PICK n \in Npcs : ReportAnswered(n) \/ Hit(n)
    BY <1>4
  <2>2. \A m \in Npcs : npc'[m].busy = "Dialogue" => npc[m].busy = "Dialogue"
    <3> TAKE m \in Npcs
    <3>1. CASE ReportAnswered(n)
      <4>1. \/ npc' = npc
            \/ npc' = [npc EXCEPT ![n] = [npc[n] EXCEPT !.toil = "Idle", !.ticks = 0]]
        BY <3>1 DEF ReportAnswered
      <4> QED
        BY <4>1 DEF TypeOK, NpcState
    <3>2. CASE Hit(n)
      BY <3>2 DEF Hit, TypeOK, NpcState
    <3> QED
      BY <2>1, <3>1, <3>2
  <2> QED
    BY <1>1, <2>1, <2>2 DEF ReportAnswered, Hit, rpcs
<1>5. CASE \E n \in Npcs : JobDriver(n)
  BY <1>1, <1>5, DriverBusy
<1>6. CASE \E n \in Npcs : Tree(n) \/ Dies(n) \/ Stay(n) \/ Arrive(n) \/ Walk(n)
  BY <1>1, <1>6, BusyKept
<1>7. CASE (\E n \in Npcs : PlayerTalks(n)) \/ (\E S \in SUBSET Npcs : NpcsMeet(S))
  <2>1. PICK S \in SUBSET Npcs, kind \in {"player", "npc"} : StartTalk(S, kind)
    BY <1>7 DEF PlayerTalks, NpcsMeet
  <2>2. \A m \in Npcs \ S : npc'[m] = npc[m]
    BY <2>1 DEF StartTalk
  <2>3. \E t \in talks' : t.who = S
    <3>1. [id |-> events + 1, who |-> S, kind |-> kind] \in talks'
      BY <2>1 DEF StartTalk
    <3>2. [id |-> events + 1, who |-> S, kind |-> kind].who = S
      OBVIOUS
    <3> QED
      BY <3>1, <3>2
  <2>4. talks \subseteq talks'
    BY <2>1 DEF StartTalk
  <2> QED
    BY <2>2, <2>3, <2>4 DEF BusyHasItsTalk
<1>8. CASE \E t \in talks : LoseTalk(t)
  <2>1. PICK t \in talks : LoseTalk(t)
    BY <1>8
  <2>2. [t EXCEPT !.kind = "lost"].who = t.who /\ [t EXCEPT !.kind = "lost"] \in talks'
    BY <2>1 DEF LoseTalk, TypeOK
  <2> QED
    BY <2>1, <2>2 DEF LoseTalk, BusyHasItsTalk
<1>9. CASE \E t \in talks : EndTalk(t)
  <2>1. PICK t \in talks : EndTalk(t)
    BY <1>9
  <2>2. \A m \in Npcs : npc[m] \in NpcState
    BY DEF TypeOK
  <2>3. \A m \in Npcs : npc'[m].busy = "Dialogue" => npc'[m] = npc[m] /\ m \notin t.who
    BY <2>1, <2>2 DEF EndTalk, NpcState
  <2> QED
    BY <2>1, <2>3 DEF EndTalk, BusyHasItsTalk
<1> QED
  BY <1>2, <1>3, <1>4, <1>5, <1>6, <1>7, <1>8, <1>9 DEF Next, Frame, Others

\* Nobody keeps the BusyTag of a dialogue when the last of its dialogues is
\* over, although hits take the tag away, ends of old dialogues take that of a
\* new one and jobs arrive in between (SystemSocial.cpp:704).
THEOREM NobodyIsLeftBusy == Spec => []BusyHasItsTalk
<1>1. Init => TypeOK /\ BusyHasItsTalk
  <2>1. ASSUME Init, NEW n \in Npcs PROVE npc[n].busy = "No"
    BY <2>1 DEF Init
  <2> QED
    BY <2>1, InitType DEF BusyHasItsTalk
<1>2. TypeOK /\ BusyHasItsTalk /\ [Next]_vars => (TypeOK /\ BusyHasItsTalk)'
  BY TypeStep, BusyStep
<1> QED
  BY <1>1, <1>2, PTL DEF Spec

-----------------------------------------------------------------------------
(* Which job an NPC has: the virtual job of a crisis stays within it.      *)

\* The job of a step that the AI server or the driver takes.
LEMMA JobGiven ==
  ASSUME TypeOK, NEW m \in Npcs,
         \/ JobsAnswered \/ (\E n \in Npcs : ReportAnswered(n) \/ JobDriver(n))
         \/ \E t \in talks : EndTalk(t)
  PROVE  /\ \/ job'[m] = job[m]
            \/ job'[m] = [job[m] EXCEPT !.active = FALSE]
            \/ job'[m].id \in Jobs
         /\ UNCHANGED <<resolving, camp, occupied, occupied_by>>
<1>1. CASE JobsAnswered
  <2>1. PICK offer \in UNION {[T -> Jobs] : T \in SUBSET Npcs} :
          job'[m] = job[m] \/ (m \in DOMAIN offer /\ job'[m] = Planned(offer[m]))
    BY <1>1 DEF JobsAnswered
  <2>2. m \in DOMAIN offer => offer[m] \in Jobs
    OBVIOUS
  <2> QED
    BY <1>1, <2>1, <2>2, PlannedType DEF JobsAnswered, needs
<1>2. CASE \E n \in Npcs : ReportAnswered(n)
  <2>1. PICK n \in Npcs : ReportAnswered(n)
    BY <1>2
  <2>2. CASE job' = job
    BY <2>1, <2>2 DEF ReportAnswered, needs
  <2>3. CASE job' # job
    <3>1. PICK j \in Jobs : job' = [job EXCEPT ![n] = [Planned(j) EXCEPT !.at = job[n].at]]
      BY <2>1, <2>3 DEF ReportAnswered
    <3>2. /\ job'[n] = [Planned(j) EXCEPT !.at = job[n].at]
          /\ m # n => job'[m] = job[m]
      BY <3>1 DEF TypeOK
    <3>3. Planned(j) \in JobState /\ Planned(j).id = j
      BY PlannedType
    <3>4. job'[n].id = j
      BY <3>2, <3>3 DEF JobState
    <3> QED
      BY <2>1, <3>2, <3>4 DEF ReportAnswered, needs
  <2> QED
    BY <2>2, <2>3
<1>3. CASE \E n \in Npcs : JobDriver(n)
  <2>1. PICK n \in Npcs : JobDriver(n)
    BY <1>3
  <2>2. job' = job \/ job' = [job EXCEPT ![n].active = FALSE]
    BY <2>1 DEF JobDriver, Interrupt, Rest, SetOut, BeginWork, OnTheWay, Work, Complete
  <2> QED
    BY <2>1, <2>2 DEF JobDriver, needs, TypeOK
<1>4. CASE \E t \in talks : EndTalk(t)
  <2>1. PICK t \in talks : EndTalk(t)
    BY <1>4
  <2>2. PICK offer \in UNION {[T -> Jobs] : T \in SUBSET (IF t.kind = "npc" THEN t.who ELSE {})} :
          job'[m] = job[m] \/ (m \in DOMAIN offer /\ job'[m] = Planned(offer[m]))
    BY <2>1 DEF EndTalk
  <2>3. m \in DOMAIN offer => offer[m] \in Jobs
    OBVIOUS
  <2> QED
    BY <2>1, <2>2, <2>3, PlannedType DEF EndTalk, needs
<1> QED
  BY <1>1, <1>2, <1>3, <1>4

LEMMA VirtualStep == TypeOK /\ VirtualJobContained /\ [Next]_vars => VirtualJobContained'
<1> SUFFICES ASSUME TypeOK, VirtualJobContained, [Next]_vars, NEW m \in Npcs,
                    job'[m].active, job'[m].id \in Needs
             PROVE  resolving'[m] = job'[m].id
  BY DEF VirtualJobContained
<1> USE DEF VirtualJobContained
<1>1. job[m] \in JobState /\ Jobs \cap Needs = {} /\ None \notin Needs
  BY ScheduleAssumption DEF TypeOK
<1>2. CASE UNCHANGED <<job, resolving>>
  BY <1>2
<1>3. CASE \/ UNCHANGED vars \/ BeginHour \/ NoHour \/ NextSystem \/ Resolver \/ NoJobs
           \/ \E n \in Npcs : PlayerTalks(n) \/ Hit(n)
           \/ \E S \in SUBSET Npcs : NpcsMeet(S)
           \/ \E t \in talks : LoseTalk(t)
  BY <1>2, <1>3 DEF vars, needs, BeginHour, NoHour, NextSystem, Resolver, NoJobs, PlayerTalks, Hit,
                    NpcsMeet, StartTalk, LoseTalk
<1>4. CASE \/ JobsAnswered \/ (\E n \in Npcs : ReportAnswered(n) \/ JobDriver(n))
           \/ \E t \in talks : EndTalk(t)
  <2>1. /\ \/ job'[m] = job[m]
           \/ job'[m] = [job[m] EXCEPT !.active = FALSE]
           \/ job'[m].id \in Jobs
        /\ UNCHANGED resolving
    BY <1>4, JobGiven
  <2>2. [job[m] EXCEPT !.active = FALSE].active = FALSE
    BY <1>1 DEF JobState
  <2> QED
    BY <1>1, <2>1, <2>2
<1>5. CASE \E n \in Npcs : \/ NotTicked(n) \/ Chase(n) \/ Strike(n) \/ Peace(n) \/ InCrisis(n)
                          \/ FindFurniture(n) \/ Arrived(n) \/ MoveToTarget(n) \/ Recover(n)
                          \/ SettleDown(n) \/ NoNeed(n) \/ Dies(n) \/ Stay(n) \/ Arrive(n) \/ Walk(n)
  <2>1. job'[m].id = job[m].id /\ job'[m].active = job[m].active
    BY <1>5, JobKept
  <2>2. UNCHANGED resolving
    BY <1>5 DEF NotTicked, Chase, Strike, Fights, Peace, InCrisis, FindFurniture, Arrived,
                MoveToTarget, Recover, SettleDown, NoNeed, Dies, Stay, Arrive, Walk, Moves, Body, needs
  <2> QED
    BY <2>1, <2>2
<1>6. CASE \E n \in Npcs : ScheduledNeed(n)
  <2>1. PICK n \in Npcs : ScheduledNeed(n)
    BY <1>6
  <2>2. UNCHANGED job /\ resolving[n] = None /\ (m # n => resolving'[m] = resolving[m])
    BY <2>1 DEF ScheduledNeed, TypeOK
  <2> QED
    BY <1>1, <2>2
<1>7. CASE \E n \in Npcs, c \in Needs : BeginCrisis(n, c)
  <2>1. PICK n \in Npcs, c \in Needs : BeginCrisis(n, c)
    BY <1>7
  <2>2. /\ job'[n].id = c /\ resolving'[n] = c
        /\ m # n => job'[m] = job[m] /\ resolving'[m] = resolving[m]
    BY <2>1 DEF BeginCrisis, TypeOK
  <2> QED
    BY <2>2
<1>8. CASE \E n \in Npcs : Resolve(n)
  <2>1. PICK n \in Npcs : Resolve(n)
    BY <1>8
  <2>2. job' = [job EXCEPT ![n] = [job[n] EXCEPT !.active = FALSE]] /\ job[n] \in JobState
    BY <2>1 DEF Resolve, TypeOK
  <2>3. job'[n].active = FALSE /\ (m # n => job'[m] = job[m])
    BY <2>2 DEF JobState, TypeOK
  <2>4. m # n => resolving'[m] = resolving[m]
    BY <2>1 DEF Resolve, TypeOK
  <2> QED
    BY <2>3, <2>4
<1> QED
  BY <1>3, <1>4, <1>5, <1>6, <1>7, <1>8 DEF Next, Frame, Others, Tree

\* The virtual job 999000 or 999001 is only ever active while its crisis is
\* (SystemJobDriver never drives or reports one): it begins and ends with the
\* crisis, and a planned job that arrives replaces it.
THEOREM VirtualJobsStayInside == Spec => []VirtualJobContained
<1>1. Init => TypeOK /\ VirtualJobContained
  <2>1. ASSUME Init, NEW n \in Npcs PROVE job[n].active = FALSE
    BY <2>1 DEF Init
  <2> QED
    BY <2>1, InitType DEF VirtualJobContained
<1>2. TypeOK /\ VirtualJobContained /\ [Next]_vars => (TypeOK /\ VirtualJobContained)'
  BY TypeStep, VirtualStep
<1> QED
  BY <1>1, <1>2, PTL DEF Spec

-----------------------------------------------------------------------------
(* Who waits for its next job is idle, unreported and not at its turn.     *)

\* The tree is only ticked without a BusyTag, and keeps the frame where it is;
\* the driver reports only whom it has visited; and who waits is not reported.
WaitInv ==
  /\ turn # None => phase = "bt" /\ turn \in Npcs /\ npc[turn].busy = "No"
  /\ phase = "jobs" => todo \cap reports = {}
  /\ \A n \in Npcs : npc[n].busy = "ScheduleWait" =>
       ~job[n].active /\ resolving[n] = None /\ n \notin reports

LEMMA DriverWait ==
  ASSUME TypeOK, WaitInv, NEW n \in Npcs, JobDriver(n)
  PROVE  WaitInv'
<1>1. turn = None /\ turn' = None /\ phase = "jobs" /\ phase' = "jobs" /\ todo' = todo \ {n}
      /\ n \in todo /\ n \notin reports /\ UNCHANGED resolving
  BY DEF JobDriver, Visit, WaitInv, needs
<1>2. \A m \in Npcs \ {n} : npc'[m] = npc[m] /\ job'[m] = job[m]
  BY DEF JobDriver, Interrupt, Rest, SetOut, BeginWork, OnTheWay, Work, Complete, TypeOK
<1>3. reports' = reports \/ (reports' = reports \cup {n} /\ job[n].active /\ Interrupt(n))
  BY DEF JobDriver, Interrupt, Rest, SetOut, BeginWork, OnTheWay, Work, Complete
<1>4. npc'[n].busy = "ScheduleWait" =>
        ~job'[n].active /\ resolving[n] = None /\ n \notin reports'
  <2>1. CASE Complete(n) /\ ~NotDriven(n)
    <3>1. job' = [job EXCEPT ![n] = [job[n] EXCEPT !.active = FALSE]] /\ job[n] \in JobState
      BY <2>1 DEF Complete, TypeOK
    <3>2. ~job'[n].active
      BY <3>1 DEF JobState, TypeOK
    <3> QED
      BY <1>1, <2>1, <3>2 DEF Complete, NotDriven
  <2>2. CASE Interrupt(n)
    <3>1. npc' = [npc EXCEPT ![n] = [npc[n] EXCEPT !.toil = "Interrupted"]] /\ npc[n] \in NpcState
      BY <2>2 DEF Interrupt, TypeOK
    <3>2. npc'[n].busy = npc[n].busy /\ UNCHANGED job
      BY <2>2, <3>1 DEF Interrupt, NpcState, TypeOK
    <3> QED
      BY <1>3, <3>2 DEF WaitInv
  <2>3. CASE UNCHANGED <<job, npc, reports>>
    BY <2>3 DEF WaitInv
  <2>4. CASE npc[n].busy = "No" /\ (Rest(n) \/ SetOut(n) \/ BeginWork(n) \/ OnTheWay(n) \/ Work(n))
    <3>1. CASE Rest(n)
      BY <2>4, <3>1 DEF Rest, TypeOK, NpcState
    <3>2. CASE SetOut(n)
      BY <2>4, <3>2 DEF SetOut, TypeOK, NpcState
    <3>3. CASE BeginWork(n)
      BY <2>4, <3>3 DEF BeginWork, TypeOK, NpcState
    <3>4. CASE OnTheWay(n)
      BY <2>4, <3>4 DEF OnTheWay, TypeOK, NpcState
    <3>5. CASE Work(n)
      BY <2>4, <3>5 DEF Work, TypeOK, NpcState
    <3> QED
      BY <2>4, <3>1, <3>2, <3>3, <3>4, <3>5
  <2> QED
    BY <2>1, <2>2, <2>3, <2>4 DEF JobDriver
<1> QED
  BY <1>1, <1>2, <1>3, <1>4 DEF WaitInv

LEMMA TreeWait ==
  ASSUME TypeOK, WaitInv, NEW n \in Npcs,
         Tree(n) \/ Dies(n) \/ Stay(n) \/ Arrive(n) \/ Walk(n)
  PROVE  WaitInv'
<1>1. /\ \A m \in Npcs : npc'[m].busy = npc[m].busy
      /\ UNCHANGED reports
  BY BusyKept
<1>2. phase' = phase /\ phase \in {"bt", "body"}
  <2>1. phase' = phase /\ (turn = n \/ phase \in {"bt", "body"})
    BY DEF Tree, NotTicked, Chase, Strike, Peace, Fights, MyTurn, BeginCrisis, InCrisis, ScheduledNeed,
           FindFurniture, Arrived, MoveToTarget, SettleDown, Recover, Resolve, NoNeed, At, AtNode,
           Dies, Stay, Arrive, Walk, Moves, Body
  <2>2. n # None
    BY ScheduleAssumption
  <2> QED
    BY <2>1, <2>2 DEF WaitInv
<1>3. turn' # None => phase = "bt" /\ turn' \in Npcs /\ npc[turn'].busy = "No"
  BY DEF Tree, NotTicked, Chase, Strike, Peace, Fights, MyTurn, BeginCrisis, InCrisis, ScheduledNeed,
         FindFurniture, Arrived, MoveToTarget, SettleDown, Recover, Resolve, NoNeed, At, AtNode,
         GoOn, TurnOver, Ticked, Dies, Stay, Arrive, Walk, Moves, Body, WaitInv
<1>4. ASSUME NEW m \in Npcs, npc'[m].busy = "ScheduleWait"
      PROVE  ~job'[m].active /\ resolving'[m] = None
  <2>1. npc[m].busy = "ScheduleWait" /\ ~job[m].active /\ resolving[m] = None
    BY <1>1, <1>4 DEF WaitInv
  <2>2. CASE \/ (\E c \in Needs : BeginCrisis(n, c)) \/ Resolve(n) \/ ScheduledNeed(n)
    <3>1. turn = n /\ m # n
      <4>1. turn = n
        BY <2>2 DEF BeginCrisis, Resolve, ScheduledNeed, At, AtNode
      <4>2. n # None
        BY ScheduleAssumption
      <4>3. npc[n].busy = "No"
        BY <4>1, <4>2 DEF WaitInv
      <4> QED
        BY <2>1, <4>1, <4>3
    <3>2. job'[m] = job[m] /\ resolving'[m] = resolving[m]
      BY <2>2, <3>1 DEF BeginCrisis, Resolve, ScheduledNeed, TypeOK
    <3> QED
      BY <2>1, <3>2
  <2>3. CASE \/ NotTicked(n) \/ Chase(n) \/ Strike(n) \/ Peace(n) \/ InCrisis(n)
             \/ FindFurniture(n) \/ Arrived(n) \/ MoveToTarget(n) \/ Recover(n) \/ SettleDown(n)
             \/ NoNeed(n) \/ Dies(n) \/ Stay(n) \/ Arrive(n) \/ Walk(n)
    <3>1. job'[m].active = job[m].active
      BY <2>3, JobKept
    <3>2. UNCHANGED resolving
      BY <2>3 DEF NotTicked, Chase, Strike, Fights, Peace, InCrisis, FindFurniture, Arrived,
                  MoveToTarget, Recover, SettleDown, NoNeed, Dies, Stay, Arrive, Walk, Moves, Body,
                  needs
    <3> QED
      BY <2>1, <3>1, <3>2
  <2> QED
    BY <2>2, <2>3 DEF Tree
<1> QED
  BY <1>1, <1>2, <1>3, <1>4 DEF WaitInv

LEMMA AnswerWait ==
  ASSUME TypeOK, WaitInv,
         \/ JobsAnswered \/ (\E n \in Npcs : ReportAnswered(n))
         \/ \E t \in talks : EndTalk(t)
  PROVE  WaitInv'
<1>1. phase = "tasks" /\ UNCHANGED <<phase, todo, turn, resolving>> /\ reports' \subseteq reports
  BY DEF JobsAnswered, ReportAnswered, EndTalk, frame, needs
<1>2. turn = None
  BY <1>1 DEF WaitInv
<1>3. ASSUME NEW m \in Npcs, npc'[m].busy = "ScheduleWait"
      PROVE  npc[m].busy = "ScheduleWait" /\ job'[m] = job[m]
  <2>1. npc[m] \in NpcState /\ JobTicks \in Nat
    BY ScheduleAssumption DEF TypeOK
  <2>2. CASE JobsAnswered
    <3>1. \/ npc'[m] = npc[m] /\ job'[m] = job[m]
          \/ npc'[m] = [npc[m] EXCEPT !.toil = "Idle", !.ticks = 0,
                                !.busy = IF @ = "ScheduleWait" THEN "No" ELSE @]
      BY <2>2 DEF JobsAnswered
    <3> QED
      BY <1>3, <2>1, <3>1 DEF NpcState
  <2>3. CASE \E n \in Npcs : ReportAnswered(n)
    <3>1. PICK n \in Npcs : ReportAnswered(n)
      BY <2>3
    <3>2. \/ npc' = npc /\ job' = job
          \/ /\ npc' = [npc EXCEPT ![n] = [npc[n] EXCEPT !.toil = "Idle", !.ticks = 0]]
             /\ \E r : job' = [job EXCEPT ![n] = r]
      BY <3>1 DEF ReportAnswered
    <3>3. npc'[m].busy = npc[m].busy /\ (m # n => job'[m] = job[m])
      <4>1. CASE npc' = npc /\ job' = job
        BY <4>1
      <4>2. CASE npc' = [npc EXCEPT ![n] = [npc[n] EXCEPT !.toil = "Idle", !.ticks = 0]]
                 /\ \E r : job' = [job EXCEPT ![n] = r]
        BY <2>1, <4>2 DEF NpcState, TypeOK
      <4> QED
        BY <3>2, <4>1, <4>2
    <3>4. npc[n].busy # "ScheduleWait"
      BY <3>1 DEF WaitInv, ReportAnswered
    <3> QED
      BY <1>3, <3>3, <3>4
  <2>4. CASE \E t \in talks : EndTalk(t)
    <3>1. \/ npc'[m] = npc[m] /\ job'[m] = job[m]
          \/ npc'[m] = [npc[m] EXCEPT !.toil = "Idle", !.ticks = 0, !.busy = "No"]
          \/ npc'[m] = [npc[m] EXCEPT !.busy = "No"]
      BY <2>4 DEF EndTalk
    <3> QED
      BY <1>3, <2>1, <3>1 DEF NpcState
  <2> QED
    BY <2>2, <2>3, <2>4
<1> QED
  BY <1>1, <1>2, <1>3 DEF WaitInv

LEMMA OtherWait ==
  ASSUME TypeOK, WaitInv,
         \/ UNCHANGED vars \/ BeginHour \/ NoHour \/ NextSystem \/ Resolver \/ NoJobs
         \/ \E n \in Npcs : PlayerTalks(n) \/ Hit(n)
         \/ \E S \in SUBSET Npcs : NpcsMeet(S)
         \/ \E t \in talks : LoseTalk(t)
  PROVE  WaitInv'
<1>1. CASE \/ UNCHANGED vars \/ NoJobs \/ \E t \in talks : LoseTalk(t)
  BY <1>1 DEF vars, frame, needs, rpcs, NoJobs, LoseTalk, WaitInv
<1>2. CASE BeginHour \/ NoHour \/ NextSystem \/ Resolver
  BY <1>2 DEF BeginHour, NoHour, NextSystem, Resolver, needs, rpcs, WaitInv
<1>3. CASE \/ \E n \in Npcs : PlayerTalks(n) \/ Hit(n)
           \/ \E S \in SUBSET Npcs : NpcsMeet(S)
  <2>1. turn = None /\ UNCHANGED <<phase, todo, turn, job, resolving, reports>>
    BY <1>3 DEF PlayerTalks, NpcsMeet, StartTalk, Hit, frame, needs, rpcs, WaitInv
  <2>2. ASSUME NEW m \in Npcs, npc'[m].busy = "ScheduleWait"
        PROVE  npc[m].busy = "ScheduleWait"
    <3>1. npc[m] \in NpcState
      BY DEF TypeOK
    <3>2. CASE \E n \in Npcs : Hit(n)
      <4>1. PICK n \in Npcs : \E fl :
              npc' = [npc EXCEPT ![n] = [npc[n] EXCEPT !.hp = npc[n].hp - 1, !.busy = "No",
                                                       !.foe = TRUE, !.floor = fl]]
        BY <3>2 DEF Hit, Ambient
      <4> QED
        BY <2>2, <4>1 DEF TypeOK, NpcState
    <3>3. CASE \E S \in SUBSET Npcs, kind \in {"player", "npc"} : StartTalk(S, kind)
      <4>1. npc'[m] = npc[m] \/ npc'[m] = [npc[m] EXCEPT !.busy = "Dialogue"]
        BY <3>3 DEF StartTalk
      <4> QED
        BY <2>2, <3>1, <4>1 DEF NpcState
    <3> QED
      BY <1>3, <3>2, <3>3 DEF PlayerTalks, NpcsMeet
  <2> QED
    BY <2>1, <2>2 DEF WaitInv
<1> QED
  BY <1>1, <1>2, <1>3

\* An NPC that waits for its next job (BusyTag ScheduleWait, SystemJobDriver)
\* has no active job and no crisis: no late answer of the AI server and no end
\* of a dialogue gives it a job and leaves it waiting.
THEOREM WaitingNpcsAreIdle == Spec => []WaitingIsIdle
<1>1. Init => TypeOK /\ WaitInv
  <2>1. ASSUME Init, NEW n \in Npcs PROVE npc[n].busy = "No"
    BY <2>1 DEF Init
  <2> QED
    BY <2>1, InitType DEF Init, WaitInv
<1>2. TypeOK /\ WaitInv /\ [Next]_vars => (TypeOK /\ WaitInv)'
  <2> SUFFICES ASSUME TypeOK, WaitInv, [Next]_vars PROVE WaitInv'
    BY TypeStep
  <2> QED
    BY DriverWait, TreeWait, AnswerWait, OtherWait DEF Next, Frame, Others
<1>3. WaitInv => WaitingIsIdle
  BY DEF WaitInv, WaitingIsIdle
<1> QED
  BY <1>1, <1>2, <1>3, PTL DEF Spec

-----------------------------------------------------------------------------
(* Furniture.                                                              *)

\* The nodes behind the need check run in a crisis only.
NodeInCrisis ==
  \A n \in Npcs : turn = n /\ node \in {"find", "move", "interact"} => resolving[n] # None

LEMMA NoneIsNothing ==
  None \notin Npcs /\ None \notin Furniture /\ None \notin Needs /\ Camps \subseteq Furniture
  BY ScheduleAssumption DEF Furniture

LEMMA OccupancyOfOthers ==
  ASSUME TypeOK, OccupancyAgrees, NodeInCrisis, Next,
         ~Resolver, \A n \in Npcs : /\ ~SettleDown(n) /\ ~Resolve(n) /\ ~FindFurniture(n)
                                   /\ ~ScheduledNeed(n) /\ \A c \in Needs : ~BeginCrisis(n, c)
  PROVE  OccupancyAgrees' /\ NodeInCrisis'
<1>1. UNCHANGED needs /\ (\/ UNCHANGED <<turn, node>> \/ turn' = None \/ node' \in {"root", "needs"}
                         \/ \E n \in Npcs : InCrisis(n) \/ Arrived(n))
  <2>1. CASE Others
    BY <2>1 DEF Others, JobsAnswered, NoJobs, ReportAnswered, PlayerTalks, Hit, NpcsMeet, StartTalk,
                EndTalk, LoseTalk, frame
  <2>2. CASE BeginHour \/ NoHour \/ NextSystem
    BY <2>2 DEF BeginHour, NoHour, NextSystem
  <2>3. CASE \E n \in Npcs : JobDriver(n) \/ Dies(n) \/ Stay(n) \/ Arrive(n) \/ Walk(n)
    BY <2>3 DEF JobDriver, Dies, Stay, Arrive, Walk, Moves, Body
  <2>4. CASE \E n \in Npcs : \/ NotTicked(n) \/ Chase(n) \/ Strike(n) \/ Peace(n) \/ InCrisis(n)
                            \/ Arrived(n) \/ MoveToTarget(n) \/ Recover(n) \/ NoNeed(n)
    BY <2>4 DEF NotTicked, Chase, Strike, Fights, Peace, InCrisis, Arrived, MoveToTarget, Recover,
                NoNeed, TurnOver
  <2> QED
    BY <2>1, <2>2, <2>3, <2>4 DEF Next, Frame, Tree
<1>2. OccupancyAgrees'
  BY <1>1 DEF needs, OccupancyAgrees
<1>3. NodeInCrisis'
  <2>1. CASE UNCHANGED <<turn, node>> \/ turn' = None \/ node' \in {"root", "needs"}
    BY <1>1, <2>1, NoneIsNothing DEF needs, NodeInCrisis
  <2>2. CASE \E n \in Npcs : InCrisis(n) \/ Arrived(n)
    BY <1>1, <2>2 DEF InCrisis, Arrived, At, AtNode, GoOn, needs, NodeInCrisis
  <2> QED
    BY <1>1, <2>1, <2>2
<1> QED
  BY <1>2, <1>3

LEMMA OccupancyOfCrisis ==
  ASSUME TypeOK, OccupancyAgrees, NodeInCrisis, NEW n \in Npcs,
         ScheduledNeed(n) \/ FindFurniture(n) \/ \E c \in Needs : BeginCrisis(n, c)
  PROVE  OccupancyAgrees' /\ NodeInCrisis'
<1>1. CASE ScheduledNeed(n) \/ \E c \in Needs : BeginCrisis(n, c)
  <2>1. PICK c \in Needs : resolving' = [resolving EXCEPT ![n] = c]
    <3>1. CASE \E c \in Needs : BeginCrisis(n, c)
      BY <3>1 DEF BeginCrisis
    <3>2. CASE ScheduledNeed(n)
      <4>1. job[n] \in JobState /\ JobNeed \in [Jobs -> Needs \cup {None}]
        BY ScheduleAssumption DEF TypeOK
      <4>2. NeedOf(job[n].id) \in Needs
        BY <3>2, <4>1 DEF ScheduledNeed, MealTime, NeedOf, JobState
      <4> QED
        BY <3>2, <4>2 DEF ScheduledNeed
    <3> QED
      BY <1>1, <3>1, <3>2
  <2>2. turn = n /\ turn' = n /\ UNCHANGED <<occupied, occupied_by, camp>>
    BY <1>1 DEF ScheduledNeed, BeginCrisis, At, AtNode, GoOn
  <2>3. \A m \in Npcs : resolving'[m] = resolving[m] \/ resolving'[m] # None
    BY <2>1, NoneIsNothing DEF TypeOK
  <2>4. resolving'[n] # None
    BY <2>1, NoneIsNothing DEF TypeOK
  <2> QED
    BY <2>2, <2>3, <2>4 DEF OccupancyAgrees, NodeInCrisis
<1>2. CASE FindFurniture(n)
  <2>1. UNCHANGED <<resolving, occupied, occupied_by>> /\ turn = n /\ turn' = n /\ node = "find"
    BY <1>2 DEF FindFurniture, At, AtNode, GoOn
  <2>2. resolving[n] # None
    BY <2>1 DEF NodeInCrisis
  <2>3. camp' = camp \/ \E f \in Camps : camp' = [camp EXCEPT ![f] = resolving[n]]
    BY <1>2 DEF FindFurniture, NewHandles
  <2>4. \A g \in Camps : camp[g] # None => camp'[g] # None
    BY <2>2, <2>3 DEF TypeOK
  <2> QED
    BY <2>1, <2>2, <2>4 DEF OccupancyAgrees, NodeInCrisis
<1> QED
  BY <1>1, <1>2

LEMMA OccupancyOfSettling ==
  ASSUME TypeOK, OccupancyAgrees, NodeInCrisis, NEW n \in Npcs, SettleDown(n)
  PROVE  OccupancyAgrees' /\ NodeInCrisis'
<1>1. /\ turn = n /\ node = "interact" /\ turn' = None /\ UNCHANGED resolving
      /\ occupied[n] = None
  BY DEF SettleDown, At, AtNode, TurnOver, NotSettled
<1>2. resolving[n] # None /\ NodeInCrisis'
  BY <1>1, NoneIsNothing DEF NodeInCrisis
<1>3. CASE UNCHANGED <<occupied, occupied_by, camp>>
  BY <1>1, <1>2, <1>3 DEF OccupancyAgrees
<1>4. ASSUME NEW f \in Furniture, Occupy(n, f), occupied_by[f] = None, f \in Camps => camp'[f] # None,
             \A g \in Camps : camp[g] # None => camp'[g] # None
      PROVE  OccupancyAgrees'
  <2>1. /\ occupied'[n] = f /\ \A m \in Npcs \ {n} : occupied'[m] = occupied[m]
        /\ occupied_by'[f] = n /\ \A g \in Furniture \ {f} : occupied_by'[g] = occupied_by[g]
    BY <1>4 DEF Occupy, TypeOK
  <2>2. \A m \in Npcs : occupied[m] \in Furniture \cup {None}
    BY DEF TypeOK
  <2>3. \A m \in Npcs : occupied[m] # f
    BY <1>4, NoneIsNothing DEF OccupancyAgrees
  <2>4. \A g \in Furniture : occupied_by[g] # None => occupied_by[g] \in Npcs /\ occupied_by[g] # n
    BY <1>1, NoneIsNothing DEF OccupancyAgrees, TypeOK
  <2>5. ASSUME NEW m \in Npcs, occupied'[m] # None
        PROVE  /\ occupied_by'[occupied'[m]] = m /\ resolving'[m] # None
               /\ occupied'[m] \in Camps => camp'[occupied'[m]] # None
    <3>1. CASE m = n
      BY <1>1, <1>2, <1>4, <2>1, <3>1
    <3>2. CASE m # n
      BY <1>1, <1>4, <2>1, <2>2, <2>3, <2>5, <3>2 DEF OccupancyAgrees
    <3> QED
      BY <3>1, <3>2
  <2>6. ASSUME NEW g \in Furniture, occupied_by'[g] # None
        PROVE  occupied'[occupied_by'[g]] = g
    BY <2>1, <2>4, <2>6 DEF OccupancyAgrees
  <2> QED
    BY <2>5, <2>6 DEF OccupancyAgrees
<1>5. CASE \E f \in FreeFor(resolving[n], npc[n].pos) : Occupy(n, f) /\ UNCHANGED camp
  <2>1. PICK f \in FreeFor(resolving[n], npc[n].pos) : Occupy(n, f) /\ UNCHANGED camp
    BY <1>5
  <2>2. f \in Furniture /\ occupied_by[f] = None /\ (f \in Camps => camp[f] = resolving[n])
    BY <2>1, ScheduleAssumption DEF FreeFor, Serves
  <2> QED
    BY <1>2, <1>4, <2>1, <2>2
<1>6. CASE \E f \in NewHandles : Occupy(n, f) /\ camp' = [camp EXCEPT ![f] = resolving[n]]
  <2>1. PICK f \in NewHandles : Occupy(n, f) /\ camp' = [camp EXCEPT ![f] = resolving[n]]
    BY <1>6
  <2>2. f \in Furniture /\ f \in Camps
    BY <2>1, NoneIsNothing DEF NewHandles
  <2>3. occupied_by[f] = None
    BY <2>1, <2>2 DEF NewHandles, OccupancyAgrees, TypeOK
  <2>4. camp'[f] # None /\ \A g \in Camps : camp[g] # None => camp'[g] # None
    BY <1>2, <2>1, <2>2 DEF TypeOK
  <2> QED
    BY <1>2, <1>4, <2>1, <2>2, <2>3, <2>4
<1> QED
  BY <1>2, <1>3, <1>5, <1>6 DEF SettleDown

LEMMA OccupancyOfResolving ==
  ASSUME TypeOK, OccupancyAgrees, NodeInCrisis, Resolver \/ \E n \in Npcs : Resolve(n)
  PROVE  OccupancyAgrees' /\ NodeInCrisis'
<1>1. CASE Resolver
  <2>1. \A n \in Npcs : ~Returns(n)
    BY DEF Returns, OccupancyAgrees
  <2>2. \A f \in Furniture : ~(occupied_by[f] # None /\ occupied[occupied_by[f]] # f)
    BY DEF OccupancyAgrees
  <2>3. occupied' = occupied /\ occupied_by' = occupied_by /\ camp' = camp
    BY <1>1, <2>1, <2>2 DEF Resolver, TypeOK
  <2>4. UNCHANGED <<resolving, turn, node>>
    BY <1>1 DEF Resolver
  <2> QED
    BY <2>3, <2>4 DEF OccupancyAgrees, NodeInCrisis
<1>2. CASE \E n \in Npcs : Resolve(n)
  <2>1. PICK n \in Npcs : Resolve(n)
    BY <1>2
  <2>2. /\ occupied'[n] = None /\ \A m \in Npcs \ {n} : /\ occupied'[m] = occupied[m]
                                                      /\ resolving'[m] = resolving[m]
        /\ \A f \in Furniture : occupied_by'[f] = IF f = occupied[n] THEN None ELSE occupied_by[f]
        /\ \A f \in Camps : camp'[f] = IF f = occupied[n] THEN None ELSE camp[f]
        /\ turn' = None
    BY <2>1 DEF Resolve, Release, TurnOver, TypeOK
  <2>3. \A m \in Npcs : occupied[m] \in Furniture \cup {None}
    BY DEF TypeOK
  <2>4. \A m \in Npcs \ {n} : occupied[m] # None => occupied[m] # occupied[n]
    BY DEF OccupancyAgrees
  <2>5. \A f \in Furniture : occupied_by'[f] # None => occupied_by[f] \in Npcs \ {n}
    BY <2>2 DEF OccupancyAgrees, TypeOK
  <2>6. NodeInCrisis'
    BY <2>2, NoneIsNothing DEF NodeInCrisis
  <2>7. OccupancyAgrees'
    BY <2>2, <2>3, <2>4, <2>5 DEF OccupancyAgrees
  <2> QED
    BY <2>6, <2>7
<1> QED
  BY <1>1, <1>2

\* The two sides of an occupation (occupied_furniture, occupied_by) always agree,
\* nobody holds a piece of furniture or a camp that is another's or pulled
\* down, and only an NPC in a crisis holds any: in every state, not only after
\* SystemAffordanceResolver.
THEOREM OccupationsAgree == Spec => []OccupancyAgrees
<1>1. Init => TypeOK /\ OccupancyAgrees /\ NodeInCrisis
  <2> SUFFICES ASSUME Init PROVE OccupancyAgrees /\ NodeInCrisis
    BY InitType
  <2>1. /\ \A n \in Npcs : occupied[n] = None
        /\ \A f \in Furniture : occupied_by[f] = None
        /\ node = "root"
    BY DEF Init
  <2>2. OccupancyAgrees
    BY <2>1 DEF OccupancyAgrees
  <2>3. NodeInCrisis
    BY <2>1 DEF NodeInCrisis
  <2> QED
    BY <2>2, <2>3
<1>2. TypeOK /\ OccupancyAgrees /\ NodeInCrisis /\ [Next]_vars
        => (TypeOK /\ OccupancyAgrees /\ NodeInCrisis)'
  <2> SUFFICES ASSUME TypeOK, OccupancyAgrees, NodeInCrisis, [Next]_vars
               PROVE  OccupancyAgrees' /\ NodeInCrisis'
    BY TypeStep
  <2>1. CASE UNCHANGED vars
    BY <2>1 DEF vars, frame, needs, OccupancyAgrees, NodeInCrisis
  <2>2. CASE Next
    BY <2>2, OccupancyOfOthers, OccupancyOfCrisis, OccupancyOfSettling, OccupancyOfResolving
  <2> QED
    BY <2>1, <2>2
<1> QED
  BY <1>1, <1>2, PTL DEF Spec

-----------------------------------------------------------------------------
(* Camps.  One that nobody occupies belongs to the NPC whose tree is being *)
(* ticked, between pitching it and lying down in it.                       *)

\* A job, a report or a crisis has a target, except between BeginCrisis and
\* FindFurniture.
Targets ==
  \A n \in Npcs : job[n].active \/ n \in reports \/ resolving[n] # None =>
     \/ job[n].place # None /\ job[n].at # None
     \/ turn = n /\ node = "find"

\* Without a target it is a new crisis: the NPC holds nothing yet.
FreshCrisis ==
  \A n \in Npcs : turn = n /\ node = "find" /\ (job[n].place = None \/ job[n].at = None) =>
     NotSettled(n)

Empty(f) == camp[f] # None /\ occupied_by[f] = None

OnlyOwnCamp ==
  \A f \in Camps : Empty(f) =>
     /\ turn \in Npcs /\ node \in {"move", "interact"}
     /\ npc[turn].pos = Wild /\ job[turn].place = Wild
     /\ camp[f] = resolving[turn] /\ NotSettled(turn)
     /\ \A g \in Camps : Empty(g) => g = f

CampInv == Targets /\ FreshCrisis /\ OnlyOwnCamp

SafeInv == TypeOK /\ WaitInv /\ OccupancyAgrees /\ NodeInCrisis /\ CampInv

\* Between two turns there is no empty camp, and a step that begins none keeps it so.
LEMMA BetweenTurns ==
  ASSUME SafeInv, turn = None, turn' = None \/ node' = "needs", UNCHANGED needs, Targets'
  PROVE  CampInv'
<1>1. \A f \in Camps : ~Empty(f)
  BY NoneIsNothing DEF SafeInv, CampInv, OnlyOwnCamp
<1>2. \A f \in Camps : ~Empty(f)'
  BY <1>1 DEF Empty, needs
<1>3. FreshCrisis'
  BY NoneIsNothing DEF FreshCrisis
<1>4. OnlyOwnCamp'
  BY <1>2 DEF OnlyOwnCamp
<1> QED
  BY <1>3, <1>4 DEF CampInv

LEMMA CampsOfAnswers ==
  ASSUME SafeInv,
         \/ JobsAnswered \/ (\E n \in Npcs : ReportAnswered(n))
         \/ \E t \in talks : EndTalk(t)
  PROVE  CampInv'
<1>1. turn = None /\ UNCHANGED <<turn, needs>> /\ reports' \subseteq reports
  BY DEF JobsAnswered, ReportAnswered, EndTalk, frame, SafeInv, WaitInv
<1>2. \A m \in Npcs : job[m].active \/ m \in reports \/ resolving[m] # None =>
                       job[m].place # None /\ job[m].at # None
  BY <1>1, NoneIsNothing DEF SafeInv, CampInv, Targets
<1>3. None \notin Places /\ \A j \in Jobs : Planned(j).place # None /\ Planned(j).at # None
  <2>1. None \notin Places
    BY ScheduleAssumption
  <2> QED
    BY <2>1, PlannedType
<1>4. ASSUME NEW m \in Npcs
      PROVE  \/ job'[m] = job[m]
             \/ job'[m].place # None /\ job'[m].at # None
  <2>1. CASE JobsAnswered
    <3>1. PICK offer \in UNION {[T -> Jobs] : T \in SUBSET Npcs} :
            job'[m] = job[m] \/ (m \in DOMAIN offer /\ job'[m] = Planned(offer[m]))
      BY <2>1 DEF JobsAnswered
    <3>2. m \in DOMAIN offer => offer[m] \in Jobs
      OBVIOUS
    <3> QED
      BY <1>3, <3>1, <3>2
  <2>2. CASE \E n \in Npcs : ReportAnswered(n)
    <3>1. PICK n \in Npcs : ReportAnswered(n)
      BY <2>2
    <3>2. CASE job' = job
      BY <3>2
    <3>3. CASE job' # job
      <4>1. PICK j \in Jobs : job' = [job EXCEPT ![n] = [Planned(j) EXCEPT !.at = job[n].at]]
        BY <3>1, <3>3 DEF ReportAnswered
      <4>2. job'[n] = [Planned(j) EXCEPT !.at = job[n].at] /\ (m # n => job'[m] = job[m])
        BY <4>1 DEF SafeInv, TypeOK
      <4>3. Planned(j) \in JobState /\ Planned(j).place = JobPlace[j] /\ JobPlace[j] \in Places
        BY PlannedType
      <4>4. job'[n].place = JobPlace[j] /\ job'[n].at = job[n].at
        BY <4>2, <4>3 DEF JobState
      <4>5. job[n].at # None
        BY <1>2, <3>1 DEF ReportAnswered
      <4> QED
        BY <1>3, <4>2, <4>3, <4>4, <4>5
    <3> QED
      BY <3>2, <3>3
  <2>3. CASE \E t \in talks : EndTalk(t)
    <3>1. PICK t \in talks : EndTalk(t)
      BY <2>3
    <3>2. PICK offer \in UNION {[T -> Jobs] : T \in SUBSET (IF t.kind = "npc" THEN t.who ELSE {})} :
            job'[m] = job[m] \/ (m \in DOMAIN offer /\ job'[m] = Planned(offer[m]))
      BY <3>1 DEF EndTalk
    <3>3. m \in DOMAIN offer => offer[m] \in Jobs
      OBVIOUS
    <3> QED
      BY <1>3, <3>2, <3>3
  <2> QED
    BY <2>1, <2>2, <2>3
<1>5. Targets'
  BY <1>1, <1>2, <1>4 DEF Targets, needs
<1> QED
  BY <1>1, <1>5, BetweenTurns

LEMMA CampsOfOthers ==
  ASSUME SafeInv,
         \/ UNCHANGED vars \/ BeginHour \/ NoHour \/ NextSystem \/ Resolver \/ NoJobs
         \/ \E n \in Npcs : PlayerTalks(n) \/ Hit(n)
         \/ \E S \in SUBSET Npcs : NpcsMeet(S)
         \/ \E t \in talks : LoseTalk(t)
  PROVE  CampInv'
<1>1. CASE \/ UNCHANGED vars \/ \E t \in talks : LoseTalk(t)
  BY <1>1 DEF vars, frame, needs, rpcs, LoseTalk, SafeInv, CampInv, Targets, FreshCrisis, OnlyOwnCamp,
              Empty, NotSettled
<1>2. CASE \/ BeginHour \/ NoHour \/ NextSystem \/ NoJobs
           \/ \E n \in Npcs : PlayerTalks(n) \/ Hit(n)
           \/ \E S \in SUBSET Npcs : NpcsMeet(S)
  <2>1. turn = None /\ UNCHANGED <<turn, job, needs, reports>>
    BY <1>2 DEF BeginHour, NoHour, NextSystem, NoJobs, PlayerTalks, NpcsMeet, StartTalk, Hit, frame,
                rpcs, SafeInv, WaitInv
  <2>2. Targets'
    BY <2>1, NoneIsNothing DEF needs, SafeInv, CampInv, Targets
  <2> QED
    BY <2>1, <2>2, BetweenTurns
<1>3. CASE Resolver
  <2>1. turn = None /\ UNCHANGED <<turn, job, resolving, reports>>
    BY <1>3 DEF Resolver, rpcs, SafeInv, WaitInv
  <2>2. \A n \in Npcs : ~Returns(n)
    BY DEF Returns, SafeInv, OccupancyAgrees
  <2>3. \A f \in Furniture : ~(occupied_by[f] # None /\ occupied[occupied_by[f]] # f)
    BY DEF SafeInv, OccupancyAgrees
  <2>4. occupied' = occupied /\ occupied_by' = occupied_by /\ camp' = camp
    BY <1>3, <2>2, <2>3 DEF Resolver, SafeInv, TypeOK
  <2>5. Targets'
    BY <2>1, NoneIsNothing DEF SafeInv, CampInv, Targets
  <2> QED
    BY <2>1, <2>4, <2>5, BetweenTurns DEF needs
<1> QED
  BY <1>1, <1>2, <1>3

LEMMA CampsOfDriverAndBody ==
  ASSUME SafeInv, NEW n \in Npcs,
         \/ JobDriver(n) \/ NotTicked(n) \/ Chase(n) \/ Strike(n) \/ Peace(n)
         \/ Dies(n) \/ Stay(n) \/ Arrive(n) \/ Walk(n)
  PROVE  CampInv'
<1>1. turn = None /\ (turn' = None \/ node' = "needs") /\ UNCHANGED needs
  <2>1. CASE \/ JobDriver(n) \/ Dies(n) \/ Stay(n) \/ Arrive(n) \/ Walk(n)
    BY <2>1 DEF JobDriver, Dies, Stay, Arrive, Walk, Moves, Body, SafeInv, WaitInv
  <2>2. CASE NotTicked(n) \/ Chase(n) \/ Strike(n) \/ Peace(n)
    BY <2>2 DEF NotTicked, Chase, Strike, Peace, Fights, MyTurn
  <2> QED
    BY <2>1, <2>2
<1>2. \A m \in Npcs : job[m].active \/ m \in reports \/ resolving[m] # None =>
                       job[m].place # None /\ job[m].at # None
  BY <1>1, NoneIsNothing DEF SafeInv, CampInv, Targets
<1>3. \A m \in Npcs : m \in reports' => m \in reports \/ job[m].active
  BY DEF JobDriver, Interrupt, Rest, SetOut, BeginWork, OnTheWay, Work, Complete, NotTicked, Chase,
         Strike, Peace, Fights, MyTurn, Dies, Stay, Arrive, Walk, Moves, Body, rpcs
<1>4. \A m \in Npcs : job[m] \in JobState
  BY DEF SafeInv, TypeOK
<1>5. ASSUME NEW m \in Npcs, job[m].place # None, job[m].at # None
      PROVE  job'[m].place # None /\ job'[m].at # None
  <2>1. CASE UNCHANGED job
    BY <1>5, <2>1
  <2>2. CASE job' = [job EXCEPT ![n] = [job[n] EXCEPT !.active = FALSE]]
    <3>1. job'[m] = job[m] \/ job'[m] = [job[m] EXCEPT !.active = FALSE]
      BY <2>2 DEF SafeInv, TypeOK
    <3> QED
      BY <1>4, <1>5, <3>1 DEF JobState
  <2>3. CASE \E p, q \in Places : job' = [job EXCEPT ![n] = [job[n] EXCEPT !.at = p, !.place = q]]
    <3>1. PICK p, q \in Places : job' = [job EXCEPT ![n] = [job[n] EXCEPT !.at = p, !.place = q]]
      BY <2>3
    <3>2. job'[m] = job[m] \/ job'[m] = [job[m] EXCEPT !.at = p, !.place = q]
      BY <3>1 DEF SafeInv, TypeOK
    <3>3. p # None /\ q # None
      BY ScheduleAssumption
    <3> QED
      BY <1>4, <1>5, <3>2, <3>3 DEF JobState
  <2>4. CASE job' = [job EXCEPT ![n] = [job[n] EXCEPT !.at = Lookup(n)]]
    <3>1. job'[m] = job[m] \/ (m = n /\ job'[m] = [job[m] EXCEPT !.at = job[m].at])
      BY <1>5, <2>4 DEF SafeInv, TypeOK, Lookup
    <3> QED
      BY <1>4, <1>5, <3>1 DEF JobState
  <2>5. JobDriver(n) => UNCHANGED job \/ job' = [job EXCEPT ![n] = [job[n] EXCEPT !.active = FALSE]]
    BY DEF JobDriver, Interrupt, Rest, SetOut, BeginWork, OnTheWay, Work, Complete, SafeInv, TypeOK
  <2>6. Chase(n) => \/ UNCHANGED job
                    \/ \E p, q \in Places : job' = [job EXCEPT ![n] = [job[n] EXCEPT !.at = p, !.place = q]]
    BY ScheduleAssumption DEF Chase
  <2>7. NotTicked(n) \/ Strike(n) \/ Peace(n) \/ Dies(n) \/ Stay(n) => UNCHANGED job
    BY DEF NotTicked, Strike, Peace, Dies, Stay
  <2>8. Arrive(n) \/ Walk(n) => job' = [job EXCEPT ![n] = [job[n] EXCEPT !.at = Lookup(n)]]
    BY DEF Arrive, Walk, Moves, SafeInv, TypeOK
  <2> QED
    BY <2>1, <2>2, <2>3, <2>4, <2>5, <2>6, <2>7, <2>8
<1>6. \A m \in Npcs : job'[m].active => job[m].active
  <2>1. JobDriver(n) => UNCHANGED job \/ job' = [job EXCEPT ![n] = [job[n] EXCEPT !.active = FALSE]]
    BY DEF JobDriver, Interrupt, Rest, SetOut, BeginWork, OnTheWay, Work, Complete, SafeInv, TypeOK
  <2>2. CASE JobDriver(n)
    BY <1>4, <2>1, <2>2 DEF SafeInv, TypeOK, JobState
  <2>3. CASE ~JobDriver(n)
    BY <2>3, JobKept DEF SafeInv
  <2> QED
    BY <2>2, <2>3
<1>7. Targets'
  BY <1>1, <1>2, <1>3, <1>5, <1>6 DEF Targets, needs
<1> QED
  BY <1>1, <1>7, BetweenTurns

\* The nodes of a tree.  The NPC that leaves FindFurniture has a target, and if it
\* has just pitched a camp it is in the wilderness and will settle in this one.
LEMMA CampsOfNeeds ==
  ASSUME SafeInv, NEW n \in Npcs,
         \/ InCrisis(n) \/ ScheduledNeed(n) \/ NoNeed(n) \/ \E c \in Needs : BeginCrisis(n, c)
  PROVE  CampInv'
<1>1. turn = n /\ node = "needs" /\ n # None /\ UNCHANGED <<reports, camp, occupied, occupied_by>>
  BY NoneIsNothing
     DEF InCrisis, ScheduledNeed, NoNeed, BeginCrisis, At, AtNode, needs, rpcs
<1>2. \A m \in Npcs : job[m].active \/ m \in reports \/ resolving[m] # None =>
                       job[m].place # None /\ job[m].at # None
  BY <1>1 DEF SafeInv, CampInv, Targets
<1>3. \A f \in Camps : ~Empty(f)
  BY <1>1 DEF SafeInv, CampInv, OnlyOwnCamp
<1>4. OnlyOwnCamp'
  BY <1>1, <1>3 DEF Empty, OnlyOwnCamp
<1>5. CASE InCrisis(n)
  <2>1. turn' = n /\ node' = "find" /\ UNCHANGED <<job, resolving>> /\ resolving[n] # None
    BY <1>1, <1>5 DEF InCrisis, GoOn, needs
  <2>2. Targets' /\ FreshCrisis'
    BY <1>1, <1>2, <2>1 DEF Targets, FreshCrisis
  <2> QED
    BY <1>4, <2>2 DEF CampInv
<1>6. CASE ScheduledNeed(n)
  <2>1. /\ turn' = n /\ node' = "interact" /\ UNCHANGED job /\ job[n].active
        /\ \A m \in Npcs \ {n} : resolving'[m] = resolving[m]
    BY <1>1, <1>6 DEF ScheduledNeed, MealTime, GoOn, SafeInv, TypeOK
  <2>2. Targets' /\ FreshCrisis'
    BY <1>1, <1>2, <2>1 DEF Targets, FreshCrisis
  <2> QED
    BY <1>4, <2>2 DEF CampInv
<1>7. CASE NoNeed(n)
  <2>1. turn' = None /\ UNCHANGED resolving
    BY <1>7 DEF NoNeed, TurnOver, needs
  <2>2. \A m \in Npcs : job'[m].active = job[m].active
    BY <1>7, JobKept DEF SafeInv
  <2>3. \A m \in Npcs : job[m].place # None /\ job[m].at # None =>
                         job'[m].place # None /\ job'[m].at # None
    <3> TAKE m \in Npcs
    <3>1. job[m] \in JobState /\ npc[n].pos \in Places /\ None \notin Places
      BY ScheduleAssumption DEF SafeInv, TypeOK, NpcState
    <3>2. \/ job' = job
          \/ job' = [job EXCEPT ![n] = [job[n] EXCEPT !.place = npc[n].pos, !.at = npc[n].pos,
                                                      !.wander = TRUE]]
          \/ job' = [job EXCEPT ![n].wander = FALSE]
      BY <1>7 DEF NoNeed, WanderOff, StandAround, WanderEnds, NothingToDo
    <3>3. \/ job'[m] = job[m]
          \/ job'[m] = [job[m] EXCEPT !.place = npc[n].pos, !.at = npc[n].pos, !.wander = TRUE]
          \/ job'[m] = [job[m] EXCEPT !.wander = FALSE]
      BY <3>2 DEF SafeInv, TypeOK
    <3> QED
      BY <3>1, <3>3 DEF JobState
  <2>4. Targets' /\ FreshCrisis'
    BY <1>1, <1>2, <2>1, <2>2, <2>3, NoneIsNothing DEF Targets, FreshCrisis
  <2> QED
    BY <1>4, <2>4 DEF CampInv
<1>8. CASE \E c \in Needs : BeginCrisis(n, c)
  <2>1. PICK c \in Needs : BeginCrisis(n, c)
    BY <1>8
  <2>2. /\ turn' = n /\ node' = "find"
        /\ \A m \in Npcs \ {n} : resolving'[m] = resolving[m] /\ job'[m] = job[m]
    BY <1>1, <2>1 DEF BeginCrisis, GoOn, SafeInv, TypeOK
  <2>3. NotSettled(n)'
    <3>1. occupied[n] = None
      BY <2>1 DEF BeginCrisis, SafeInv, OccupancyAgrees
    <3>2. npc[n] \in NpcState /\ npc' = [npc EXCEPT ![n] = [npc[n] EXCEPT !.toil = "Idle",
                                                             !.ticks = 0, !.floor = FALSE]]
      BY <2>1 DEF BeginCrisis, SafeInv, TypeOK
    <3>3. npc'[n].floor = FALSE
      BY <3>2 DEF NpcState, SafeInv, TypeOK
    <3> QED
      BY <1>1, <3>1, <3>3 DEF NotSettled
  <2>4. Targets'
    BY <1>1, <1>2, <2>2 DEF Targets
  <2>5. FreshCrisis'
    BY <2>2, <2>3 DEF FreshCrisis, NotSettled
  <2> QED
    BY <1>4, <2>4, <2>5 DEF CampInv
<1> QED
  BY <1>5, <1>6, <1>7, <1>8

LEMMA CampsOfFinding ==
  ASSUME SafeInv, NEW n \in Npcs, FindFurniture(n)
  PROVE  CampInv'
<1>1. turn = n /\ node = "find" /\ n # None /\ turn' = n /\ node' = "move"
      /\ UNCHANGED <<reports, resolving, occupied, occupied_by>>
  BY NoneIsNothing DEF FindFurniture, At, AtNode, GoOn, rpcs
<1>2. \A f \in Camps : ~Empty(f)
  BY <1>1 DEF SafeInv, CampInv, OnlyOwnCamp
<1>3. job[n] \in JobState /\ npc[n] \in NpcState /\ npc[n].pos \in Places /\ None \notin Places
  BY ScheduleAssumption DEF SafeInv, TypeOK, NpcState
<1>4. FreshCrisis'
  BY <1>1 DEF FreshCrisis
<1>5. ASSUME Target(n, npc[n].pos)
      PROVE  /\ job'[n].place = npc[n].pos /\ job'[n].at = npc[n].pos
             /\ npc'[n].pos = npc[n].pos /\ npc'[n].floor = npc[n].floor
             /\ \A m \in Npcs \ {n} : job'[m] = job[m]
  <2>1. /\ job' = [job EXCEPT ![n] = [job[n] EXCEPT !.place = npc[n].pos, !.at = npc[n].pos]]
        /\ npc' = [npc EXCEPT ![n] = [npc[n] EXCEPT !.toil = "Idle"]]
    BY <1>5 DEF Target, SafeInv, TypeOK
  <2>2. /\ job'[n] = [job[n] EXCEPT !.place = npc[n].pos, !.at = npc[n].pos]
        /\ npc'[n] = [npc[n] EXCEPT !.toil = "Idle"]
        /\ \A m \in Npcs \ {n} : job'[m] = job[m]
    BY <2>1 DEF SafeInv, TypeOK
  <2> QED
    BY <1>3, <2>2 DEF JobState, NpcState
<1>6. Targets'
  <2>1. \A m \in Npcs \ {n} : job'[m] = job[m]
    BY <1>5 DEF FindFurniture
  <2>2. job'[n].place # None /\ job'[n].at # None
    BY <1>3, <1>5 DEF FindFurniture
  <2> QED
    BY <1>1, <2>1, <2>2 DEF Targets, SafeInv, CampInv
<1>7. OnlyOwnCamp'
  <2>1. CASE UNCHANGED camp
    BY <1>1, <1>2, <2>1 DEF OnlyOwnCamp, Empty
  <2>2. CASE ~UNCHANGED camp
    <3>1. PICK f \in Camps : camp' = [camp EXCEPT ![f] = resolving[n]]
      BY <2>2 DEF FindFurniture, NewHandles
    <3>2. /\ npc[n].pos = Wild /\ Target(n, npc[n].pos)
          /\ job[n].place = None \/ job[n].at = None
      BY <2>2 DEF FindFurniture
    <3>3. NotSettled(n)
      BY <1>1, <3>2 DEF SafeInv, CampInv, FreshCrisis
    <3>4. NotSettled(n)'
      BY <1>1, <1>5, <3>2, <3>3 DEF NotSettled
    <3>5. \A g \in Camps : Empty(g)' => g = f
      BY <1>1, <1>2, <3>1 DEF Empty, SafeInv, TypeOK
    <3>6. camp'[f] = resolving'[n]
      BY <1>1, <3>1 DEF SafeInv, TypeOK
    <3> QED
      BY <1>1, <1>5, <3>2, <3>4, <3>5, <3>6 DEF OnlyOwnCamp
  <2> QED
    BY <2>1, <2>2
<1> QED
  BY <1>4, <1>6, <1>7 DEF CampInv

LEMMA CampsOfMoving ==
  ASSUME SafeInv, NEW n \in Npcs, Arrived(n) \/ MoveToTarget(n) \/ Recover(n)
  PROVE  CampInv'
<1>1. turn = n /\ node \in {"move", "interact"} /\ n # None
      /\ UNCHANGED <<reports, resolving, occupied, occupied_by, camp, job>>
  BY NoneIsNothing DEF Arrived, MoveToTarget, Recover, At, AtNode, rpcs, needs
<1>2. CASE Arrived(n)
  <2>1. turn' = n /\ node' = "interact" /\ UNCHANGED npc
    BY <1>1, <1>2 DEF Arrived, GoOn
  <2>2. OnlyOwnCamp'
    BY <1>1, <2>1 DEF SafeInv, CampInv, OnlyOwnCamp, Empty, NotSettled
  <2> QED
    BY <1>1, <2>1, <2>2 DEF SafeInv, CampInv, Targets, FreshCrisis
<1>3. CASE MoveToTarget(n) \/ Recover(n)
  <2>1. turn' = None
    BY <1>3 DEF MoveToTarget, Recover, TurnOver
  <2>2. \A f \in Camps : ~Empty(f)
    BY <1>1, <1>3 DEF MoveToTarget, Recover, SafeInv, CampInv, OnlyOwnCamp
  <2>3. OnlyOwnCamp'
    BY <1>1, <2>2 DEF OnlyOwnCamp, Empty
  <2>4. Targets'
    BY <1>1 DEF SafeInv, CampInv, Targets
  <2> QED
    BY <2>1, <2>3, <2>4, NoneIsNothing DEF CampInv, FreshCrisis
<1> QED
  BY <1>2, <1>3

LEMMA CampsOfSettling ==
  ASSUME SafeInv, NEW n \in Npcs, SettleDown(n)
  PROVE  CampInv'
<1>1. turn = n /\ node = "interact" /\ n # None /\ turn' = None
      /\ UNCHANGED <<reports, resolving, job>>
  BY NoneIsNothing DEF SettleDown, At, AtNode, TurnOver, rpcs
<1>2. Targets' /\ FreshCrisis'
  BY <1>1, NoneIsNothing DEF SafeInv, CampInv, Targets, FreshCrisis
<1>3. \A g \in Camps : Empty(g) => g \in FreeFor(resolving[n], npc[n].pos) /\ npc[n].pos = Wild
  <2>1. \A g \in Camps : g \in Furniture /\ g \notin Fixed
    BY ScheduleAssumption, NoneIsNothing
  <2> QED
    BY <1>1, <2>1 DEF SafeInv, CampInv, OnlyOwnCamp, Empty, FreeFor, Serves, PlaceOf
<1>4. ASSUME NEW g \in Camps PROVE ~Empty(g)'
  <2>1. CASE \E f \in FreeFor(resolving[n], npc[n].pos) : Occupy(n, f) /\ UNCHANGED camp
    <3>1. PICK f \in FreeFor(resolving[n], npc[n].pos) : Occupy(n, f) /\ UNCHANGED camp
      BY <2>1
    <3>2. occupied_by'[f] = n /\ \A h \in Furniture \ {f} : occupied_by'[h] = occupied_by[h]
      BY <3>1 DEF Occupy, FreeFor, SafeInv, TypeOK
    <3>3. Empty(g) => g = f
      <4>1. SUFFICES ASSUME Empty(g) PROVE g = f
        OBVIOUS
      <4>2. npc[n].pos = Wild
        BY <1>3, <4>1
      <4>3. f \in Camps
        BY <3>1, <4>2, ScheduleAssumption DEF FreeFor, PlaceOf, Furniture
      <4>4. Empty(f)
        <5>1. camp[f] = resolving[n] /\ occupied_by[f] = None
          BY <3>1, <4>3, ScheduleAssumption DEF FreeFor, Serves
        <5>2. resolving[n] # None
          BY <1>1 DEF SafeInv, NodeInCrisis
        <5> QED
          BY <5>1, <5>2 DEF Empty
      <4> QED
        BY <4>1, <4>3, <4>4 DEF SafeInv, CampInv, OnlyOwnCamp
    <3> QED
      BY <1>1, <3>1, <3>2, <3>3, NoneIsNothing DEF Empty
  <2>2. CASE FreeFor(resolving[n], npc[n].pos) = {} /\ ~\E f \in FreeFor(resolving[n], npc[n].pos) : TRUE
    <3>1. \A h \in Camps : ~Empty(h)
      BY <1>3, <2>2
    <3>2. CASE UNCHANGED <<occupied, occupied_by, camp>>
      BY <3>1, <3>2 DEF Empty
    <3>3. CASE \E f \in NewHandles : Occupy(n, f) /\ camp' = [camp EXCEPT ![f] = resolving[n]]
      <4>1. PICK f \in NewHandles : Occupy(n, f) /\ camp' = [camp EXCEPT ![f] = resolving[n]]
        BY <3>3
      <4>2. f \in Camps /\ f \in Furniture /\ g \in Furniture
        BY <4>1, NoneIsNothing DEF NewHandles
      <4>3. /\ occupied_by'[f] = n /\ (g # f => occupied_by'[g] = occupied_by[g])
            /\ g # f => camp'[g] = camp[g]
        BY <4>1, <4>2 DEF Occupy, SafeInv, TypeOK
      <4> QED
        BY <1>1, <3>1, <4>3 DEF Empty
    <3> QED
      BY <2>2, <3>2, <3>3 DEF SettleDown
  <2> QED
    BY <2>1, <2>2 DEF SettleDown
<1>5. OnlyOwnCamp'
  BY <1>4 DEF OnlyOwnCamp
<1> QED
  BY <1>2, <1>5 DEF CampInv

LEMMA CampsOfResolving ==
  ASSUME SafeInv, NEW n \in Npcs, Resolve(n)
  PROVE  CampInv'
<1>1. turn = n /\ node = "interact" /\ n # None /\ turn' = None /\ UNCHANGED reports
      /\ ~NotSettled(n)
  BY NoneIsNothing DEF Resolve, At, AtNode, TurnOver, rpcs
<1>2. \A f \in Camps : ~Empty(f)
  BY <1>1 DEF SafeInv, CampInv, OnlyOwnCamp
<1>3. \A f \in Camps : ~Empty(f)'
  BY <1>2, NoneIsNothing DEF Resolve, Release, Empty
<1>4. /\ job' = [job EXCEPT ![n] = [job[n] EXCEPT !.active = FALSE]] /\ job[n] \in JobState
      /\ \A m \in Npcs \ {n} : resolving'[m] = resolving[m]
      /\ resolving[n] # None
  BY <1>1 DEF Resolve, SafeInv, TypeOK, NodeInCrisis
<1>5. job'[n].place = job[n].place /\ job'[n].at = job[n].at
      /\ \A m \in Npcs \ {n} : job'[m] = job[m]
  BY <1>4 DEF JobState, SafeInv, TypeOK
<1>6. Targets'
  BY <1>1, <1>4, <1>5 DEF SafeInv, CampInv, Targets
<1> QED
  BY <1>1, <1>3, <1>6, NoneIsNothing DEF CampInv, FreshCrisis, OnlyOwnCamp

\* Between two turns every camp is occupied: whoever pitches one in the
\* wilderness (ActionFindFurniture, ActionInteractFurniture) lies down in this
\* very camp before the tree of the next NPC is ticked, and the end of the
\* crisis pulls it down; none is ever left behind.
THEOREM NoCampIsLeftBehind == Spec => []CampsInUse
<1>1. Init => SafeInv
  <2> SUFFICES ASSUME Init PROVE WaitInv /\ OccupancyAgrees /\ NodeInCrisis /\ CampInv
    BY InitType DEF SafeInv
  <2>1. /\ \A n \in Npcs : /\ occupied[n] = None /\ resolving[n] = None
                           /\ job[n].active = FALSE /\ npc[n].busy = "No"
        /\ \A f \in Furniture : occupied_by[f] = None
        /\ \A f \in Camps : camp[f] = None
        /\ node = "root" /\ turn = None /\ phase = "tasks" /\ reports = {}
    BY DEF Init
  <2>2. WaitInv
    BY <2>1 DEF WaitInv
  <2>3. OccupancyAgrees /\ NodeInCrisis
    BY <2>1 DEF OccupancyAgrees, NodeInCrisis
  <2>4. CampInv
    BY <2>1 DEF CampInv, Targets, FreshCrisis, OnlyOwnCamp, Empty
  <2> QED
    BY <2>2, <2>3, <2>4
<1>2. SafeInv /\ [Next]_vars => SafeInv'
  <2> SUFFICES ASSUME SafeInv, [Next]_vars PROVE SafeInv'
    OBVIOUS
  <2>1. TypeOK'
    BY TypeStep DEF SafeInv
  <2>2. WaitInv'
    BY DriverWait, TreeWait, AnswerWait, OtherWait DEF SafeInv, Next, Frame, Others
  <2>3. OccupancyAgrees' /\ NodeInCrisis'
    <3>1. CASE UNCHANGED vars
      BY <3>1 DEF vars, frame, needs, SafeInv, OccupancyAgrees, NodeInCrisis
    <3>2. CASE Next
      BY <3>2, OccupancyOfOthers, OccupancyOfCrisis, OccupancyOfSettling, OccupancyOfResolving
         DEF SafeInv
    <3> QED
      BY <3>1, <3>2
  <2>4. CampInv'
    BY CampsOfAnswers, CampsOfOthers, CampsOfDriverAndBody, CampsOfNeeds, CampsOfFinding,
       CampsOfMoving, CampsOfSettling, CampsOfResolving DEF Next, Frame, Others, Tree
  <2> QED
    BY <2>1, <2>2, <2>3, <2>4 DEF SafeInv
<1>3. SafeInv => CampsInUse
  BY NoneIsNothing DEF SafeInv, CampInv, OnlyOwnCamp, Empty, CampsInUse
<1> QED
  BY <1>1, <1>2, <1>3, PTL DEF Spec
=============================================================================
