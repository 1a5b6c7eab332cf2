------------------------------- MODULE Aggro -------------------------------
(***************************************************************************)
(* Threats: SystemPerception feels them, the behaviour tree of a sentient  *)
(* NPC holds back and asks the AI server (ThreatDetected), a beast attacks *)
(* at once, a fight goes on until somebody is dead.                        *)
(*                                                                         *)
(* A question is answered frames later, by then the NPC may have given up  *)
(* waiting, have asked again, be in a fight or be dead.  The callback      *)
(* remembers who asked and about whom, the rest it reads when it runs.     *)
(*                                                                         *)
(* A frame is: tasks of the result queue and, once in a while, the hour    *)
(* ("tasks"), ended by SystemPerception; the behaviour trees ("bt"), ended *)
(* by SystemDeath.  Who stands near whom is a free choice in every frame;  *)
(* what the trees do without a threat is in NpcSchedule.                   *)
(***************************************************************************)
EXTENDS Naturals, FiniteSets

CONSTANTS
  Npcs,                 \* entities with AggroComp, CombatComp and HealthComp
  Sentient,             \* SentienceComp::is_sentient
  Faction,              \* FactionComp::faction_name of each NPC
  Hostility,            \* Hostility[f][g]: gain of one of f at the sight of one of g
  GrudgeGain,           \* gain for one of the own faction that is disliked: 5
  Related,              \* bound: pairs of NPCs whose liking the AI server ever sends
  Sight,                \* bound: Sight[n]: the NPCs n ever comes near
  Full, Calm,           \* aggro_score at which it acts: 100; what it loses: 10
  InhibitTicks,         \* frames of waiting for an answer: 100
  ExemptTicks,          \* exemption after a verdict: 600
  TalkTicks, ShunTicks, \* cooldown after a dialogue: 2; a refused one: 3
  TicksPerDay,          \* 24
  HitPoints, LowHealth, \* hits an NPC survives; below LowHealth it flees
  MaxTick,              \* bound: hours
  MaxOpen,              \* bound: questions under way at once about a pair
  None                  \* entt::null

ASSUME AggroAssumption ==
  /\ Sentient \subseteq Npcs /\ None \notin Npcs
  /\ \A n, t \in Npcs : Hostility[Faction[n]][Faction[t]] \in Nat
  /\ GrudgeGain \in Nat \ {0} /\ Related \subseteq Npcs \X Npcs
  /\ Sight \in [Npcs -> SUBSET Npcs]
  /\ Full \in Nat \ {0} /\ Calm \in Nat \ {0}
  /\ InhibitTicks \in Nat \ {0} /\ ExemptTicks \in Nat
  /\ TalkTicks \in Nat /\ ShunTicks \in Nat
  /\ TicksPerDay \in Nat \ {0} /\ HitPoints \in Nat \ {0} /\ LowHealth \in Nat
  /\ MaxTick \in Nat /\ MaxOpen \in Nat \ {0}

VARIABLES
  phase,                \* the system the frame is at
  todo,                 \* the NPCs whose tree has still to be ticked
  aggro,                \* AggroComp
  target,               \* CombatComp::target_entity
  hp,                   \* HealthComp; 0 is is_dead
  busy,                 \* the NPCs with a BusyTag
  trees,                \* the NPCs that have a BehaviorTreeComp
  exempt,               \* CooldownComp::cooldown_per_target, 0 if absent
  grudge,               \* RelationshipCacheComp: the pairs with a liking <= -50
  tick,                 \* *current_tick, the game hour
  questions,            \* ThreatDetected calls under way, by NPC and threat
  foes,                 \* history: whom an NPC has felt as a threat since it asked the
                        \* oldest of its questions under way
  talk                  \* the dialogue under way, if there is one

body == <<target, hp, trees>>
social == <<busy, talk>>
vars == <<phase, todo, aggro, body, social, exempt, tick, grudge, questions, foes>>

Entity == Npcs \cup {None}
AggroState == [threat : Entity, score : 0 .. Full, wait : 0 .. InhibitTicks + 1,
               inhibited : BOOLEAN]
Talk == [who : SUBSET Npcs, since : Nat]
NoTalk == [who |-> {}, since |-> 0]

Init ==
  /\ phase = "tasks" /\ todo = {}
  /\ aggro = [n \in Npcs |-> [threat |-> None, score |-> 0, wait |-> 0, inhibited |-> FALSE]]
  /\ target = [n \in Npcs |-> None] /\ hp = [n \in Npcs |-> HitPoints]
  /\ busy = {} /\ trees = Npcs
  /\ exempt = [n \in Npcs |-> [t \in Npcs |-> 0]] /\ tick = 0
  /\ questions = [n \in Npcs |-> [t \in Npcs |-> 0]] /\ talk = NoTalk
  /\ grudge \in SUBSET Related /\ foes = [n \in Npcs |-> {}]

-----------------------------------------------------------------------------
(* Answers of the AI server, run as tasks of the result queue.             *)

Answered(n, about) ==
  /\ phase = "tasks" /\ questions[n][about] > 0
  /\ questions' = [questions EXCEPT ![n][about] = @ - 1]
  /\ UNCHANGED <<phase, todo, hp, trees, social, tick, grudge, foes>>

LetGo(n, score) ==
  aggro' = [aggro EXCEPT ![n] = [@ EXCEPT !.score = score, !.inhibited = FALSE]]

\* Broken variant: the two are swapped.
ApproveOther(n, about) ==
  /\ Answered(n, about) /\ LetGo(n, 0)
  /\ target' = [target EXCEPT ![about] = n]
  /\ UNCHANGED exempt

\* The attack goes to the threat of the moment, which may be another one than the
\* question was about, one that is disliked no longer, or none.
Approve(n, about) ==
  /\ Answered(n, about) /\ LetGo(n, 0)
  /\ target' = [target EXCEPT ![n] = aggro[n].threat]
  /\ UNCHANGED exempt

\* REJECT and SOCIALIZE: the one asked about is left alone for a while.
Restrain(n, about) ==
  /\ Answered(n, about) /\ LetGo(n, 0)
  /\ exempt' = [exempt EXCEPT ![n][about] = tick + ExemptTicks]
  /\ UNCHANGED target

\* Broken variant: the failure of a call is not handled.
FailureForgotten(n, about) ==
  /\ Answered(n, about)
  /\ UNCHANGED <<aggro, target, exempt>>

\* The call fails, at its deadline at the latest: the score stays.
CallFails(n, about) ==
  /\ Answered(n, about) /\ LetGo(n, aggro[n].score)
  /\ UNCHANGED <<target, exempt>>

-----------------------------------------------------------------------------
(* The hour, and dialogues of two NPCs as far as they touch this state.    *)

Tasks == phase = "tasks" /\ UNCHANGED <<phase, todo, aggro, body, questions, foes>>

\* The relationship deltas of the hour set the liking of some; the threats stay.  All
\* cooldowns end with the day, and with the server's first hour.
NewHour ==
  /\ Tasks /\ tick < MaxTick
  /\ tick' = tick + 1
  /\ grudge' \in SUBSET Related
  /\ exempt' = IF tick = 0 \/ tick' % TicksPerDay = 0
               THEN [n \in Npcs |-> [t \in Npcs |-> 0]] ELSE exempt
  /\ UNCHANGED social

\* a may turn to b, and b may be recruited: a beast has no part in it.
CanMeet(n) == n \in Sentient /\ hp[n] > 0 /\ n \notin busy /\ target[n] = None
MayAddress(a, b) == a # b /\ CanMeet(a) /\ CanMeet(b) /\ tick >= exempt[a][b]

\* Bound: one dialogue at a time.
Meet(S) ==
  /\ Tasks /\ talk = NoTalk /\ \A n \in S : CanMeet(n)
  /\ \E a, b \in S : MayAddress(a, b)
  /\ talk' = [who |-> S, since |-> tick]
  /\ busy' = busy \cup S
  /\ UNCHANGED <<exempt, tick, grudge>>

Shun(a, b) ==
  /\ Tasks /\ MayAddress(a, b)
  /\ exempt' = [exempt EXCEPT ![a][b] = tick + ShunTicks]
  /\ UNCHANGED <<social, tick, grudge>>

\* A good end sets the cooldown between any two of them, over any exemption; a failed one
\* does not.  Whoever was hit has no BusyTag any more.
Part ==
  /\ Tasks /\ talk # NoTalk
  /\ talk' = NoTalk /\ busy' = busy \ talk.who
  /\ \/ exempt' = [n \in Npcs |-> [t \in Npcs |->
                     IF n # t /\ {n, t} \subseteq talk.who THEN talk.since + TalkTicks
                     ELSE exempt[n][t]]]
     \/ UNCHANGED exempt
  /\ UNCHANGED <<tick, grudge>>

-----------------------------------------------------------------------------
(* SystemPerception.                                                       *)

\* The hostility of their factions or, within a faction, a private grudge.
Gain(n, t) ==
  IF Faction[n] # Faction[t] THEN Hostility[Faction[n]][Faction[t]]
  ELSE IF <<n, t>> \in grudge THEN GrudgeGain ELSE 0

\* Broken variant: exemptions are not looked up.
FeltAnyway(n) == {t \in Sight[n] : t # n /\ hp[t] > 0 /\ Gain(n, t) > 0}

\* Who can be felt as a threat.  Of those in sight it is one of greatest gain;
\* since the sight is free, it can be any within Sight.
Felt(n) == {t \in Sight[n] : t # n /\ hp[t] > 0 /\ tick >= exempt[n][t] /\ Gain(n, t) > 0}

Fighting(n) == target[n] # None

Raised(score, gain) == IF score + gain > Full THEN Full ELSE score + gain

Perceived(n, best) ==
  LET a == aggro[n] IN
  CASE Fighting(n) -> [a EXCEPT !.score = 0, !.inhibited = FALSE]
    [] ~Fighting(n) /\ hp[n] = 0 ->
         [a EXCEPT !.score = 0, !.threat = None, !.inhibited = FALSE]
    [] ~Fighting(n) /\ hp[n] > 0 /\ best # None ->
         [a EXCEPT !.threat = best, !.score = Raised(@, Gain(n, best))]
    [] ~Fighting(n) /\ hp[n] > 0 /\ best = None /\ a.score > Calm ->
         [a EXCEPT !.score = @ - Calm]
    [] ~Fighting(n) /\ hp[n] > 0 /\ best = None /\ a.score \in 1 .. Calm ->
         [a EXCEPT !.score = 0, !.threat = None, !.inhibited = FALSE]
    [] OTHER -> a

Asking(n) == \E t \in Npcs : questions[n][t] > 0
Looking(n) == ~Fighting(n) /\ hp[n] > 0

\* Bound: a frame begins only with fewer than MaxOpen questions about any pair.
Perceive ==
  /\ \A n, t \in Npcs : questions[n][t] < MaxOpen
  /\ phase = "tasks" /\ phase' = "bt" /\ todo' = Npcs
  /\ \E best \in [Npcs -> Entity] :
       /\ \A n \in Npcs : best[n] = None \/ (Looking(n) /\ best[n] \in Felt(n))
       /\ aggro' = [n \in Npcs |-> Perceived(n, best[n])]
       /\ foes' = [n \in Npcs |->
            IF Asking(n) THEN foes[n] \cup ({best[n]} \ {None}) ELSE {}]
  /\ UNCHANGED <<body, social, exempt, tick, grudge, questions>>

-----------------------------------------------------------------------------
(* The behaviour tree of an NPC: flight, inhibition, combat.               *)

Turn(n) ==
  /\ phase = "bt" /\ n \in todo
  /\ todo' = todo \ {n}
  /\ UNCHANGED <<phase, trees, talk, exempt, tick, grudge>>

Ticked(n) == n \notin busy /\ n \in trees

NotTicked(n) ==
  /\ Turn(n) /\ ~Ticked(n)
  /\ UNCHANGED <<aggro, target, hp, busy, questions, foes>>

LivingTarget(n) == Fighting(n) /\ hp[target[n]] > 0

\* Flight, or the way to the enemy, or a pause between two strokes.
FleeOrChase(n) ==
  /\ Turn(n) /\ Ticked(n) /\ LivingTarget(n)
  /\ UNCHANGED <<aggro, target, hp, busy, questions, foes>>

\* A hit takes the BusyTag of the victim, which hits back if it has no enemy yet.
Strike(n) ==
  LET t == target[n] IN
  /\ Turn(n) /\ Ticked(n) /\ LivingTarget(n) /\ hp[n] >= LowHealth
  /\ hp' = [hp EXCEPT ![t] = @ - 1]
  /\ busy' = busy \ {t}
  /\ target' = [m \in Npcs |->
                  CASE m = n -> IF hp[t] = 1 THEN None ELSE t
                    [] m = t /\ m # n /\ target[t] = None -> n
                    [] OTHER -> target[m]]
  /\ UNCHANGED <<aggro, questions, foes>>

\* ConditionHasCombatTarget lets go of a dead enemy; the next branch is this one.
Free(n) == Ticked(n) /\ ~LivingTarget(n)
AggroHigh(n) == aggro[n].score >= Full /\ aggro[n].threat # None

Peace(n) ==
  /\ Turn(n) /\ Free(n) /\ ~AggroHigh(n)
  /\ target' = [target EXCEPT ![n] = None]
  /\ UNCHANGED <<aggro, hp, busy, questions, foes>>

\* A beast attacks at once.
Pounce(n) ==
  /\ Turn(n) /\ Free(n) /\ AggroHigh(n) /\ n \notin Sentient
  /\ target' = [target EXCEPT ![n] = aggro[n].threat]
  /\ aggro' = [aggro EXCEPT ![n].score = 0]
  /\ UNCHANGED <<hp, busy, questions, foes>>

HeldBack(n) ==
  /\ Turn(n) /\ Free(n) /\ AggroHigh(n) /\ n \in Sentient
  /\ target' = [target EXCEPT ![n] = None]
  /\ UNCHANGED <<hp, busy>>

\* The first turn of holding back asks the AI server, whatever older questions
\* of this NPC are still under way.
AskFirst(n) ==
  LET about == aggro[n].threat IN
  /\ HeldBack(n) /\ ~aggro[n].inhibited
  /\ questions' = [questions EXCEPT ![n][about] = @ + 1]
  /\ foes' = [foes EXCEPT ![n] = @ \cup {about}]
  /\ aggro' = [aggro EXCEPT ![n] = [@ EXCEPT !.inhibited = TRUE, !.wait = 1]]

KeepWaiting(n) ==
  /\ HeldBack(n) /\ aggro[n].inhibited /\ aggro[n].wait < InhibitTicks
  /\ aggro' = [aggro EXCEPT ![n].wait = @ + 1]
  /\ UNCHANGED <<questions, foes>>

\* The local timeout; the tree goes on to its other branches.
GiveUp(n) ==
  /\ HeldBack(n) /\ aggro[n].inhibited /\ aggro[n].wait >= InhibitTicks
  /\ aggro' = [aggro EXCEPT ![n] =
                 [@ EXCEPT !.inhibited = FALSE, !.score = 0, !.wait = InhibitTicks + 1]]
  /\ UNCHANGED <<questions, foes>>

-----------------------------------------------------------------------------
(* SystemDeath, and the next frame.                                        *)

SystemDeath ==
  /\ phase = "bt" /\ todo = {} /\ phase' = "tasks"
  /\ target' = [n \in Npcs |-> IF hp[n] = 0 THEN None ELSE target[n]]
  /\ trees' = trees \ {n \in Npcs : hp[n] = 0}
  /\ UNCHANGED <<todo, aggro, hp, social, exempt, tick, grudge, questions, foes>>

Tree(n) ==
  \/ NotTicked(n) \/ FleeOrChase(n) \/ Strike(n)
  \/ Peace(n) \/ Pounce(n) \/ AskFirst(n) \/ KeepWaiting(n) \/ GiveUp(n)

Answer ==
  \E n, about \in Npcs : Approve(n, about) \/ Restrain(n, about) \/ CallFails(n, about)

Next ==
  \/ Answer
  \/ NewHour \/ Part \/ (\E S \in SUBSET Sentient : Meet(S)) \/ \E a, b \in Sentient : Shun(a, b)
  \/ Perceive \/ (\E n \in Npcs : Tree(n)) \/ SystemDeath

Spec == Init /\ [][Next]_vars

-----------------------------------------------------------------------------
TypeOK ==
  /\ phase \in {"tasks", "bt"} /\ todo \in SUBSET Npcs
  /\ aggro \in [Npcs -> AggroState]
  /\ target \in [Npcs -> Entity] /\ hp \in [Npcs -> 0 .. HitPoints]
  /\ busy \in SUBSET Npcs /\ trees \in SUBSET Npcs
  /\ exempt \in [Npcs -> [Npcs -> Nat]] /\ tick \in Nat
  /\ questions \in [Npcs -> [Npcs -> 0 .. MaxOpen]] /\ talk \in Talk
  /\ grudge \in SUBSET Related /\ foes \in [Npcs -> SUBSET Npcs]

\* An NPC that holds back waits for something: one of its questions is under
\* way.  No answer to an older question and no timeout leaves it holding back
\* with nothing to come.
WaitsForAnswer ==
  \A n \in Npcs : aggro[n].inhibited => Asking(n)

\* Nobody attacks without a reason: whom an NPC turns against is one it feels as a
\* threat, one it has felt as such since it asked the oldest question still under way,
\* or the one that has just hit it.  More cannot be promised: an approval may come after
\* the hour in which the AI server reconciled the two, and nothing is looked up again.
FightsOnlyFoes ==
  [][\A n \in Npcs :
       \/ target'[n] \in {target[n], None} \cup foes[n]
       \/ Gain(n, target'[n]) > 0
       \/ target[target'[n]] = n /\ hp'[n] < hp[n]]_vars

\* After a verdict the AI server is not asked about the same one again for as
\* long as the exemption lasts, although scores, threats and answers to older
\* questions are still around.
NoRenewedQuestion ==
  [][\A n, t \in Npcs : questions'[n][t] > questions[n][t] => tick >= exempt[n][t]]_vars
=============================================================================
