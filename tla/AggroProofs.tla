---------------------------- MODULE AggroProofs ----------------------------
(***************************************************************************)
(* Proofs about Aggro, for any number of NPCs and any thresholds, waits    *)
(* and exemptions.                                                         *)
(*                                                                         *)
(* The invariant says how far a late answer can be off: while a question   *)
(* of an NPC is under way, its threat is one it has felt as such since it  *)
(* asked (ThreatIsRemembered), whichever question an approval is for and   *)
(* however the likings change; and between SystemPerception and the turn   *)
(* of an NPC nothing changes what SystemPerception has looked up           *)
(* (TurnIsFresh).                                                          *)
(***************************************************************************)
EXTENDS Aggro, TLAPS

\* Whom an NPC has in its AggroComp as a threat while it waits for an answer, it has felt
\* as one since it asked.
ThreatIsRemembered ==
  \A n \in Npcs : Asking(n) /\ aggro[n].threat # None => aggro[n].threat \in foes[n]

\* While the trees are ticked, a score high enough to act on is about somebody who is
\* felt as a threat and not exempt, and there is room for a question.
TurnIsFresh ==
  phase = "bt" => \A n \in todo :
    /\ AggroHigh(n) => /\ tick >= exempt[n][aggro[n].threat]
                       /\ Gain(n, aggro[n].threat) > 0
    /\ \A t \in Npcs : questions[n][t] < MaxOpen

Inv == TypeOK /\ ThreatIsRemembered /\ TurnIsFresh /\ WaitsForAnswer

-----------------------------------------------------------------------------

LEMMA InitInv == Init => Inv
BY AggroAssumption
   DEF Init, Inv, TypeOK, ThreatIsRemembered, TurnIsFresh, WaitsForAnswer, AggroState, Entity,
       Talk, NoTalk, Asking

\* An AggroComp that holds back no longer.
LEMMA Released ==
  ASSUME NEW a \in AggroState, NEW t \in Entity, NEW score \in 0 .. Full
  PROVE  [threat |-> t, score |-> score, wait |-> a.wait, inhibited |-> FALSE] \in AggroState
<1>1. FALSE \in BOOLEAN /\ a.wait \in 0 .. InhibitTicks + 1
  BY DEF AggroState
<1> QED
  BY <1>1 DEF AggroState

\* What an NPC feels is a number.
LEMMA GainIsNat == \A n, t \in Npcs : Gain(n, t) \in Nat
BY AggroAssumption DEF Gain

\* What SystemPerception leaves behind in an AggroComp: its type, the old threat or the
\* one it has seen, and a full score only for one who is felt and not exempt.
LEMMA PerceivedFresh ==
  ASSUME TypeOK, NEW n \in Npcs, NEW best \in Entity,
         best = None \/ (Looking(n) /\ best \in Felt(n))
  PROVE  LET a == Perceived(n, best) IN
         /\ a \in AggroState
         /\ a.threat \in {None, aggro[n].threat, best}
         /\ a.score >= Full /\ a.threat # None
              => tick >= exempt[n][a.threat] /\ Gain(n, a.threat) > 0
         /\ a.inhibited => aggro[n].inhibited
<1>1. /\ aggro[n] \in AggroState /\ hp[n] \in Nat /\ Full \in Nat \ {0} /\ Calm \in Nat \ {0}
      /\ aggro[n].score \in 0 .. Full
  BY AggroAssumption DEF TypeOK, AggroState
<1>2. best # None => /\ best \in Npcs /\ Gain(n, best) \in Nat /\ Gain(n, best) > 0
                     /\ tick >= exempt[n][best]
  BY AggroAssumption, GainIsNat DEF Felt, Entity
<1>3. best # None => Raised(aggro[n].score, Gain(n, best)) \in 0 .. Full
  BY <1>1, <1>2 DEF Raised
<1> DEFINE Cleared(t) == [threat |-> t, score |-> 0, wait |-> aggro[n].wait, inhibited |-> FALSE]
<1>a. \A t \in Entity : Cleared(t) \in AggroState
  BY <1>1, Released
<1>4. CASE Fighting(n)
  <2>1. Perceived(n, best) = [aggro[n] EXCEPT !.score = 0, !.inhibited = FALSE]
    BY <1>4 DEF Perceived
  <2>2. Perceived(n, best) = Cleared(aggro[n].threat)
    BY <1>1, <2>1 DEF AggroState
  <2>3. Perceived(n, best).inhibited = FALSE
    BY <1>1, <2>1 DEF AggroState
  <2>4. Perceived(n, best).score = 0 /\ Perceived(n, best).threat = aggro[n].threat
    BY <1>1, <2>1 DEF AggroState
  <2> QED BY <1>1, <1>a, <2>2, <2>3, <2>4 DEF ThreatIsRemembered, AggroState
<1>5. CASE ~Fighting(n) /\ hp[n] = 0
  <2>1. Perceived(n, best) = [aggro[n] EXCEPT !.score = 0, !.threat = None, !.inhibited = FALSE]
    BY <1>5 DEF Perceived
  <2>2. Perceived(n, best) = Cleared(None)
    BY <1>1, <2>1 DEF AggroState
  <2>3. Perceived(n, best).inhibited = FALSE /\ Perceived(n, best).threat = None
    BY <1>1, <2>1 DEF AggroState
  <2> QED BY <1>a, <2>2, <2>3 DEF Entity
<1>6. CASE ~Fighting(n) /\ hp[n] > 0 /\ best # None
  <2>1. Perceived(n, best)
        = [aggro[n] EXCEPT !.threat = best, !.score = Raised(@, Gain(n, best))]
    BY <1>1, <1>6 DEF Perceived
  <2> QED BY <1>1, <1>2, <1>3, <1>6, <2>1 DEF AggroState, Entity
<1>7. CASE ~Fighting(n) /\ hp[n] > 0 /\ best = None /\ aggro[n].score > Calm
  <2>1. Perceived(n, best) = [aggro[n] EXCEPT !.score = @ - Calm]
    BY <1>1, <1>7 DEF Perceived
  <2> QED BY <1>1, <1>7, <2>1 DEF AggroState, ThreatIsRemembered
<1>8. CASE ~Fighting(n) /\ hp[n] > 0 /\ best = None /\ aggro[n].score \in 1 .. Calm
  <2>1. Perceived(n, best) = [aggro[n] EXCEPT !.score = 0, !.threat = None, !.inhibited = FALSE]
    BY <1>1, <1>8 DEF Perceived
  <2>2. Perceived(n, best) = Cleared(None)
    BY <1>1, <2>1 DEF AggroState
  <2>3. Perceived(n, best).inhibited = FALSE /\ Perceived(n, best).threat = None
    BY <1>1, <2>1 DEF AggroState
  <2> QED BY <1>a, <2>2, <2>3 DEF Entity
<1>9. CASE ~Fighting(n) /\ hp[n] > 0 /\ best = None /\ aggro[n].score = 0
  <2>1. Perceived(n, best) = aggro[n]
    BY <1>1, <1>9 DEF Perceived
  <2> QED BY <1>1, <1>9, <2>1 DEF ThreatIsRemembered
<1> QED
  BY <1>1, <1>4, <1>5, <1>6, <1>7, <1>8, <1>9

LEMMA PerceiveInv == Inv /\ Perceive => Inv'
<1> SUFFICES ASSUME Inv, Perceive PROVE Inv'
  OBVIOUS
<1> USE DEF Inv
<1>1. PICK best \in [Npcs -> Entity] :
        /\ \A n \in Npcs : best[n] = None \/ (Looking(n) /\ best[n] \in Felt(n))
        /\ aggro' = [n \in Npcs |-> Perceived(n, best[n])]
        /\ foes' = [n \in Npcs |->
             IF Asking(n) THEN foes[n] \cup ({best[n]} \ {None}) ELSE {}]
  BY DEF Perceive
<1>2. ASSUME NEW n \in Npcs
      PROVE  /\ aggro'[n] \in AggroState
             /\ aggro'[n].threat \in {None, aggro[n].threat, best[n]}
             /\ aggro'[n].score >= Full /\ aggro'[n].threat # None
                  => tick >= exempt[n][aggro'[n].threat] /\ Gain(n, aggro'[n].threat) > 0
             /\ aggro'[n].inhibited => aggro[n].inhibited
  <2>1. aggro'[n] = Perceived(n, best[n]) /\ best[n] \in Entity
    BY <1>1, <1>2
  <2>2. best[n] = None \/ (Looking(n) /\ best[n] \in Felt(n))
    BY <1>1, <1>2
  <2> QED
    BY <1>2, <2>1, <2>2, PerceivedFresh
<1>a. foes' \in [Npcs -> SUBSET Npcs]
  <2>1. \A n \in Npcs : foes[n] \in SUBSET Npcs /\ {best[n]} \ {None} \in SUBSET Npcs
    BY <1>1 DEF TypeOK, Entity
  <2> QED
    BY <1>1, <2>1
<1>3. TypeOK'
  BY <1>a, <1>1, <1>2 DEF Perceive, TypeOK, body, social
<1>4. ThreatIsRemembered'
  BY <1>1, <1>2 DEF ThreatIsRemembered, Asking, Perceive
<1>5. TurnIsFresh'
  BY <1>2 DEF TurnIsFresh, AggroHigh, Perceive, Gain
<1>6. WaitsForAnswer'
  BY <1>2 DEF WaitsForAnswer, Perceive, Asking
<1> QED
  BY <1>3, <1>4, <1>5, <1>6

\* The answer of the AI server and what it does to the NPC that asked.
LEMMA AnswerInv == Inv /\ Answer => Inv'
<1> SUFFICES ASSUME Inv, NEW n \in Npcs, NEW about \in Npcs,
                    Approve(n, about) \/ Restrain(n, about) \/ CallFails(n, about)
             PROVE  Inv'
  BY DEF Answer
<1> USE DEF Inv
<1>1. /\ phase = "tasks" /\ questions[n][about] \in 1 .. MaxOpen
      /\ questions' = [questions EXCEPT ![n][about] = @ - 1]
      /\ UNCHANGED <<phase, todo, hp, trees, busy, talk, tick, grudge, foes>>
  BY AggroAssumption DEF Approve, Restrain, CallFails, Answered, social, TypeOK
<1>2. PICK score \in 0 .. Full :
        aggro' = [aggro EXCEPT ![n] = [@ EXCEPT !.score = score, !.inhibited = FALSE]]
  <2>1. LetGo(n, 0) \/ LetGo(n, aggro[n].score)
    BY DEF Approve, Restrain, CallFails
  <2>2. 0 \in 0 .. Full /\ aggro[n].score \in 0 .. Full
    BY AggroAssumption DEF TypeOK, AggroState
  <2> QED
    BY <2>1, <2>2 DEF LetGo
<1>3. /\ aggro' \in [Npcs -> AggroState]
      /\ aggro'[n].inhibited = FALSE
      /\ \A m \in Npcs : aggro'[m].threat = aggro[m].threat
      /\ \A m \in Npcs \ {n} : aggro'[m] = aggro[m]
  <2>1. aggro[n] \in AggroState
    BY DEF TypeOK
  <2>a. aggro'[n] = [aggro[n] EXCEPT !.score = score, !.inhibited = FALSE]
    BY <1>2 DEF TypeOK
  <2>2. aggro'[n] = [threat |-> aggro[n].threat, score |-> score, wait |-> aggro[n].wait,
                     inhibited |-> FALSE]
    BY <2>1, <2>a DEF AggroState
  <2>3. [threat |-> aggro[n].threat, score |-> score, wait |-> aggro[n].wait,
         inhibited |-> FALSE] \in AggroState
    <3>1. aggro[n].threat \in Entity
      BY <2>1 DEF AggroState
    <3> QED BY <2>1, <3>1, Released
  <2> QED
    BY <1>2, <2>2, <2>3 DEF TypeOK
<1>4. questions' \in [Npcs -> [Npcs -> 0 .. MaxOpen]]
  <2>1. questions[n][about] - 1 \in 0 .. MaxOpen
    BY <1>1, AggroAssumption
  <2> QED BY <1>1, <2>1 DEF TypeOK
<1>5. target' \in [Npcs -> Entity] /\ exempt' \in [Npcs -> [Npcs -> Nat]]
  <2>1. aggro[n].threat \in Entity /\ tick + ExemptTicks \in Nat
    BY AggroAssumption DEF TypeOK, AggroState
  <2>2. CASE Approve(n, about)
    BY <2>1, <2>2 DEF Approve, TypeOK
  <2>3. CASE Restrain(n, about)
    BY <2>1, <2>3 DEF Restrain, TypeOK
  <2>4. CASE CallFails(n, about)
    BY <2>4 DEF CallFails, TypeOK
  <2> QED BY <2>2, <2>3, <2>4
<1>6. TypeOK'
  BY <1>1, <1>3, <1>4, <1>5 DEF TypeOK
<1>b. \A m \in Npcs : /\ Asking(m)' => Asking(m)
                      /\ m # n /\ Asking(m) => Asking(m)'
  <2>1. \A m \in Npcs \ {n} : questions'[m] = questions[m]
    BY <1>1 DEF TypeOK
  <2>2. Asking(n)
    BY <1>1, AggroAssumption DEF Asking, TypeOK
  <2> QED
    BY <2>1, <2>2 DEF Asking
<1>7. ThreatIsRemembered' /\ TurnIsFresh'
  BY <1>1, <1>3, <1>b DEF ThreatIsRemembered, TurnIsFresh
<1>8. WaitsForAnswer'
  BY <1>1, <1>3, <1>b DEF WaitsForAnswer
<1> QED
  BY <1>6, <1>7, <1>8

\* The hour, dialogues and SystemDeath: phases in which no turn is open.
LEMMA TasksInv ==
  ASSUME Inv, \/ NewHour \/ Part \/ \E S \in SUBSET Sentient : Meet(S)
              \/ \E a, b \in Sentient : Shun(a, b)
  PROVE  Inv'
<1> USE DEF Inv
<1>1. /\ Tasks /\ tick' \in Nat /\ busy' \in SUBSET Npcs /\ talk' \in Talk
      /\ grudge' \in SUBSET Related
  BY AggroAssumption
     DEF NewHour, Part, Meet, Shun, Tasks, TypeOK, Talk, NoTalk, social
<1>2. exempt' \in [Npcs -> [Npcs -> Nat]]
  <2>1. CASE NewHour
    BY <2>1 DEF NewHour, TypeOK
  <2>2. CASE Part
    <3>1. talk.since + TalkTicks \in Nat
      BY AggroAssumption DEF TypeOK, Talk
    <3>2. exempt \in [Npcs -> [Npcs -> Nat]]
      BY DEF TypeOK
    <3>3. CASE UNCHANGED exempt
      BY <3>2, <3>3
    <3>4. CASE exempt' = [n \in Npcs |-> [t \in Npcs |->
                 IF n # t /\ {n, t} \subseteq talk.who THEN talk.since + TalkTicks
                 ELSE exempt[n][t]]]
      BY <3>1, <3>2, <3>4
    <3> QED
      BY <2>2, <3>3, <3>4 DEF Part
  <2>3. CASE \E S \in SUBSET Sentient : Meet(S)
    BY <2>3 DEF Meet, TypeOK
  <2>4. CASE \E a, b \in Sentient : Shun(a, b)
    BY <2>4, AggroAssumption DEF Shun, TypeOK
  <2> QED
    BY <2>1, <2>2, <2>3, <2>4
<1> QED
  BY <1>1, <1>2 DEF Tasks, TypeOK, body, ThreatIsRemembered, TurnIsFresh, WaitsForAnswer, Asking

\* A turn as far as all turns are alike: what is left is what it does to the NPC
\* itself, which is done with its turn.
LEMMA TurnInv ==
  ASSUME Inv, NEW n \in Npcs, Turn(n),
         \A m \in Npcs \ {n} : /\ aggro'[m] = aggro[m] /\ questions'[m] = questions[m]
                               /\ foes'[m] = foes[m],
         aggro' \in [Npcs -> AggroState],
         aggro'[n].threat = aggro[n].threat,
         target' \in [Npcs -> Entity], hp' \in [Npcs -> 0 .. HitPoints], busy' \in SUBSET Npcs,
         questions' \in [Npcs -> [Npcs -> 0 .. MaxOpen]],
         foes' \in [Npcs -> SUBSET Npcs],
         \/ questions'[n] = questions[n] /\ foes'[n] = foes[n]
         \/ aggro[n].threat \in foes'[n],
         aggro'[n].inhibited => Asking(n)'
  PROVE  Inv'
<1> USE DEF Inv
<1>1. phase = "bt" /\ n \in todo /\ todo' = todo \ {n}
      /\ UNCHANGED <<phase, trees, talk, exempt, tick, grudge>>
  BY DEF Turn
<1>2. TypeOK'
  BY <1>1 DEF TypeOK
<1>3. ThreatIsRemembered'
  BY DEF ThreatIsRemembered, Asking
<1>4. TurnIsFresh'
  BY <1>1 DEF TurnIsFresh, AggroHigh, TypeOK, Gain
<1>5. WaitsForAnswer'
  BY DEF WaitsForAnswer, Asking
<1> QED
  BY <1>2, <1>3, <1>4, <1>5

LEMMA TreeInv ==
  ASSUME Inv, NEW n \in Npcs, Tree(n)
  PROVE  Inv'
<1> USE DEF Inv
<1>1. /\ aggro[n] \in AggroState /\ TypeOK /\ Turn(n)
      /\ aggro[n].inhibited => Asking(n)
  BY DEF TypeOK, WaitsForAnswer, Tree, NotTicked, FleeOrChase, Strike, Peace, Pounce, AskFirst,
         KeepWaiting, GiveUp, HeldBack
<1>2. CASE NotTicked(n) \/ FleeOrChase(n)
  BY <1>1, <1>2, TurnInv DEF Asking, NotTicked, FleeOrChase, TypeOK
<1>3. CASE Strike(n)
  <2>1. target[n] \in Npcs /\ hp[target[n]] \in 1 .. HitPoints
    BY <1>3, AggroAssumption DEF Strike, LivingTarget, Fighting, TypeOK, Entity
  <2>2. hp' \in [Npcs -> 0 .. HitPoints]
    BY <1>3, <2>1, AggroAssumption DEF Strike, TypeOK
  <2>3. target' \in [Npcs -> Entity]
    BY <1>3, <2>1 DEF Strike, TypeOK, Entity
  <2> QED
    BY <1>1, <1>3, <2>2, <2>3, TurnInv DEF Asking, Strike, TypeOK
<1>4. CASE Peace(n)
  BY <1>1, <1>4, TurnInv DEF Asking, Peace, TypeOK, Entity
<1>5. CASE Pounce(n)
  <2>1. aggro'[n] = [aggro[n] EXCEPT !.score = 0] /\ 0 \in 0 .. Full
    BY <1>5, AggroAssumption DEF Pounce, TypeOK
  <2>2. aggro'[n] \in AggroState /\ aggro'[n].threat = aggro[n].threat
        /\ aggro'[n].inhibited = aggro[n].inhibited
    BY <1>1, <2>1 DEF AggroState
  <2>3. aggro' \in [Npcs -> AggroState] /\ target' \in [Npcs -> Entity]
    BY <1>1, <1>5, <2>2 DEF Pounce, TypeOK, AggroState
  <2> QED
    BY <1>1, <1>5, <2>2, <2>3, TurnInv DEF Asking, Pounce, TypeOK
<1>6. CASE AskFirst(n)
  <2> DEFINE about == aggro[n].threat
  <2>1. about \in Npcs /\ questions[n][about] \in 0 .. MaxOpen /\ questions[n][about] < MaxOpen
    BY <1>1, <1>6 DEF AskFirst, HeldBack, AggroHigh, AggroState, Entity, Turn, TurnIsFresh, TypeOK
  <2>2. questions' = [questions EXCEPT ![n][about] = @ + 1]
    BY <1>6 DEF AskFirst
  <2>3. questions' \in [Npcs -> [Npcs -> 0 .. MaxOpen]] /\ Asking(n)'
    BY <2>1, <2>2, AggroAssumption DEF TypeOK, Asking
  <2>8. foes' = [foes EXCEPT ![n] = @ \cup {about}] /\ foes[n] \in SUBSET Npcs
    BY <1>6 DEF AskFirst, TypeOK
  <2>9. foes' \in [Npcs -> SUBSET Npcs] /\ about \in foes'[n]
    BY <2>1, <2>8 DEF TypeOK
  <2>4. aggro'[n] = [aggro[n] EXCEPT !.inhibited = TRUE, !.wait = 1]
        /\ 1 \in 0 .. InhibitTicks + 1
    BY <1>6, AggroAssumption DEF AskFirst, TypeOK
  <2>5. aggro'[n] = [threat |-> about, score |-> aggro[n].score, wait |-> 1, inhibited |-> TRUE]
    BY <1>1, <2>4 DEF AggroState
  <2>6. aggro'[n] \in AggroState /\ aggro'[n].threat = about
    BY <1>1, <2>4, <2>5, TRUE \in BOOLEAN DEF AggroState
  <2>7. aggro' \in [Npcs -> AggroState] /\ target' \in [Npcs -> Entity]
    BY <1>1, <1>6, <2>6 DEF AskFirst, HeldBack, TypeOK, Entity
  <2> QED
    BY <1>1, <1>6, <2>1, <2>2, <2>3, <2>6, <2>7, <2>8, <2>9, TurnInv DEF Asking, AskFirst, HeldBack, TypeOK
<1>7. CASE KeepWaiting(n)
  <2>1. aggro'[n] = [aggro[n] EXCEPT !.wait = aggro[n].wait + 1]
        /\ aggro[n].wait + 1 \in 0 .. InhibitTicks + 1
    BY <1>1, <1>7, AggroAssumption DEF KeepWaiting, TypeOK, AggroState
  <2>2. aggro'[n] \in AggroState /\ aggro'[n].threat = aggro[n].threat
        /\ aggro'[n].inhibited = aggro[n].inhibited
    BY <1>1, <2>1 DEF AggroState
  <2>3. aggro' \in [Npcs -> AggroState] /\ target' \in [Npcs -> Entity]
    BY <1>1, <1>7, <2>2 DEF KeepWaiting, HeldBack, TypeOK, Entity
  <2> QED
    BY <1>1, <1>7, <2>2, <2>3, TurnInv DEF Asking, KeepWaiting, HeldBack, TypeOK
<1>8. CASE GiveUp(n)
  <2>1. aggro'[n] = [aggro[n] EXCEPT !.inhibited = FALSE, !.score = 0, !.wait = InhibitTicks + 1]
        /\ InhibitTicks + 1 \in 0 .. InhibitTicks + 1 /\ 0 \in 0 .. Full
    BY <1>8, AggroAssumption DEF GiveUp, TypeOK
  <2>2. aggro'[n] = [threat |-> aggro[n].threat, score |-> 0, wait |-> InhibitTicks + 1,
                     inhibited |-> FALSE]
    BY <1>1, <2>1 DEF AggroState
  <2>3. aggro'[n] \in AggroState /\ aggro'[n].threat = aggro[n].threat
        /\ aggro'[n].inhibited = FALSE
    BY <1>1, <2>1, <2>2, FALSE \in BOOLEAN DEF AggroState
  <2>4. aggro' \in [Npcs -> AggroState] /\ target' \in [Npcs -> Entity]
    BY <1>1, <1>8, <2>3 DEF GiveUp, HeldBack, TypeOK, Entity
  <2> QED
    BY <1>1, <1>8, <2>3, <2>4, TurnInv DEF Asking, GiveUp, HeldBack, TypeOK
<1> QED
  BY <1>2, <1>3, <1>4, <1>5, <1>6, <1>7, <1>8 DEF Tree

LEMMA DeathInv == Inv /\ SystemDeath => Inv'
BY DEF Inv, SystemDeath, TypeOK, Entity, ThreatIsRemembered, TurnIsFresh, WaitsForAnswer, AggroHigh,
       social, Asking

LEMMA NextInv == Inv /\ [Next]_vars => Inv'
<1> SUFFICES ASSUME Inv, [Next]_vars PROVE Inv'
  OBVIOUS
<1>1. CASE Answer
  BY <1>1, AnswerInv
<1>2. CASE \/ NewHour \/ Part \/ \E S \in SUBSET Sentient : Meet(S)
           \/ \E a, b \in Sentient : Shun(a, b)
  BY <1>2, TasksInv
<1>3. CASE Perceive
  BY <1>3, PerceiveInv
<1>4. CASE \E n \in Npcs : Tree(n)
  BY <1>4, TreeInv
<1>5. CASE SystemDeath
  BY <1>5, DeathInv
<1>6. CASE UNCHANGED vars
  BY <1>6 DEF vars, body, social, Inv, TypeOK, ThreatIsRemembered, TurnIsFresh, WaitsForAnswer,
              AggroHigh, Asking, Gain
<1> QED
  BY <1>1, <1>2, <1>3, <1>4, <1>5, <1>6 DEF Next

\* The invariant holds in every behaviour of frames, answers and hours.
THEOREM InvAlways == Spec => []Inv
BY InitInv, NextInv, PTL DEF Spec

-----------------------------------------------------------------------------
(* The theorems.                                                           *)

\* Scores stay within 0 .. 100, and no pair has more questions under way than the
\* model's bound lets begin.
THEOREM AggroTypeCorrect == Spec => []TypeOK
<1>1. Inv => TypeOK
  BY DEF Inv
<1> QED
  BY <1>1, InvAlways, PTL

\* An NPC that holds back always has a question under way, in whatever order
\* answers, failures, timeouts and new questions come.
THEOREM HoldingBackWaits == Spec => []WaitsForAnswer
<1>1. Inv => WaitsForAnswer
  BY DEF Inv
<1> QED
  BY <1>1, InvAlways, PTL

\* An NPC turns only against one it feels as a threat or has felt as one since it asked,
\* or one that has just hit it, in whatever hour the likings change.
THEOREM OnlyFoesAreFought == Spec => FightsOnlyFoes
<1> DEFINE Foes == \A n \in Npcs :
      \/ target'[n] \in {target[n], None} \cup foes[n]
      \/ Gain(n, target'[n]) > 0
      \/ target[target'[n]] = n /\ hp'[n] < hp[n]
<1>1. ASSUME Inv, [Next]_vars PROVE Foes
  <2> USE <1>1 DEF Inv
  <2>1. CASE Answer
    <3> SUFFICES ASSUME NEW n \in Npcs, NEW about \in Npcs,
                        Approve(n, about) \/ Restrain(n, about) \/ CallFails(n, about)
                 PROVE  Foes
      BY <2>1 DEF Answer
    <3>1. CASE Approve(n, about)
      <4>1. Asking(n) /\ target' = [target EXCEPT ![n] = aggro[n].threat]
        BY <3>1 DEF Approve, Answered, Asking
      <4>2. target'[n] \in {None} \cup foes[n]
        BY <4>1 DEF ThreatIsRemembered, TypeOK
      <4>3. \A m \in Npcs \ {n} : target'[m] = target[m]
        BY <4>1 DEF TypeOK
      <4> QED
        BY <4>2, <4>3
    <3>2. CASE Restrain(n, about) \/ CallFails(n, about)
      BY <3>2 DEF Restrain, CallFails
    <3> QED
      BY <3>1, <3>2
  <2>2. CASE \E n \in Npcs : Tree(n)
    <3> SUFFICES ASSUME NEW n \in Npcs, Tree(n)
                 PROVE  Foes
      BY <2>2
    <3>1. CASE NotTicked(n) \/ FleeOrChase(n)
      BY <3>1 DEF NotTicked, FleeOrChase, TypeOK
    <3>2. CASE Strike(n)
      <4>1. target[n] \in Npcs /\ hp[target[n]] \in Nat /\ hp[target[n]] > 0
        BY <3>2, AggroAssumption DEF Strike, LivingTarget, Fighting, TypeOK, Entity
      <4>2. \A m \in Npcs : \/ target'[m] \in {target[m], None}
                            \/ m = target[n] /\ target'[m] = n
        <5> SUFFICES ASSUME NEW m \in Npcs, target'[m] \notin {target[m], None}
                     PROVE  m = target[n] /\ target'[m] = n
          OBVIOUS
        <5>1. m # n
          BY <3>2 DEF Strike
        <5>2. m = target[n] /\ target[target[n]] = None
          BY <3>2, <5>1 DEF Strike
        <5> QED
          BY <3>2, <5>1, <5>2 DEF Strike
      <4>3. hp'[target[n]] < hp[target[n]]
        BY <3>2, <4>1 DEF Strike, TypeOK
      <4> QED
        BY <4>2, <4>3
    <3>3. CASE Peace(n)
      BY <3>3 DEF Peace, TypeOK
    <3>4. CASE Pounce(n)
      <4>1. Gain(n, aggro[n].threat) > 0
        BY <3>4 DEF Pounce, Turn, TurnIsFresh
      <4> QED
        BY <3>4, <4>1 DEF Pounce, TypeOK
    <3>5. CASE AskFirst(n) \/ KeepWaiting(n) \/ GiveUp(n)
      BY <3>5 DEF AskFirst, KeepWaiting, GiveUp, HeldBack, TypeOK
    <3> QED
      BY <3>1, <3>2, <3>3, <3>4, <3>5 DEF Tree
  <2>3. CASE SystemDeath
    BY <2>3 DEF SystemDeath, TypeOK
  <2>4. CASE \/ NewHour \/ Part \/ \E S \in SUBSET Sentient : Meet(S)
             \/ \E a, b \in Sentient : Shun(a, b)
    BY <2>4 DEF NewHour, Part, Meet, Shun, Tasks, body
  <2>5. CASE Perceive \/ UNCHANGED vars
    BY <2>5 DEF Perceive, vars, body
  <2> QED
    BY <2>1, <2>2, <2>3, <2>4, <2>5 DEF Next
<1>2. Inv /\ [Next]_vars => [Foes]_vars
  BY <1>1
<1> QED
  BY <1>2, InvAlways, PTL DEF Spec, FightsOnlyFoes

\* Only AskFirst begins a question, and only about one who is not exempt.
THEOREM VerdictIsRespected == Spec => NoRenewedQuestion
<1> DEFINE Quiet == \A n, t \in Npcs :
      questions'[n][t] > questions[n][t] => tick >= exempt[n][t]
<1>1. ASSUME Inv, [Next]_vars PROVE Quiet
  <2> USE <1>1 DEF Inv
  <2>0. \A n, t \in Npcs : questions[n][t] \in Nat
    BY AggroAssumption DEF TypeOK
  <2>1. CASE Answer
    <3>1. PICK n \in Npcs, about \in Npcs :
            Approve(n, about) \/ Restrain(n, about) \/ CallFails(n, about)
      BY <2>1 DEF Answer
    <3>2. questions' = [questions EXCEPT ![n][about] = @ - 1]
      BY <3>1 DEF Approve, Restrain, CallFails, Answered
    <3>3. \A m, t \in Npcs : questions'[m][t] \in {questions[m][t], questions[m][t] - 1}
      BY <3>2 DEF TypeOK
    <3> QED
      BY <2>0, <3>3
  <2>2. CASE \E n \in Npcs : Tree(n)
    <3> SUFFICES ASSUME NEW n \in Npcs, Tree(n)
                 PROVE  Quiet
      BY <2>2
    <3>1. CASE AskFirst(n)
      <4>1. aggro[n].threat \in Npcs /\ tick >= exempt[n][aggro[n].threat]
        BY <3>1 DEF AskFirst, HeldBack, Turn, AggroHigh, TurnIsFresh, TypeOK, AggroState, Entity
      <4>2. \A m, t \in Npcs :
              \/ m = n /\ t = aggro[n].threat
              \/ questions'[m][t] = questions[m][t]
        BY <3>1, <4>1 DEF AskFirst, TypeOK
      <4> QED
        BY <2>0, <4>1, <4>2
    <3>2. CASE \/ NotTicked(n) \/ FleeOrChase(n) \/ Strike(n) \/ Peace(n) \/ Pounce(n)
               \/ KeepWaiting(n) \/ GiveUp(n)
      BY <2>0, <3>2 DEF NotTicked, FleeOrChase, Strike, Peace, Pounce, KeepWaiting, GiveUp
    <3> QED
      BY <3>1, <3>2 DEF Tree
  <2>3. CASE \/ NewHour \/ Part \/ \E S \in SUBSET Sentient : Meet(S)
             \/ \E a, b \in Sentient : Shun(a, b)
    BY <2>0, <2>3 DEF NewHour, Part, Meet, Shun, Tasks
  <2>4. CASE Perceive \/ SystemDeath \/ UNCHANGED vars
    BY <2>0, <2>4 DEF Perceive, SystemDeath, vars
  <2> QED
    BY <2>1, <2>2, <2>3, <2>4 DEF Next
<1>2. Inv /\ [Next]_vars => [Quiet]_vars
  BY <1>1
<1> QED
  BY <1>2, InvAlways, PTL DEF Spec, NoRenewedQuestion
=============================================================================
