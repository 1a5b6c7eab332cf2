------------------------ MODULE PlayerDialogueProofs ------------------------
(***************************************************************************)
(* Proofs about PlayerDialogue, for any number of sessions, players, NPCs, *)
(* account names and commands.  IndexSafety alone is not inductive: the    *)
(* cleanup erases an entry by the account of the player it destroys, which *)
(* is harmless only because no other player has that account.  So the      *)
(* invariant also says that every player is the one its account leads to.  *)
(* The second half is about patient clients: what they find in the books   *)
(* of dialogues and BusyTags is right (PatientInv).                        *)
(***************************************************************************)
EXTENDS PatientClients, SequenceTheorems, TLAPS

\* Every player entity is found by the number of its account.
AccountIndexed == \A e \in alive : by_npc_id[id[e]] = e

Inv == TypeOK /\ IndexSafety /\ AccountIndexed /\ NoComponentOnDead

\* What the steps of the background threads and the loads of the queues leave
\* alone: the entities and the indices.
Entities == <<alive, tag, id, playerBusy, dialogue, by_session_index, by_npc_id>>

LEMMA KeepEntities ==
  ASSUME IndexSafety, AccountIndexed, NoComponentOnDead, UNCHANGED Entities
  PROVE  IndexSafety' /\ AccountIndexed' /\ NoComponentOnDead'
BY DEF Entities, IndexSafety, AccountIndexed, NoComponentOnDead

\* Initially there is no player and no entry.
LEMMA InitInv == Init => Inv
BY DialogueAssumption
   DEF Init, Inv, TypeOK, IndexSafety, AccountIndexed, NoComponentOnDead, Ids

LEMMA IoInv ==
  ASSUME Inv, IoNext
  PROVE  Inv'
<1>1. ASSUME NEW s \in Sessions, Connect(s) \/ Disconnect(s)
      PROVE  Inv'
  <2>1. TypeOK'
    BY <1>1 DEF Connect, Disconnect, Inv, TypeOK, world, frame, server
  <2>2. UNCHANGED Entities
    BY <1>1 DEF Connect, Disconnect, world, Entities
  <2>3. QED
    BY <2>1, <2>2, KeepEntities DEF Inv
<1>2. ASSUME NEW c \in Command, Send(c)
      PROVE  Inv'
  <2>1. Append(commands, c) \in Seq(Command)
    BY <1>2 DEF Inv, TypeOK
  <2>2. sentCommands' \in 0 .. MaxCommands
    BY <1>2, DialogueAssumption DEF Send, Inv, TypeOK
  <2>3. TypeOK'
    BY <1>2, <2>1, <2>2 DEF Send, Inv, TypeOK, world, frame, server
  <2>4. UNCHANGED Entities
    BY <1>2 DEF Send, world, Entities
  <2>5. QED
    BY <2>3, <2>4, KeepEntities DEF Inv
<1>3. ASSUME NEW s \in Sessions,
             \/ \E name \in Names : SendLogin(s, name)
             \/ \E n \in Npcs : SendTalk(s, n)
             \/ SendEnd(s)
      PROVE  Inv'
  <2>1. ASSUME NEW name \in Names, SendLogin(s, name) PROVE Inv'
    BY <2>1, <1>2 DEF SendLogin, Command
  <2>2. ASSUME NEW n \in Npcs, SendTalk(s, n) PROVE Inv'
    BY <2>2, <1>2 DEF SendTalk, Command
  <2>3. CASE SendEnd(s)
    <3>1. told[s] \in Nat
      BY DEF Inv, TypeOK
    <3>2. QED
      BY <2>3, <3>1, <1>2 DEF SendEnd, Command
  <2>4. QED
    BY <1>3, <2>1, <2>2, <2>3
<1>4. QED
  BY <1>1, <1>3 DEF IoNext

\* The dialogues open at the AI server that no failed call lost track of.
Traced == ai_open \ stray

\* What a call does there: at most a successful start adds to them, and an end that
\* did not do its work has lost track of its dialogue.
LEMMA AtServerFacts ==
  ASSUME TypeOK, NEW r \in Rpc, NEW ok \in BOOLEAN, NEW acted \in BOOLEAN, ok => acted,
         AtServer(r, ok, acted)
  PROVE  /\ ai_open' \subseteq Nat /\ stray' \subseteq ai_open'
         /\ Traced' \subseteq Traced \cup {r.n}
         /\ ~(ok /\ r.kind = "start") => Traced' \subseteq Traced
         /\ r.kind = "end" => r.sid \notin Traced'
<1>1. CASE r.kind = "start"
  <2>1. r.n \in Nat
    BY DEF Rpc
  <2> QED
    BY <1>1, <2>1 DEF AtServer, Traced, TypeOK
<1>2. CASE r.kind # "start"
  BY <1>2 DEF AtServer, Traced, TypeOK
<1> QED
  BY <1>1, <1>2

LEMMA GrpcInv ==
  ASSUME Inv, GrpcNext
  PROVE  Inv'
<1>1. ASSUME NEW r \in rpcs, NEW ok \in BOOLEAN, NEW acted \in BOOLEAN, Complete(r, ok, acted)
      PROVE  Inv'
  <2>1. r \in Rpc
    BY DEF Inv, TypeOK
  <2>2. Append(write_buffer, [rpc |-> r, ok |-> ok]) \in Seq(Task)
    BY <2>1 DEF Inv, TypeOK, Task
  <2>3. ai_open' \subseteq Nat /\ stray' \subseteq ai_open'
    BY <1>1, <2>1, AtServerFacts DEF Complete, Inv
  <2>4. TypeOK'
    BY <1>1, <2>2, <2>3 DEF Complete, Inv, TypeOK, world, frame
  <2>5. UNCHANGED Entities
    BY <1>1 DEF Complete, world, Entities
  <2>6. QED
    BY <2>4, <2>5, KeepEntities DEF Inv
<1>2. ASSUME NEW r \in rpcs, NEW acted \in BOOLEAN, Lose(r, acted)
      PROVE  Inv'
  <2>1. lost' \in 0 .. MaxLost /\ dropped' \subseteq alive
    BY <1>2, DialogueAssumption DEF Lose, Inv, TypeOK
  <2>2. ai_open' \subseteq Nat /\ stray' \subseteq ai_open'
    BY <1>2, AtServerFacts DEF Lose, Inv, TypeOK
  <2>3. TypeOK'
    BY <1>2, <2>1, <2>2 DEF Lose, Inv, TypeOK, world, frame
  <2>4. UNCHANGED Entities
    BY <1>2 DEF Lose, world, Entities
  <2>5. QED
    BY <2>3, <2>4, KeepEntities DEF Inv
<1>3. ASSUME NEW sid \in closing, NEW acted \in BOOLEAN, CloseAtServer(sid, acted)
      PROVE  Inv'
  <2>1. TypeOK'
    BY <1>3 DEF CloseAtServer, Inv, TypeOK, threads, world, frame
  <2>2. UNCHANGED Entities
    BY <1>3 DEF CloseAtServer, world, Entities
  <2>3. QED
    BY <2>1, <2>2, KeepEntities DEF Inv
<1>4. QED
  BY <1>1, <1>2, <1>3 DEF GrpcNext

-----------------------------------------------------------------------------

\* The swaps of the two queues, the ends of the phases, and what other systems take.
LEMMA PhaseInv ==
  ASSUME Inv, StartDrain \/ StartCleanup \/ FetchCommands \/ EndFrame \/ NpcDialogueTask
  PROVE  Inv'
<1>1. TypeOK'
  <2>1. CASE StartDrain
    BY <2>1 DEF StartDrain, Inv, TypeOK, world, server
  <2>2. CASE StartCleanup
    BY <2>2 DEF StartCleanup, Inv, TypeOK, threads, world, server
  <2>3. CASE FetchCommands
    BY <2>3 DEF FetchCommands, Inv, TypeOK, world, server
  <2>4. CASE EndFrame
    BY <2>4 DEF EndFrame, TagsTaken, Inv, TypeOK, threads, server
  <2>5. CASE NpcDialogueTask
    BY <2>5 DEF NpcDialogueTask, TagsTaken, Inv, TypeOK, threads, frame, server
  <2>6. QED
    BY <2>1, <2>2, <2>3, <2>4, <2>5
<1>2. UNCHANGED Entities
  BY DEF StartDrain, StartCleanup, FetchCommands, EndFrame, NpcDialogueTask, TagsTaken, world,
         Entities
<1>3. QED
  BY <1>1, <1>2, KeepEntities DEF Inv

LEMMA CheckPlayerInv ==
  ASSUME Inv, NEW e \in Ents, CheckPlayer(e)
  PROVE  Inv'
<1>1. TypeOK'
  BY DEF CheckPlayer, Inv, TypeOK, threads, world, server
<1>2. UNCHANGED Entities
  BY DEF CheckPlayer, world, Entities
<1>3. QED
  BY <1>1, <1>2, KeepEntities DEF Inv

\* A task gives a dialogue only to a player that exists.
LEMMA RunTaskInv ==
  ASSUME Inv, RunTask
  PROVE  Inv'
<1> DEFINE task == Head(read_buffer)
           r == task.rpc
<1>1. /\ Tail(read_buffer) \in Seq(Task)
      /\ task \in Task
  BY HeadTailProperties DEF RunTask, Inv, TypeOK
<1>2. r \in Rpc /\ task.ok \in BOOLEAN
  BY <1>1 DEF Task
<1>3. /\ npcBusy' \subseteq Npcs
      /\ playerBusy' \subseteq playerBusy
      /\ told' \in [Sessions -> Nat]
      /\ dialogue' \in [Ents -> Dialogue \cup {Null}]
      /\ \A e \in Ents \ alive : dialogue'[e] = dialogue[e]
  <2>1. CASE r.kind = "start" /\ task.ok /\ DialogueStarted(r)
    <3>1. r.n \in Nat /\ r.npc \in Npcs /\ r.session \in Sessions
      BY <1>2, <2>1 DEF Rpc
    <3>2. [sid |-> r.n, npc |-> r.npc] \in Dialogue
      BY <3>1 DEF Dialogue
    <3> HIDE DEF r, task
    <3>3. QED
      BY <2>1, <3>1, <3>2 DEF DialogueStarted, Inv, TypeOK
  <2>2. CASE r.kind = "start" /\ ~task.ok /\ DialogueFailed(r)
    BY <2>2 DEF DialogueFailed, Inv, TypeOK
  <2>3. CASE r.kind = "end" /\ DialogueEnded(r)
    <3> HIDE DEF r, task
    <3>1. QED
      BY <2>3 DEF DialogueEnded, Inv, TypeOK
  <2>4. QED
    BY <2>1, <2>2, <2>3 DEF RunTask
<1>4. /\ read_buffer' = Tail(read_buffer)
      /\ UNCHANGED <<threads, alive, tag, id, by_session_index, by_npc_id, loggedIn, taken,
                     phase, local_commands, unchecked, to_cleanup, server>>
  BY DEF RunTask
<1> HIDE DEF r, task
<1>5. TypeOK'
  BY <1>1, <1>3, <1>4 DEF Inv, TypeOK, threads, server
<1>6. IndexSafety' /\ AccountIndexed'
  BY <1>4 DEF Inv, IndexSafety, AccountIndexed
<1>7. NoComponentOnDead'
  BY <1>3, <1>4 DEF Inv, NoComponentOnDead
<1>8. QED
  BY <1>5, <1>6, <1>7 DEF Inv

\* The cleanup destroys players together with their index entries, and nobody
\* else's: a session or an account that loses its entry belongs to a player
\* that is destroyed.
LEMMA CleanUpInv ==
  ASSUME Inv, CleanUp
  PROVE  Inv'
<1>1. /\ alive' = alive \ to_cleanup
      /\ tag' = [e \in Ents |-> IF e \in to_cleanup THEN Null ELSE tag[e]]
      /\ id' = [e \in Ents |-> IF e \in to_cleanup THEN Null ELSE id[e]]
      /\ by_session_index' = [s \in Sessions |->
           IF \E e \in to_cleanup : tag[e] = s THEN Null ELSE by_session_index[s]]
      /\ by_npc_id' = [i \in Ids |->
           IF \E e \in to_cleanup : id[e] = i THEN Null ELSE by_npc_id[i]]
      /\ dialogue' = [e \in Ents |-> IF e \in to_cleanup THEN Null ELSE dialogue[e]]
      /\ playerBusy' = playerBusy \ to_cleanup
  BY DEF CleanUp, EraseFromIndex, EndAtServer
<1>2. TypeOK'
  <2>1. /\ npcBusy' \subseteq Npcs /\ dropped' = dropped \ to_cleanup
        /\ phase' = "fetch" /\ to_cleanup' = {} /\ unchecked' = {}
    BY DEF CleanUp, EraseFromIndex, EndAtServer, Inv, TypeOK
  <2>2. UNCHANGED <<conn, commands, sentCommands, rpcs, requests, lost, write_buffer, told,
                    loggedIn, taken, local_commands, read_buffer, ai_open, stray>>
    BY DEF CleanUp, EraseFromIndex, EndAtServer
  <2>a. closing' \subseteq Nat
    BY DEF CleanUp, EndAtServer, Talkers, Inv, TypeOK, Dialogue
  <2>3. /\ alive' \subseteq Ents /\ playerBusy' \subseteq alive'
        /\ dropped' \subseteq alive'
        /\ tag' \in [Ents -> Sessions \cup {Null}]
        /\ id' \in [Ents -> Ids \cup {Null}]
        /\ dialogue' \in [Ents -> Dialogue \cup {Null}]
        /\ by_session_index' \in [Sessions -> Ents \cup {Null}]
        /\ by_npc_id' \in [Ids -> Ents \cup {Null}]
    BY <1>1, <2>1 DEF Inv, TypeOK
  <2>4. \A e \in alive' : tag'[e] # Null /\ id'[e] # Null
    BY <1>1 DEF Inv, TypeOK
  <2>5. QED
    BY <2>1, <2>2, <2>a, <2>3, <2>4 DEF Inv, TypeOK
<1>3. IndexSafety'
  <2>1. ASSUME NEW s \in Sessions, by_session_index'[s] # Null
        PROVE  by_session_index'[s] \in alive' /\ tag'[by_session_index'[s]] = s
    <3>1. /\ by_session_index'[s] = by_session_index[s]
          /\ ~ \E e \in to_cleanup : tag[e] = s
      BY <1>1, <2>1
    <3>2. by_session_index[s] \in alive /\ tag[by_session_index[s]] = s
      BY <2>1, <3>1 DEF Inv, IndexSafety
    <3>3. QED
      BY <1>1, <3>1, <3>2 DEF Inv, TypeOK
  <2>2. ASSUME NEW i \in Ids, by_npc_id'[i] # Null
        PROVE  by_npc_id'[i] \in alive' /\ id'[by_npc_id'[i]] = i
    <3>1. /\ by_npc_id'[i] = by_npc_id[i]
          /\ ~ \E e \in to_cleanup : id[e] = i
      BY <1>1, <2>2
    <3>2. by_npc_id[i] \in alive /\ id[by_npc_id[i]] = i
      BY <2>2, <3>1 DEF Inv, IndexSafety
    <3>3. QED
      BY <1>1, <3>1, <3>2 DEF Inv, TypeOK
  <2>3. QED
    BY <2>1, <2>2 DEF IndexSafety
<1>4. AccountIndexed'
  <2>1. SUFFICES ASSUME NEW e \in alive'
                 PROVE  by_npc_id'[id'[e]] = e
    BY DEF AccountIndexed
  <2>2. e \in alive /\ e \notin to_cleanup /\ id'[e] = id[e] /\ id[e] \in Ids
    BY <1>1, <2>1 DEF Inv, TypeOK
  <2>3. \A f \in to_cleanup : id[f] # id[e]
    BY <2>2 DEF Inv, TypeOK, AccountIndexed
  <2>4. QED
    BY <1>1, <2>2, <2>3 DEF Inv, AccountIndexed
<1>5. NoComponentOnDead'
  BY <1>1 DEF Inv, TypeOK, NoComponentOnDead
<1>6. QED
  BY <1>2, <1>3, <1>4, <1>5 DEF Inv

-----------------------------------------------------------------------------

\* The command that is run next, and the rest of the batch.
LEMMA NextCommandFacts ==
  ASSUME Inv, NEW type, NextCommand(type)
  PROVE  /\ Head(local_commands) \in Command
         /\ Head(local_commands).type = type
         /\ local_commands' \in Seq(Command)
         /\ UNCHANGED <<conn, commands, sentCommands, lost, dropped, write_buffer, phase,
                        read_buffer, unchecked, to_cleanup, ai_open, closing, stray>>
BY HeadTailProperties DEF NextCommand, Inv, TypeOK, server

\* A login puts the player it finds or creates under its session and account,
\* and takes the entry of the session the player had before.
LEMMA LoginInv ==
  ASSUME Inv, Login
  PROVE  Inv'
<1> DEFINE c == Head(local_commands)
           s == c.session
           i == NumericId(c.name)
           old == by_npc_id[i]
<1>1. /\ c \in Command /\ c.type = "login" /\ local_commands' \in Seq(Command)
      /\ UNCHANGED <<conn, commands, sentCommands, lost, dropped, write_buffer, phase,
                     read_buffer, unchecked, to_cleanup, ai_open, closing, stray>>
  BY NextCommandFacts DEF Login, PlayerOf
<1>2. s \in Sessions /\ c.name \in Names
  BY <1>1 DEF Command
<1>3. i \in Ids
  BY DEF NumericId, Ids
<1>4. /\ loggedIn' = [loggedIn EXCEPT ![s] = c.name]
      /\ UNCHANGED <<rpcs, requests, playerBusy, npcBusy, dialogue, told, taken>>
  BY DEF Login, PlayerOf
<1>5. s # Null /\ i # Null
  BY <1>2, <1>3, DialogueAssumption DEF Ids
<1>6. CASE old = Null
  <2>1. PICK e \in NewHandles :
          /\ alive' = alive \cup {e}
          /\ tag' = [tag EXCEPT ![e] = s]
          /\ id' = [id EXCEPT ![e] = i]
          /\ by_npc_id' = [by_npc_id EXCEPT ![i] = e]
          /\ by_session_index' = [by_session_index EXCEPT ![s] = e]
    BY <1>6 DEF Login, PlayerOf
  <2>2. e \in Ents /\ e \notin alive
    BY DEF NewHandles
  <2> HIDE DEF c, s, i, old
  <2>3. TypeOK'
    <3>1. /\ tag' \in [Ents -> Sessions \cup {Null}]
          /\ id' \in [Ents -> Ids \cup {Null}]
          /\ by_npc_id' \in [Ids -> Ents \cup {Null}]
          /\ by_session_index' \in [Sessions -> Ents \cup {Null}]
          /\ loggedIn' \in [Sessions -> Names \cup {Null}]
      BY <1>2, <1>3, <1>4, <2>1, <2>2 DEF Inv, TypeOK
    <3>2. \A f \in alive' : tag'[f] # Null /\ id'[f] # Null
      BY <1>5, <2>1, <2>2 DEF Inv, TypeOK
    <3>3. QED
      BY <1>1, <1>4, <2>1, <2>2, <3>1, <3>2 DEF Inv, TypeOK
  <2>4. IndexSafety'
    BY <1>2, <1>3, <2>1, <2>2 DEF Inv, TypeOK, IndexSafety
  <2>5. AccountIndexed'
    <3>1. \A f \in alive : id[f] \in Ids /\ id[f] # i
      BY <1>6, <2>2, DialogueAssumption DEF Inv, TypeOK, AccountIndexed, old
    <3>2. QED
      BY <1>3, <2>1, <2>2, <3>1 DEF Inv, TypeOK, AccountIndexed
  <2>6. NoComponentOnDead'
    BY <1>4, <2>1 DEF Inv, NoComponentOnDead
  <2>7. QED
    BY <2>3, <2>4, <2>5, <2>6 DEF Inv
<1>7. CASE old # Null
  <2>1. /\ tag' = [tag EXCEPT ![old] = s]
        /\ by_session_index' =
             [[by_session_index EXCEPT ![tag[old]] = Null] EXCEPT ![s] = old]
        /\ UNCHANGED <<alive, id, by_npc_id>>
    BY <1>7 DEF Login, PlayerOf
  <2>2. old \in alive /\ old \in Ents /\ tag[old] \in Sessions
    BY <1>3, <1>7 DEF Inv, TypeOK, IndexSafety
  <2> HIDE DEF c, s, i, old
  <2>3. TypeOK'
    <3>1. /\ tag' \in [Ents -> Sessions \cup {Null}]
          /\ by_session_index' \in [Sessions -> Ents \cup {Null}]
          /\ loggedIn' \in [Sessions -> Names \cup {Null}]
      BY <1>2, <1>4, <2>1, <2>2 DEF Inv, TypeOK
    <3>2. \A f \in alive' : tag'[f] # Null /\ id'[f] # Null
      BY <1>5, <2>1, <2>2 DEF Inv, TypeOK
    <3>3. QED
      BY <1>1, <1>4, <2>1, <3>1, <3>2 DEF Inv, TypeOK
  <2>4. IndexSafety'
    BY <1>2, <2>1, <2>2 DEF Inv, TypeOK, IndexSafety
  <2>5. AccountIndexed' /\ NoComponentOnDead'
    BY <1>4, <2>1 DEF Inv, AccountIndexed, NoComponentOnDead
  <2>6. QED
    BY <2>3, <2>4, <2>5 DEF Inv
<1>8. QED
  BY <1>6, <1>7

\* The commands of a dialogue mark players that exist, and issue RPCs.
LEMMA TalkToNpcInv ==
  ASSUME Inv, TalkToNpc
  PROVE  Inv'
<1> DEFINE c == Head(local_commands)
           player == by_session_index[c.session]
<1>1. /\ c \in Command /\ c.type = "talk" /\ local_commands' \in Seq(Command)
      /\ UNCHANGED <<conn, commands, sentCommands, lost, dropped, write_buffer, phase,
                     read_buffer, unchecked, to_cleanup, ai_open, closing, stray>>
  BY NextCommandFacts DEF TalkToNpc, NotBusy
<1>2. c.session \in Sessions /\ c.npc \in Npcs
  BY <1>1 DEF Command
<1>3. /\ player # Null
      /\ npcBusy' = npcBusy \cup {c.npc}
      /\ playerBusy' = playerBusy \cup {player}
      /\ taken' \subseteq taken
      /\ requests' = requests + 1
      /\ rpcs' = rpcs \cup {[n |-> requests + 1, kind |-> "start", session |-> c.session,
                             player |-> player, npc |-> c.npc]}
      /\ UNCHANGED <<alive, tag, id, dialogue, by_session_index, by_npc_id, told, loggedIn>>
  BY DEF TalkToNpc, NotBusy
<1>4. player \in alive /\ player \in Ents
  BY <1>2, <1>3 DEF Inv, TypeOK, IndexSafety
<1> HIDE DEF c, player
<1>5. rpcs' \subseteq Rpc /\ requests' \in Nat
  BY <1>2, <1>3, <1>4 DEF Rpc, Inv, TypeOK
<1>6. TypeOK'
  BY <1>1, <1>2, <1>3, <1>4, <1>5 DEF Inv, TypeOK
<1>7. IndexSafety' /\ AccountIndexed'
  BY <1>3 DEF Inv, IndexSafety, AccountIndexed
<1>8. NoComponentOnDead'
  BY <1>3, <1>4 DEF Inv, NoComponentOnDead
<1>9. QED
  BY <1>6, <1>7, <1>8 DEF Inv

LEMMA TalkRefusedInv ==
  ASSUME Inv, TalkRefused
  PROVE  Inv'
<1>1. local_commands' \in Seq(Command)
  BY NextCommandFacts DEF TalkRefused
<1>2. TypeOK'
  BY <1>1 DEF TalkRefused, NextCommand, Inv, TypeOK, world, server
<1>3. UNCHANGED Entities
  BY DEF TalkRefused, world, Entities
<1>4. QED
  BY <1>2, <1>3, KeepEntities DEF Inv

LEMMA EndDialogueInv ==
  ASSUME Inv, EndDialogue
  PROVE  Inv'
<1> DEFINE c == Head(local_commands)
           player == by_session_index[c.session]
           npc == IF player # Null /\ dialogue[player] # Null
                    THEN dialogue[player].npc ELSE Null
<1>1. /\ c \in Command /\ c.type = "end" /\ local_commands' \in Seq(Command)
      /\ UNCHANGED <<conn, commands, sentCommands, lost, dropped, write_buffer, phase,
                     read_buffer, unchecked, to_cleanup, ai_open, closing, stray>>
  BY NextCommandFacts DEF EndDialogue
<1>2. c.session \in Sessions /\ c.sid \in Nat
  BY <1>1 DEF Command
<1>3. /\ requests' = requests + 1
      /\ rpcs' = rpcs \cup {[n |-> requests + 1, kind |-> "end", session |-> c.session,
                             player |-> player, npc |-> npc, sid |-> c.sid]}
      /\ UNCHANGED world
  BY DEF EndDialogue
<1>4. player \in Ents \cup {Null}
  BY <1>2 DEF Inv, TypeOK
<1>5. npc \in Npcs \cup {Null}
  BY <1>4 DEF Inv, TypeOK, Dialogue
<1> HIDE DEF c, player, npc
<1>6. rpcs' \subseteq Rpc /\ requests' \in Nat
  BY <1>2, <1>3, <1>4, <1>5 DEF Rpc, Inv, TypeOK
<1>7. TypeOK'
  BY <1>1, <1>3, <1>6 DEF Inv, TypeOK, world
<1>8. UNCHANGED Entities
  BY <1>3 DEF world, Entities
<1>9. QED
  BY <1>7, <1>8, KeepEntities DEF Inv

-----------------------------------------------------------------------------

\* Every step keeps the inductive invariant.
LEMMA StepInv ==
  ASSUME Inv, [Next]_vars
  PROVE  Inv'
<1>1. CASE IoNext
  BY <1>1, IoInv
<1>2. CASE GrpcNext
  BY <1>2, GrpcInv
<1>3. CASE MainNext
  BY <1>3, PhaseInv, CheckPlayerInv, RunTaskInv, CleanUpInv, LoginInv, TalkToNpcInv,
     TalkRefusedInv, EndDialogueInv
     DEF MainNext
<1>4. CASE UNCHANGED vars
  <2>1. TypeOK'
    BY <1>4 DEF vars, threads, world, frame, server, Inv, TypeOK
  <2>2. UNCHANGED Entities
    BY <1>4 DEF vars, world, Entities
  <2>3. QED
    BY <2>1, <2>2, KeepEntities DEF Inv
<1>5. QED
  BY <1>1, <1>2, <1>3, <1>4 DEF Next

\* The inductive invariant holds in every reachable state.
THEOREM DialogueInvariant == Spec => []Inv
<1>1. Inv /\ [Next]_vars => Inv'
  BY StepInv
<1>2. QED
  BY InitInv, <1>1, PTL DEF Spec

\* The state keeps its types: no handler writes what another cannot read.
THEOREM TypeCorrect == Spec => []TypeOK
<1>1. Inv => TypeOK
  BY DEF Inv
<1>2. QED
  BY <1>1, DialogueInvariant, PTL

\* An entry of the index always names a living player of that session or
\* account, so that the unchecked reads of the handlers are safe.
THEOREM IndexAlwaysSafe == Spec => []IndexSafety
<1>1. Inv => IndexSafety
  BY DEF Inv
<1>2. QED
  BY <1>1, DialogueInvariant, PTL

\* However often a player logs in again, its account has one entity.
THEOREM OneEntityPerAccount == Spec => []OnePlayerPerAccount
<1>1. Inv => OnePlayerPerAccount
  BY DEF Inv, AccountIndexed, OnePlayerPerAccount
<1>2. QED
  BY <1>1, DialogueInvariant, PTL

\* Late answers never revive a player that is gone.
THEOREM NothingOnDeadPlayers == Spec => []NoComponentOnDead
<1>1. Inv => NoComponentOnDead
  BY DEF Inv
<1>2. QED
  BY <1>1, DialogueInvariant, PTL

-----------------------------------------------------------------------------
(* Patient clients.  The books of the dialogues are right because a client *)
(* has one thing under way at a time: a command on its way to the main     *)
(* thread, an RPC, or its answer.  Between its command and its answer no   *)
(* other step can then change what the two were about.                     *)

Orders == Range(commands) \cup Range(local_commands)
Tasks == Range(write_buffer) \cup Range(read_buffer)
Calls == rpcs \cup {task.rpc : task \in Tasks}

\* A session waits for one command, RPC or answer at most, which is in one place.
OneAtATime ==
  /\ \A q \in {commands, local_commands, write_buffer, read_buffer} : IsInjective(q)
  /\ Range(commands) \cap Range(local_commands) = {}
  /\ Range(write_buffer) \cap Range(read_buffer) = {}
  /\ \A x, y \in Tasks : x.rpc = y.rpc => x = y
  /\ \A x \in Tasks : x.rpc \notin rpcs
  /\ \A x, y \in Orders : x.session = y.session => x = y
  /\ \A x, y \in Calls : x.session = y.session => x = y
  /\ \A x \in Orders, y \in Calls : x.session # y.session

\* What a system of the frame works on is used up when the next one starts; the
\* cleanup has collected players of closed sessions only.
InTurn ==
  /\ phase # "tasks" => read_buffer = <<>>
  /\ phase # "commands" => local_commands = <<>>
  /\ phase # "cleanup" => to_cleanup = {}
  /\ \A e \in to_cleanup : conn[tag[e]] = "closed"

\* The elements of a queue after a push and after a pop.
LEMMA AppendElements ==
  ASSUME NEW S, NEW q \in Seq(S), NEW x \in S
  PROVE  /\ Range(Append(q, x)) = Range(q) \cup {x}
         /\ IsInjective(q) /\ x \notin Range(q) => IsInjective(Append(q, x))
<1>1. /\ DOMAIN q = 1 .. Len(q) /\ Len(q) \in Nat
      /\ DOMAIN Append(q, x) = 1 .. (Len(q) + 1)
      /\ \A i \in 1 .. Len(q) : Append(q, x)[i] = q[i]
      /\ Append(q, x)[Len(q) + 1] = x
  BY AppendProperties, LenProperties
<1> DEFINE p == Append(q, x)
<1> HIDE DEF p
<1>2. Range(p) = Range(q) \cup {x}
  BY <1>1 DEF Range, p
<1>3. ASSUME IsInjective(q), x \notin Range(q)
      PROVE  IsInjective(p)
  BY <1>1, <1>3 DEF IsInjective, Range, p
<1>4. QED
  BY <1>2, <1>3 DEF p

LEMMA TailElements ==
  ASSUME NEW S, NEW q \in Seq(S), q # <<>>, IsInjective(q)
  PROVE  /\ Head(q) \in Range(q)
         /\ Range(Tail(q)) = Range(q) \ {Head(q)}
         /\ IsInjective(Tail(q))
<1>1. /\ DOMAIN q = 1 .. Len(q) /\ Len(q) \in Nat \ {0}
      /\ DOMAIN Tail(q) = 1 .. (Len(q) - 1)
      /\ \A i \in 1 .. (Len(q) - 1) : Tail(q)[i] = q[i + 1]
      /\ Head(q) = q[1]
  BY HeadTailProperties, LenProperties, EmptySeq
<1> DEFINE p == Tail(q)
           h == Head(q)
<1> HIDE DEF p, h
<1>2. h \in Range(q)
  BY <1>1 DEF Range, h
<1>3. Range(p) \subseteq Range(q) \ {h}
  BY <1>1 DEF Range, IsInjective, p, h
<1>4. ASSUME NEW x \in Range(q) \ {h}
      PROVE  x \in Range(p)
  <2>1. PICK i \in 1 .. Len(q) : x = q[i]
    BY <1>1 DEF Range
  <2>2. i # 1
    BY <1>1, <2>1 DEF h
  <2>3. i - 1 \in 1 .. (Len(q) - 1) /\ (i - 1) + 1 = i
    BY <1>1, <2>2
  <2>4. p[i - 1] = x
    BY <1>1, <2>1, <2>3 DEF p
  <2>5. QED
    BY <1>1, <2>3, <2>4 DEF Range, p
<1>5. IsInjective(p)
  BY <1>1 DEF IsInjective, p
<1>6. QED
  BY <1>2, <1>3, <1>4, <1>5 DEF p, h

LEMMA NoElements == Range(<<>>) = {} /\ IsInjective(<<>>)
BY DEF Range, IsInjective

\* What the queues hold.
LEMMA ElementTypes ==
  ASSUME TypeOK
  PROVE  /\ Range(commands) \subseteq Command /\ Range(local_commands) \subseteq Command
         /\ Range(write_buffer) \subseteq Task /\ Range(read_buffer) \subseteq Task
         /\ Orders \subseteq Command /\ Tasks \subseteq Task /\ Calls \subseteq Rpc
<1>1. /\ Range(commands) \subseteq Command /\ Range(local_commands) \subseteq Command
      /\ Range(write_buffer) \subseteq Task /\ Range(read_buffer) \subseteq Task
  BY RangeOfSeq DEF TypeOK
<1>2. QED
  BY <1>1 DEF Orders, Tasks, Calls, Task, TypeOK

\* A settled session has nothing in any of the five places.
LEMMA SettledFacts ==
  ASSUME NEW s, Settled(s)
  PROVE  /\ \A x \in Orders : x.session # s
         /\ \A x \in Calls : x.session # s
<1>1. \A x \in Orders : x.session # s
  BY DEF Settled, Orders, Range
<1>2. \A task \in Tasks : task.rpc.session # s
  BY DEF Settled, Tasks, Range
<1>3. QED
  BY <1>1, <1>2 DEF Settled, Calls

\* A command of a settled session is the only thing it waits for.
LEMMA SendTraffic ==
  ASSUME TypeOK, OneAtATime, NEW c \in Command, Send(c), Settled(c.session)
  PROVE  /\ OneAtATime'
         /\ Orders' = Orders \cup {c} /\ Tasks' = Tasks /\ Calls' = Calls
<1>1. /\ \A x \in Orders : x.session # c.session
      /\ \A x \in Calls : x.session # c.session
  BY SettledFacts
<1>2. c \notin Orders
  BY <1>1
<1>3. /\ Range(commands') = Range(commands) \cup {c}
      /\ IsInjective(commands')
  <2>1. c \notin Range(commands)
    BY <1>2 DEF Orders
  <2>2. QED
    BY <2>1, AppendElements DEF Send, TypeOK, OneAtATime
<1>4. UNCHANGED <<rpcs, write_buffer, local_commands, read_buffer>>
  BY DEF Send, frame
<1>5. Orders' = Orders \cup {c} /\ Tasks' = Tasks /\ Calls' = Calls
  BY <1>3, <1>4 DEF Orders, Tasks, Calls
<1>6. Range(commands') \cap Range(local_commands') = {}
  BY <1>2, <1>3, <1>4 DEF OneAtATime, Orders
<1>7. QED
  BY <1>1, <1>3, <1>4, <1>5, <1>6 DEF OneAtATime

\* The swap of the command queue moves the commands and nothing else.
LEMMA FetchTraffic ==
  ASSUME TypeOK, OneAtATime, InTurn, FetchCommands
  PROVE  OneAtATime' /\ Orders' = Orders /\ Tasks' = Tasks /\ Calls' = Calls
<1>1. /\ local_commands = <<>> /\ commands' = <<>> /\ local_commands' = commands
      /\ UNCHANGED <<rpcs, write_buffer, read_buffer>>
  BY DEF FetchCommands, InTurn
<1>2. Orders' = Orders /\ Tasks' = Tasks /\ Calls' = Calls
  BY <1>1, NoElements DEF Orders, Tasks, Calls
<1>3. QED
  BY <1>1, <1>2, NoElements DEF OneAtATime

LEMMA DrainTraffic ==
  ASSUME TypeOK, OneAtATime, InTurn, StartDrain
  PROVE  OneAtATime' /\ Orders' = Orders /\ Tasks' = Tasks /\ Calls' = Calls
<1>1. /\ read_buffer = <<>> /\ write_buffer' = <<>> /\ read_buffer' = write_buffer
      /\ UNCHANGED <<rpcs, commands, local_commands>>
  BY DEF StartDrain, InTurn
<1>2. Orders' = Orders /\ Tasks' = Tasks /\ Calls' = Calls
  BY <1>1, NoElements DEF Orders, Tasks, Calls
<1>3. QED
  BY <1>1, <1>2, NoElements DEF OneAtATime

\* An RPC that ends leaves its place to its answer.
LEMMA CompleteTraffic ==
  ASSUME TypeOK, OneAtATime, NEW r \in rpcs, NEW ok \in BOOLEAN, NEW acted \in BOOLEAN,
         Complete(r, ok, acted)
  PROVE  /\ OneAtATime' /\ Orders' = Orders /\ Calls' = Calls
         /\ Tasks' = Tasks \cup {[rpc |-> r, ok |-> ok]}
<1> DEFINE task == [rpc |-> r, ok |-> ok]
<1>1. task \notin Tasks
  BY DEF OneAtATime
<1>2. task \in Task
  BY DEF Task, TypeOK
<1>3. /\ Range(write_buffer') = Range(write_buffer) \cup {task}
      /\ IsInjective(write_buffer')
  BY <1>1, <1>2, AppendElements DEF Complete, TypeOK, OneAtATime, Tasks
<1>4. /\ rpcs' = rpcs \ {r}
      /\ UNCHANGED <<commands, local_commands, read_buffer>>
  BY DEF Complete, frame
<1>5. task.rpc = r
  OBVIOUS
<1> HIDE DEF task
<1>6. Orders' = Orders /\ Tasks' = Tasks \cup {task}
  BY <1>3, <1>4 DEF Orders, Tasks
<1>7. Calls' = Calls
  BY <1>4, <1>5, <1>6 DEF Calls
<1>8. Range(write_buffer') \cap Range(read_buffer') = {}
  BY <1>1, <1>3, <1>4 DEF OneAtATime, Tasks
<1>9. /\ \A x, y \in Tasks' : x.rpc = y.rpc => x = y
      /\ \A x \in Tasks' : x.rpc \notin rpcs'
  BY <1>4, <1>5, <1>6 DEF OneAtATime
<1>10. QED
  BY <1>3, <1>4, <1>6, <1>7, <1>8, <1>9 DEF OneAtATime, task

LEMMA LoseTraffic ==
  ASSUME TypeOK, OneAtATime, NEW r \in rpcs, NEW acted \in BOOLEAN, Lose(r, acted)
  PROVE  OneAtATime' /\ Orders' = Orders /\ Tasks' = Tasks /\ Calls' = Calls \ {r}
<1>1. /\ rpcs' = rpcs \ {r}
      /\ UNCHANGED <<commands, local_commands, write_buffer, read_buffer>>
  BY DEF Lose, frame
<1>2. Orders' = Orders /\ Tasks' = Tasks
  BY <1>1 DEF Orders, Tasks
<1>3. Calls' = Calls \ {r}
  BY <1>1, <1>2 DEF Calls, OneAtATime
<1>4. QED
  BY <1>1, <1>2, <1>3 DEF OneAtATime

\* A task that is run is the last trace of its RPC.
LEMMA TaskTraffic ==
  ASSUME TypeOK, OneAtATime, RunTask
  PROVE  /\ OneAtATime' /\ Orders' = Orders
         /\ Head(read_buffer) \in Tasks
         /\ Tasks' = Tasks \ {Head(read_buffer)}
         /\ Calls' = Calls \ {Head(read_buffer).rpc}
<1> DEFINE task == Head(read_buffer)
<1>1. /\ task \in Range(read_buffer)
      /\ Range(read_buffer') = Range(read_buffer) \ {task}
      /\ IsInjective(read_buffer')
  BY TailElements DEF RunTask, TypeOK, OneAtATime
<1>2. UNCHANGED <<rpcs, commands, local_commands, write_buffer>>
  BY DEF RunTask, threads
<1> HIDE DEF task
<1>3. Orders' = Orders /\ task \in Tasks
  BY <1>1, <1>2 DEF Orders, Tasks
<1>4. Tasks' = Tasks \ {task}
  BY <1>1, <1>2 DEF Tasks, OneAtATime
<1>5. Calls' = Calls \ {task.rpc}
  BY <1>2, <1>3, <1>4 DEF Calls, OneAtATime
<1>6. Range(write_buffer') \cap Range(read_buffer') = {}
  BY <1>1, <1>2 DEF OneAtATime
<1>7. QED
  BY <1>1, <1>2, <1>3, <1>4, <1>5, <1>6 DEF OneAtATime, task

\* A command that is run is gone, and may have left an RPC of its session.
LEMMA CommandTraffic ==
  ASSUME TypeOK, OneAtATime, NEW type, NextCommand(type), NEW R \in SUBSET Rpc,
         rpcs' = rpcs \cup R,
         \A r \in R : r.session = Head(local_commands).session,
         \A r, q \in R : r = q
  PROVE  /\ OneAtATime'
         /\ Head(local_commands) \in Orders
         /\ Orders' = Orders \ {Head(local_commands)}
         /\ Tasks' = Tasks /\ Calls' = Calls \cup R
<1> DEFINE c == Head(local_commands)
<1>1. /\ c \in Range(local_commands)
      /\ Range(local_commands') = Range(local_commands) \ {c}
      /\ IsInjective(local_commands')
  BY TailElements DEF NextCommand, TypeOK, OneAtATime
<1>2. UNCHANGED <<commands, write_buffer, read_buffer>>
  BY DEF NextCommand
<1> HIDE DEF c
<1>3. Orders' = Orders \ {c} /\ c \in Orders
  BY <1>1, <1>2 DEF Orders, OneAtATime
<1>4. Tasks' = Tasks /\ Calls' = Calls \cup R
  BY <1>2 DEF Tasks, Calls
<1>5. \A r \in R : r \notin Calls
  BY <1>3 DEF OneAtATime, c
<1>6. \A x \in Tasks' : x.rpc \notin rpcs'
  BY <1>4, <1>5 DEF OneAtATime, Calls
<1>7. \A x, y \in Calls' : x.session = y.session => x = y
  BY <1>3, <1>4 DEF OneAtATime, c
<1>8. \A x \in Orders', y \in Calls' : x.session # y.session
  BY <1>3, <1>4 DEF OneAtATime, c
<1>9. Range(commands') \cap Range(local_commands') = {}
  BY <1>1, <1>2 DEF OneAtATime
<1>10. QED
  BY <1>1, <1>2, <1>3, <1>4, <1>6, <1>7, <1>8, <1>9 DEF OneAtATime, c

-----------------------------------------------------------------------------

\* Whoever waits is connected; a session that has an entry in the index has
\* logged in, to the account of the player that the entry names.
Connected ==
  /\ \A x \in Orders \cup Calls : conn[x.session] = "open"
  /\ \A s \in Sessions : loggedIn[s] # Null => conn[s] # "new"
  /\ \A e \in alive : conn[tag[e]] # "new"
  /\ \A s \in Sessions : by_session_index[s] # Null =>
       loggedIn[s] # Null /\ id[by_session_index[s]] = NumericId(loggedIn[s])

\* A login on its way is for an account that no other connected client has.
LoginsApart ==
  \A c \in Orders : c.type = "login" =>
    /\ \A s \in Sessions \ {c.session} :
         conn[s] = "open" /\ loggedIn[s] # Null => NumericId(loggedIn[s]) # NumericId(c.name)
    /\ \A d \in Orders : d.type = "login" => d.session = c.session

\* What a client saw when it sent its command is still so when the command runs.
OrdersFit ==
  \A c \in Orders : by_session_index[c.session] # Null =>
    LET player == by_session_index[c.session]
    IN  /\ c.type = "talk" => dialogue[player] = Null
        /\ c.type = "end" => dialogue[player] # Null /\ dialogue[player].sid = c.sid

\* The player an RPC was issued for is still that of the session.
Caller(r) ==
  /\ r.player \in alive /\ tag[r.player] = r.session
  /\ loggedIn[r.session] # Null /\ id[r.player] = NumericId(loggedIn[r.session])

\* Until a request to talk is answered its player is in no dialogue, and no dialogue has
\* its number.
StartsFit ==
  \A r \in Calls : r.kind = "start" =>
    /\ Caller(r) /\ dialogue[r.player] = Null
    /\ \A e \in Talkers(alive) : dialogue[e].sid # r.n

\* The NPC of a request to talk is kept for the player that asked for it, unless its
\* BusyTag was taken away.
Kept(r) ==
  /\ r.npc \in npcBusy
  /\ \A e \in Talkers(alive) : dialogue[e].npc # r.npc
  /\ \A q \in Calls : q.kind = "start" /\ q.npc = r.npc => q = r

StartsKept == \A r \in Calls : r.kind = "start" => r.npc \in taken \/ Kept(r)

\* The end of a dialogue will release the NPC of that dialogue, and once its call is
\* answered the AI server has ended it or the call has failed.
EndsFit ==
  \A r \in Calls : r.kind = "end" =>
    \/ r.player = Null /\ r.npc = Null
    \/ /\ Caller(r)
       /\ IF dialogue[r.player] = Null
            THEN r.npc = Null
            ELSE /\ r.npc = dialogue[r.player].npc /\ r.sid = dialogue[r.player].sid
                 /\ r \in rpcs \/ r.sid \notin Traced

\* Requests and the dialogues they opened have numbers of their own.
Numbered ==
  /\ \A r \in Calls : r.n <= requests /\ \A q \in Calls : q.n = r.n => q = r
  /\ \A e \in Talkers(alive) : dialogue[e].sid <= requests

\* BusyNpcAccounted and NoOrphanDialogue, in terms of the sets above; a lost
\* callback is the one way an NPC is forgotten.
Accounted ==
  lost = 0 =>
    \A n \in npcBusy :
      \/ \E r \in Calls : r.kind = "start" /\ r.npc = n
      \/ \E e \in Talkers(alive) : dialogue[e].npc = n

Known ==
  \A sid \in Traced :
    \/ \E e \in Talkers(alive) : dialogue[e].sid = sid
    \/ \E task \in Tasks : task.ok /\ task.rpc.kind = "start" /\ task.rpc.n = sid
    \/ sid \in closing

Books ==
  /\ Connected /\ LoginsApart /\ OrdersFit /\ StartsFit /\ StartsKept /\ EndsFit
  /\ Numbered /\ Accounted /\ Known /\ NpcKeptForTalk

PatientInv == OneAtATime /\ InTurn /\ Books

\* A step that at most uses up a command leaves the books as they are.
LEMMA KeepBooks ==
  ASSUME Books, Orders' \subseteq Orders, Calls' = Calls, Tasks' = Tasks,
         UNCHANGED <<conn, world, requests, lost, rpcs, server>>
  PROVE  Books'
<1>1. Connected'
  BY DEF Books, Connected, world
<1>2. LoginsApart'
  BY DEF Books, LoginsApart, world
<1>3. OrdersFit'
  BY DEF Books, OrdersFit, world
<1>4. Talkers(alive)' = Talkers(alive)
  BY DEF Talkers, world
<1>5. StartsFit' /\ StartsKept'
  BY <1>4 DEF Books, StartsFit, StartsKept, Kept, Caller, world
<1>a. EndsFit'
  BY DEF Books, EndsFit, Caller, Traced, world, server
<1>6. Numbered' /\ Accounted' /\ Known'
  BY <1>4 DEF Books, Numbered, Accounted, Known, Traced, world, server
<1>7. NpcKeptForTalk'
  BY <1>4 DEF Books, NpcKeptForTalk, world
<1>8. QED
  BY <1>1, <1>2, <1>3, <1>5, <1>a, <1>6, <1>7 DEF Books

LEMMA InitPatientInv == Init => PatientInv
<1> SUFFICES ASSUME Init
             PROVE  PatientInv
  OBVIOUS
<1>1. Orders = {} /\ Tasks = {} /\ Calls = {}
  BY NoElements DEF Init, Orders, Tasks, Calls
<1>2. OneAtATime
  BY <1>1, NoElements DEF Init, OneAtATime
<1>3. InTurn
  BY DEF Init, InTurn
<1>4. Talkers(alive) = {}
  BY DEF Init, Talkers
<1>5. Books
  <2>1. Connected
    BY <1>1 DEF Init, Connected
  <2>2. LoginsApart /\ OrdersFit /\ StartsFit /\ StartsKept /\ EndsFit
    BY <1>1 DEF LoginsApart, OrdersFit, StartsFit, StartsKept, EndsFit
  <2>3. Numbered /\ Accounted /\ Known
    BY <1>1, <1>4 DEF Init, Numbered, Accounted, Known, Traced
  <2>4. NpcKeptForTalk
    BY <1>4 DEF NpcKeptForTalk
  <2>5. QED
    BY <2>1, <2>2, <2>3, <2>4 DEF Books
<1>6. QED
  BY <1>2, <1>3, <1>5 DEF PatientInv

\* A client comes, or goes with nothing of its own under way.
LEMMA ConnectionBooks ==
  ASSUME Inv, PatientInv, NEW s \in Sessions,
         Connect(s) \/ (Settled(s) /\ Disconnect(s))
  PROVE  PatientInv'
<1>1. /\ UNCHANGED <<commands, rpcs, requests, lost, write_buffer, world, frame, server>>
      /\ \/ conn[s] = "new" /\ conn' = [conn EXCEPT ![s] = "open"]
         \/ conn[s] = "open" /\ conn' = [conn EXCEPT ![s] = "closed"] /\ Settled(s)
  BY DEF Connect, Disconnect
<1>2. Orders' = Orders /\ Tasks' = Tasks /\ Calls' = Calls
  BY <1>1 DEF Orders, Tasks, Calls, frame
<1>3. OneAtATime'
  BY <1>1, <1>2 DEF PatientInv, OneAtATime, frame
<1>4. /\ Orders \subseteq Command /\ Calls \subseteq Rpc
      /\ \A x \in Orders \cup Calls : x.session \in Sessions
  BY ElementTypes DEF Inv, Command, Rpc
<1>5. conn \in [Sessions -> {"new", "open", "closed"}] /\ conn' \in [Sessions -> {"new", "open", "closed"}]
  BY <1>1 DEF Inv, TypeOK
<1>6. \A t \in Sessions : t # s => conn'[t] = conn[t]
  BY <1>1, <1>5
<1>7. \A e \in alive : tag[e] \in Sessions
  BY DEF Inv, TypeOK
<1>8. InTurn'
  <2>1. \A e \in to_cleanup : conn'[tag[e]] = "closed"
    BY <1>1, <1>5, <1>7 DEF PatientInv, InTurn, Inv, TypeOK
  <2>2. QED
    BY <1>1, <2>1 DEF PatientInv, InTurn, frame, world
<1>9. Connected'
  <2>1. \A x \in Orders \cup Calls : conn'[x.session] = "open"
    <3>1. ASSUME NEW x \in Orders \cup Calls
          PROVE  conn'[x.session] = "open"
      <4>1. conn[x.session] = "open" /\ x.session \in Sessions
        BY <1>4 DEF PatientInv, Books, Connected
      <4>2. Settled(s) => x.session # s
        BY SettledFacts
      <4>3. QED
        BY <1>1, <1>5, <4>1, <4>2
    <3>2. QED
      BY <3>1
  <2>2. \A t \in Sessions : conn[t] # "new" => conn'[t] # "new"
    BY <1>1, <1>5
  <2>3. QED
    BY <1>1, <1>2, <1>7, <2>1, <2>2 DEF PatientInv, Books, Connected, world
<1>10. LoginsApart'
  <2>1. \A t \in Sessions : conn'[t] = "open" /\ loggedIn[t] # Null => conn[t] = "open"
    BY <1>1, <1>5 DEF PatientInv, Books, Connected
  <2>2. QED
    BY <1>1, <1>2, <2>1 DEF PatientInv, Books, LoginsApart, world
<1>11. OrdersFit'
  BY <1>1, <1>2 DEF PatientInv, Books, OrdersFit, world
<1>12. Talkers(alive)' = Talkers(alive)
  BY <1>1 DEF Talkers, world
<1>13. StartsFit' /\ StartsKept'
  BY <1>1, <1>2, <1>12 DEF PatientInv, Books, StartsFit, StartsKept, Kept, Caller, world
<1>a. EndsFit'
  BY <1>1, <1>2 DEF PatientInv, Books, EndsFit, Caller, Traced, world, server
<1>14. Numbered' /\ Accounted' /\ Known'
  BY <1>1, <1>2, <1>12 DEF PatientInv, Books, Numbered, Accounted, Known, Traced, world, server
<1>15. NpcKeptForTalk'
  BY <1>1, <1>12 DEF PatientInv, Books, NpcKeptForTalk, world
<1>16. QED
  BY <1>3, <1>8, <1>9, <1>10, <1>11, <1>13, <1>a, <1>14, <1>15 DEF PatientInv, Books

\* What a patient client sends fits the state it is sent in.
LEMMA SendBooks ==
  ASSUME Inv, PatientInv, NEW c \in Command, Send(c), Settled(c.session),
         c.type = "login" => AccountFree(c.session, c.name),
         c.type = "talk" => dialogue[by_session_index[c.session]] = Null,
         c.type = "end" =>
           /\ dialogue[by_session_index[c.session]] # Null
           /\ dialogue[by_session_index[c.session]].sid = c.sid
  PROVE  PatientInv'
<1>1. /\ OneAtATime'
      /\ Orders' = Orders \cup {c} /\ Tasks' = Tasks /\ Calls' = Calls
  BY SendTraffic DEF Inv, PatientInv
<1>2. UNCHANGED <<conn, rpcs, requests, lost, write_buffer, world, frame, server>>
  BY DEF Send
<1>3. InTurn'
  BY <1>2 DEF PatientInv, InTurn, frame, world
<1>4. conn[c.session] = "open"
  BY DEF Send
<1>5. Connected'
  BY <1>1, <1>2, <1>4 DEF PatientInv, Books, Connected, world
<1>6. LoginsApart'
  <2>1. CASE c.type = "login"
    <3>1. \A d \in Orders : d.type # "login"
      BY <2>1 DEF AccountFree, Orders, Range
    <3>2. \A s \in Sessions \ {c.session} :
            conn[s] = "open" /\ loggedIn[s] # Null =>
              NumericId(loggedIn[s]) # NumericId(c.name)
      BY <2>1 DEF AccountFree
    <3>3. QED
      BY <1>1, <1>2, <3>1, <3>2 DEF LoginsApart, world
  <2>2. CASE c.type # "login"
    BY <1>1, <1>2, <2>2 DEF PatientInv, Books, LoginsApart, world
  <2>3. QED
    BY <2>1, <2>2
<1>7. OrdersFit'
  BY <1>1, <1>2 DEF PatientInv, Books, OrdersFit, world
<1>8. Talkers(alive)' = Talkers(alive)
  BY <1>2 DEF Talkers, world
<1>9. StartsFit' /\ StartsKept'
  BY <1>1, <1>2, <1>8 DEF PatientInv, Books, StartsFit, StartsKept, Kept, Caller, world
<1>a. EndsFit'
  BY <1>1, <1>2 DEF PatientInv, Books, EndsFit, Caller, Traced, world, server
<1>10. Numbered' /\ Accounted' /\ Known'
  BY <1>1, <1>2, <1>8 DEF PatientInv, Books, Numbered, Accounted, Known, Traced, world, server
<1>11. NpcKeptForTalk'
  BY <1>2, <1>8 DEF PatientInv, Books, NpcKeptForTalk, world
<1>12. QED
  BY <1>1, <1>3, <1>5, <1>6, <1>7, <1>9, <1>a, <1>10, <1>11 DEF PatientInv, Books

LEMMA PatientIoBooks ==
  ASSUME Inv, PatientInv, PatientIoNext
  PROVE  PatientInv'
<1>1. PICK s \in Sessions : Connect(s) \/ (Settled(s) /\ Patient(s))
  BY DEF PatientIoNext
<1>2. CASE Connect(s) \/ (Settled(s) /\ Disconnect(s))
  BY <1>2, ConnectionBooks
<1>3. ASSUME Settled(s), NEW name \in Names, AccountFree(s, name), SendLogin(s, name)
      PROVE  PatientInv'
  <2> DEFINE c == [type |-> "login", session |-> s, name |-> name]
  <2>1. c \in Command /\ c.session = s /\ c.type = "login" /\ c.name = name
    BY DEF Command
  <2>2. Send(c)
    BY <1>3 DEF SendLogin
  <2> HIDE DEF c
  <2>3. QED
    BY <1>3, <2>1, <2>2, SendBooks
<1>4. ASSUME Settled(s), dialogue[Player(s)] = Null, NEW n \in Npcs, SendTalk(s, n)
      PROVE  PatientInv'
  <2> DEFINE c == [type |-> "talk", session |-> s, npc |-> n]
  <2>1. c \in Command /\ c.session = s /\ c.type = "talk"
    BY DEF Command
  <2>2. Send(c)
    BY <1>4 DEF SendTalk
  <2> HIDE DEF c
  <2>3. QED
    BY <1>4, <2>1, <2>2, SendBooks DEF Player
<1>5. ASSUME Settled(s), dialogue[Player(s)] # Null, dialogue[Player(s)].sid = told[s],
             SendEnd(s)
      PROVE  PatientInv'
  <2> DEFINE c == [type |-> "end", session |-> s, sid |-> told[s]]
  <2>1. c \in Command /\ c.session = s /\ c.type = "end" /\ c.sid = told[s]
    BY DEF Command, Inv, TypeOK
  <2>2. Send(c)
    BY <1>5 DEF SendEnd
  <2> HIDE DEF c
  <2>3. QED
    BY <1>5, <2>1, <2>2, SendBooks DEF Player
<1>6. QED
  BY <1>1, <1>2, <1>3, <1>4, <1>5 DEF Patient

\* An answer takes the place of its RPC; the dialogue it may have opened is new.
LEMMA CompleteBooks ==
  ASSUME Inv, PatientInv, NEW r \in rpcs, NEW ok \in BOOLEAN, NEW acted \in BOOLEAN,
         Complete(r, ok, acted)
  PROVE  PatientInv'
<1> DEFINE task == [rpc |-> r, ok |-> ok]
<1>1. /\ OneAtATime' /\ Orders' = Orders /\ Calls' = Calls
      /\ Tasks' = Tasks \cup {task}
  BY CompleteTraffic DEF Inv, PatientInv
<1>2. /\ UNCHANGED <<conn, requests, lost, world, frame, closing>>
      /\ rpcs' = rpcs \ {r} /\ (ok => acted) /\ AtServer(r, ok, acted)
  BY DEF Complete
<1>a. /\ Traced' \subseteq Traced \cup {r.n}
      /\ ~(ok /\ r.kind = "start") => Traced' \subseteq Traced
      /\ r.kind = "end" => r.sid \notin Traced'
  BY <1>2, AtServerFacts DEF Inv, TypeOK
<1>3. task.rpc = r /\ task.ok = ok
  OBVIOUS
<1> HIDE DEF task
<1>4. r \in Calls
  BY DEF Calls
<1>5. InTurn'
  BY <1>2 DEF PatientInv, InTurn, frame, world
<1>6. Connected' /\ LoginsApart' /\ OrdersFit'
  BY <1>1, <1>2 DEF PatientInv, Books, Connected, LoginsApart, OrdersFit, world
<1>7. Talkers(alive)' = Talkers(alive)
  BY <1>2 DEF Talkers, world
<1>8. StartsFit' /\ StartsKept'
  BY <1>1, <1>2, <1>7 DEF PatientInv, Books, StartsFit, StartsKept, Kept, Caller, world
<1>9. EndsFit'
  <2>1. ASSUME NEW e \in Talkers(alive), r.kind = "start"
        PROVE  dialogue[e].sid # r.n
    BY <1>4, <2>1 DEF PatientInv, Books, StartsFit
  <2>2. \A q \in Calls : Caller(q) /\ dialogue[q.player] # Null => q.player \in Talkers(alive)
    BY DEF Caller, Talkers
  <2>3. dialogue' = dialogue /\ \A q \in Calls : Caller(q)' <=> Caller(q)
    BY <1>2 DEF Caller, world
  <2>4. ASSUME NEW q \in Calls, q.kind = "end", Caller(q), dialogue[q.player] # Null
        PROVE  q \in rpcs' \/ q.sid \notin Traced'
    <3>1. q.sid = dialogue[q.player].sid /\ (q \in rpcs \/ q.sid \notin Traced)
      BY <2>4, DialogueAssumption DEF PatientInv, Books, EndsFit, Caller, Inv, TypeOK
    <3>2. CASE q = r
      BY <1>a, <2>4, <3>2
    <3>3. CASE q # r
      <4>1. r.kind = "start" => q.sid # r.n
        BY <2>1, <2>2, <2>4, <3>1
      <4>2. r.kind = "start" \/ r.kind = "end"
        BY DEF Inv, TypeOK, Rpc
      <4>3. QED
        BY <1>2, <1>a, <3>1, <3>3, <4>1, <4>2
    <3>4. QED
      BY <3>2, <3>3
  <2>5. QED
    BY <1>1, <2>3, <2>4 DEF PatientInv, Books, EndsFit
<1>10. Numbered' /\ Accounted'
  BY <1>1, <1>2, <1>7 DEF PatientInv, Books, Numbered, Accounted, world
<1>11. Known'
  BY <1>1, <1>2, <1>a, <1>3, <1>7 DEF PatientInv, Books, Known, world
<1>12. NpcKeptForTalk'
  BY <1>2, <1>7 DEF PatientInv, Books, NpcKeptForTalk, world
<1>13. QED
  BY <1>1, <1>5, <1>6, <1>8, <1>9, <1>10, <1>11, <1>12 DEF PatientInv, Books

\* A lost callback takes its RPC away, and with it what it had to release.
LEMMA LoseBooks ==
  ASSUME Inv, PatientInv, NEW r \in rpcs, NEW acted \in BOOLEAN, Lose(r, acted)
  PROVE  PatientInv'
<1>1. OneAtATime' /\ Orders' = Orders /\ Tasks' = Tasks /\ Calls' = Calls \ {r}
  BY LoseTraffic DEF Inv, PatientInv
<1>2. /\ UNCHANGED <<conn, requests, world, frame, closing>> /\ lost' # 0
      /\ rpcs' = rpcs \ {r} /\ AtServer(r, FALSE, acted)
  <2>1. lost \in Nat /\ lost' = lost + 1
    BY DEF Lose, Inv, TypeOK
  <2>2. lost' # 0
    BY <2>1
  <2>3. QED
    BY <2>2 DEF Lose
<1>a. Traced' \subseteq Traced
  BY <1>2, AtServerFacts DEF Inv, TypeOK
<1>3. InTurn'
  BY <1>2 DEF PatientInv, InTurn, frame, world
<1>4. Connected' /\ LoginsApart' /\ OrdersFit'
  BY <1>1, <1>2 DEF PatientInv, Books, Connected, LoginsApart, OrdersFit, world
<1>5. Talkers(alive)' = Talkers(alive)
  BY <1>2 DEF Talkers, world
<1>6. StartsFit' /\ StartsKept'
  BY <1>1, <1>2, <1>5 DEF PatientInv, Books, StartsFit, StartsKept, Kept, Caller, world
<1>b. EndsFit'
  BY <1>1, <1>2, <1>a DEF PatientInv, Books, EndsFit, Caller, world
<1>7. Numbered' /\ Accounted' /\ Known'
  BY <1>1, <1>2, <1>a, <1>5 DEF PatientInv, Books, Numbered, Accounted, Known, world
<1>8. NpcKeptForTalk'
  BY <1>2, <1>5 DEF PatientInv, Books, NpcKeptForTalk, world
<1>9. QED
  BY <1>1, <1>3, <1>4, <1>6, <1>b, <1>7, <1>8 DEF PatientInv, Books

\* The end of a call of the cleanup, which nobody here waits for.
LEMMA CloseBooks ==
  ASSUME Inv, PatientInv, NEW sid \in closing, NEW acted \in BOOLEAN,
         CloseAtServer(sid, acted)
  PROVE  PatientInv'
<1>1. /\ UNCHANGED <<threads, world, frame>> /\ closing' = closing \ {sid}
      /\ Traced' \subseteq Traced \ {sid}
  BY DEF CloseAtServer, Traced
<1>2. Orders' = Orders /\ Tasks' = Tasks /\ Calls' = Calls
  BY <1>1 DEF Orders, Tasks, Calls, threads, frame
<1>3. OneAtATime'
  BY <1>1, <1>2 DEF PatientInv, OneAtATime, threads, frame
<1>4. InTurn'
  BY <1>1 DEF PatientInv, InTurn, threads, frame, world
<1>5. Connected' /\ LoginsApart' /\ OrdersFit'
  BY <1>1, <1>2 DEF PatientInv, Books, Connected, LoginsApart, OrdersFit, threads, world
<1>6. Talkers(alive)' = Talkers(alive)
  BY <1>1 DEF Talkers, world
<1>7. StartsFit' /\ StartsKept'
  BY <1>1, <1>2, <1>6 DEF PatientInv, Books, StartsFit, StartsKept, Kept, Caller, world
<1>8. EndsFit'
  BY <1>1, <1>2 DEF PatientInv, Books, EndsFit, Caller, threads, world
<1>9. Numbered' /\ Accounted' /\ Known'
  BY <1>1, <1>2, <1>6 DEF PatientInv, Books, Numbered, Accounted, Known, threads, world
<1>10. NpcKeptForTalk'
  BY <1>1, <1>6 DEF PatientInv, Books, NpcKeptForTalk, world
<1>11. QED
  BY <1>3, <1>4, <1>5, <1>7, <1>8, <1>9, <1>10 DEF PatientInv, Books

\* What other systems take is taken from nobody who still counts on it.
LEMMA TakenBooks ==
  ASSUME Inv, PatientInv, NEW S \in SUBSET npcBusy, TagsTaken(S),
         UNCHANGED <<threads, local_commands, read_buffer, unchecked, to_cleanup, server>>,
         phase' = phase \/ (read_buffer = <<>> /\ local_commands = <<>> /\ to_cleanup = {})
  PROVE  PatientInv'
<1>1. /\ npcBusy' = npcBusy \ S /\ taken' = taken \cup S
      /\ UNCHANGED <<alive, tag, id, dialogue, by_session_index, loggedIn>>
  BY DEF TagsTaken
<1>2. Orders' = Orders /\ Tasks' = Tasks /\ Calls' = Calls
  BY DEF Orders, Tasks, Calls, threads
<1>3. OneAtATime'
  BY <1>2 DEF PatientInv, OneAtATime, threads
<1>4. InTurn'
  BY <1>1 DEF PatientInv, InTurn, threads
<1>5. Connected' /\ LoginsApart' /\ OrdersFit'
  BY <1>1, <1>2 DEF PatientInv, Books, Connected, LoginsApart, OrdersFit, threads
<1>6. Talkers(alive)' = Talkers(alive)
  BY <1>1 DEF Talkers
<1>7. StartsFit'
  BY <1>1, <1>2, <1>6 DEF PatientInv, Books, StartsFit, Caller
<1>8. StartsKept'
  BY <1>1, <1>2, <1>6 DEF PatientInv, Books, StartsKept, Kept
<1>9. EndsFit'
  BY <1>1, <1>2 DEF PatientInv, Books, EndsFit, Caller, Traced, threads, server
<1>10. Numbered' /\ Accounted' /\ Known'
  BY <1>1, <1>2, <1>6
     DEF PatientInv, Books, Numbered, Accounted, Known, Traced, threads, server
<1>11. NpcKeptForTalk'
  BY <1>1, <1>6 DEF PatientInv, Books, NpcKeptForTalk
<1>12. QED
  BY <1>3, <1>4, <1>5, <1>7, <1>8, <1>9, <1>10, <1>11 DEF PatientInv, Books

\* The swaps of the two queues, the cleanup's look at one player, and the ends
\* of the phases.
LEMMA PhaseBooks ==
  ASSUME Inv, PatientInv,
         \/ StartDrain \/ StartCleanup \/ FetchCommands
         \/ \E e \in Ents : CheckPlayer(e)
  PROVE  PatientInv'
<1>1. OneAtATime' /\ Orders' = Orders /\ Tasks' = Tasks /\ Calls' = Calls
  <2>1. CASE StartDrain
    BY <2>1, DrainTraffic DEF Inv, PatientInv
  <2>2. CASE FetchCommands
    BY <2>2, FetchTraffic DEF Inv, PatientInv
  <2>3. CASE StartCleanup \/ \E e \in Ents : CheckPlayer(e)
    <3>1. UNCHANGED <<commands, local_commands, rpcs, write_buffer, read_buffer>>
      BY <2>3 DEF StartCleanup, CheckPlayer, threads
    <3>2. QED
      BY <3>1 DEF OneAtATime, PatientInv, Orders, Tasks, Calls
  <2>4. QED
    BY <2>1, <2>2, <2>3
<1>2. UNCHANGED <<conn, world, requests, lost, rpcs, server>>
  BY DEF StartDrain, StartCleanup, FetchCommands, CheckPlayer, threads
<1>3. Books'
  BY <1>1, <1>2, KeepBooks DEF PatientInv
<1>4. InTurn'
  <2>1. CASE StartDrain
    BY <2>1 DEF StartDrain, PatientInv, InTurn, world
  <2>2. CASE StartCleanup
    BY <2>2 DEF StartCleanup, PatientInv, InTurn, world, threads
  <2>3. CASE FetchCommands
    BY <2>3 DEF FetchCommands, PatientInv, InTurn, world
  <2>4. ASSUME NEW e \in Ents, CheckPlayer(e)
        PROVE  InTurn'
    <3>1. e \in alive /\ tag[e] \in Sessions
      BY <2>4 DEF CheckPlayer, Inv, TypeOK
    <3>2. conn[tag[e]] # "open" => conn[tag[e]] = "closed"
      BY <3>1 DEF PatientInv, Books, Connected, Inv, TypeOK
    <3>3. QED
      BY <2>4, <3>2 DEF CheckPlayer, PatientInv, InTurn, world, threads
  <2>5. QED
    BY <2>1, <2>2, <2>3, <2>4
<1>5. QED
  BY <1>1, <1>3, <1>4 DEF PatientInv

LEMMA TakingBooks ==
  ASSUME Inv, PatientInv, EndFrame \/ NpcDialogueTask
  PROVE  PatientInv'
<1>1. CASE EndFrame
  <2>1. PICK S \in SUBSET npcBusy : TagsTaken(S)
    BY <1>1 DEF EndFrame
  <2>2. read_buffer = <<>> /\ local_commands = <<>> /\ to_cleanup = {}
    BY <1>1 DEF EndFrame, PatientInv, InTurn
  <2>3. UNCHANGED <<threads, local_commands, read_buffer, unchecked, to_cleanup, server>>
    BY <1>1 DEF EndFrame
  <2>4. QED
    BY <2>1, <2>2, <2>3, TakenBooks
<1>2. CASE NpcDialogueTask
  <2>1. PICK S \in SUBSET npcBusy : TagsTaken(S)
    BY <1>2 DEF NpcDialogueTask
  <2>2. UNCHANGED <<threads, phase, local_commands, read_buffer, unchecked, to_cleanup,
                    server>>
    BY <1>2 DEF NpcDialogueTask, frame
  <2>3. QED
    BY <2>1, <2>2, TakenBooks
<1>3. QED
  BY <1>1, <1>2

\* The cleanup destroys players of closed sessions; whoever waits for an answer,
\* or has a command on its way, has an open one.
LEMMA CleanUpBooks ==
  ASSUME Inv, PatientInv, CleanUp
  PROVE  PatientInv'
<1>1. /\ phase = "cleanup" /\ phase' = "fetch" /\ to_cleanup' = {}
      /\ alive' = alive \ to_cleanup
      /\ npcBusy' = npcBusy \ {dialogue[e].npc : e \in Talkers(to_cleanup)}
      /\ closing' = closing \cup {dialogue[e].sid : e \in Talkers(to_cleanup)}
      /\ tag' = [e \in Ents |-> IF e \in to_cleanup THEN Null ELSE tag[e]]
      /\ id' = [e \in Ents |-> IF e \in to_cleanup THEN Null ELSE id[e]]
      /\ by_session_index' = [s \in Sessions |->
           IF \E e \in to_cleanup : tag[e] = s THEN Null ELSE by_session_index[s]]
      /\ dialogue' = [e \in Ents |-> IF e \in to_cleanup THEN Null ELSE dialogue[e]]
      /\ UNCHANGED <<conn, commands, rpcs, requests, lost, write_buffer, loggedIn, taken,
                     local_commands, read_buffer, ai_open, stray>>
  BY DEF CleanUp, EraseFromIndex, EndAtServer
<1>2. Orders' = Orders /\ Tasks' = Tasks /\ Calls' = Calls
  BY <1>1 DEF Orders, Tasks, Calls
<1>3. OneAtATime'
  BY <1>1, <1>2 DEF PatientInv, OneAtATime
<1>4. InTurn'
  BY <1>1 DEF PatientInv, InTurn
<1>5. /\ to_cleanup \subseteq alive /\ alive \subseteq Ents
      /\ \A e \in Ents \ to_cleanup :
           tag'[e] = tag[e] /\ id'[e] = id[e] /\ dialogue'[e] = dialogue[e]
  BY <1>1 DEF Inv, TypeOK
<1>6. \A s \in Sessions : by_session_index'[s] # Null =>
        /\ by_session_index'[s] = by_session_index[s]
        /\ by_session_index[s] \in alive \ to_cleanup
  BY <1>1 DEF Inv, TypeOK, IndexSafety
<1>7. \A e \in to_cleanup : conn[tag[e]] = "closed"
  BY DEF PatientInv, InTurn
<1>8. \A e \in Ents : e \in Talkers(alive)' <=> e \in Talkers(alive) \ to_cleanup
  BY <1>1, <1>5 DEF Talkers
<1>9. \A r \in Calls : Caller(r) =>
        r.player \in alive \ to_cleanup /\ Caller(r)'
  <2>1. ASSUME NEW r \in Calls, Caller(r)
        PROVE  r.player \in alive \ to_cleanup /\ Caller(r)'
    <3>1. conn[tag[r.player]] = "open"
      BY <2>1 DEF Caller, PatientInv, Books, Connected
    <3>2. r.player \in alive \ to_cleanup
      BY <1>7, <2>1, <3>1 DEF Caller
    <3>3. QED
      BY <1>1, <1>5, <2>1, <3>2 DEF Caller
  <2>2. QED
    BY <2>1
<1>10. Connected'
  <2>1. \A x \in Orders' \cup Calls' : conn'[x.session] = "open"
    BY <1>1, <1>2 DEF PatientInv, Books, Connected
  <2>2. \A s \in Sessions : loggedIn'[s] # Null => conn'[s] # "new"
    BY <1>1 DEF PatientInv, Books, Connected
  <2>3. \A e \in alive' : conn'[tag'[e]] # "new"
    BY <1>1, <1>5 DEF PatientInv, Books, Connected
  <2>4. \A s \in Sessions : by_session_index'[s] # Null =>
          loggedIn'[s] # Null /\ id'[by_session_index'[s]] = NumericId(loggedIn'[s])
    BY <1>1, <1>5, <1>6 DEF PatientInv, Books, Connected
  <2>5. QED
    BY <2>1, <2>2, <2>3, <2>4 DEF Connected
<1>11. LoginsApart'
  BY <1>1, <1>2 DEF PatientInv, Books, LoginsApart
<1>12. OrdersFit'
  <2>1. \A c \in Orders : c.session \in Sessions
    BY ElementTypes DEF Inv, Command
  <2>2. QED
    BY <1>2, <1>5, <1>6, <2>1 DEF PatientInv, Books, OrdersFit
<1>13. \A e \in Talkers(alive)' :
         e \in Talkers(alive) /\ e \notin to_cleanup /\ dialogue'[e] = dialogue[e]
  BY <1>1, <1>5, <1>8 DEF Talkers
<1>14. StartsFit'
  <2>1. ASSUME NEW r \in Calls, r.kind = "start"
        PROVE  /\ Caller(r)' /\ dialogue'[r.player] = Null
               /\ \A e \in Talkers(alive)' : dialogue'[e].sid # r.n
    <3>1. /\ Caller(r) /\ dialogue[r.player] = Null
          /\ \A e \in Talkers(alive) : dialogue[e].sid # r.n
      BY <2>1 DEF PatientInv, Books, StartsFit
    <3>2. Caller(r)' /\ dialogue'[r.player] = Null
      BY <1>5, <1>9, <3>1
    <3>3. QED
      BY <1>13, <3>1, <3>2
  <2>2. QED
    BY <1>2, <2>1 DEF StartsFit
<1>a. \A e \in Talkers(to_cleanup) : e \in Talkers(alive)
  BY <1>5 DEF Talkers
<1>b. StartsKept'
  <2>1. ASSUME NEW r \in Calls, Kept(r)
        PROVE  Kept(r)'
    <3>1. r.npc \in npcBusy'
      BY <1>1, <1>a, <2>1 DEF Kept
    <3>2. \A e \in Talkers(alive)' : dialogue'[e].npc # r.npc
      BY <1>13, <2>1 DEF Kept
    <3>3. QED
      BY <1>2, <2>1, <3>1, <3>2 DEF Kept
  <2>2. QED
    BY <1>1, <1>2, <2>1 DEF PatientInv, Books, StartsKept
<1>15. EndsFit'
  <2>1. ASSUME NEW r \in Calls, r.kind = "end", Caller(r)
        PROVE  Caller(r)' /\ dialogue'[r.player] = dialogue[r.player]
    BY <1>5, <1>9, <2>1
  <2>2. rpcs' = rpcs /\ Traced' = Traced
    BY <1>1 DEF Traced
  <2>3. QED
    BY <1>2, <2>1, <2>2 DEF PatientInv, Books, EndsFit
<1>16. Numbered'
  BY <1>1, <1>2, <1>13 DEF PatientInv, Books, Numbered
<1>17. Accounted'
  <2>1. ASSUME lost = 0, NEW n \in npcBusy'
        PROVE  \/ \E r \in Calls : r.kind = "start" /\ r.npc = n
               \/ \E e \in Talkers(alive)' : dialogue'[e].npc = n
    <3>1. n \in npcBusy /\ \A e \in Talkers(to_cleanup) : dialogue[e].npc # n
      BY <1>1, <2>1
    <3>2. ASSUME NEW e \in Talkers(alive), dialogue[e].npc = n
          PROVE  e \in Talkers(alive)' /\ dialogue'[e].npc = n
      <4>1. e \notin to_cleanup
        BY <3>1, <3>2 DEF Talkers
      <4>2. QED
        BY <1>5, <1>8, <3>2, <4>1 DEF Talkers
    <3>3. QED
      BY <2>1, <3>1, <3>2 DEF PatientInv, Books, Accounted
  <2>2. QED
    BY <1>1, <1>2, <2>1 DEF Accounted
<1>18. Known'
  <2>1. Traced' = Traced /\ closing \subseteq closing'
    BY <1>1 DEF Traced
  <2>2. ASSUME NEW sid \in Traced, NEW e \in Talkers(alive), dialogue[e].sid = sid,
               sid \notin closing'
        PROVE  e \in Talkers(alive)' /\ dialogue'[e].sid = sid
    <3>1. e \notin to_cleanup
      BY <1>1, <2>2 DEF Talkers
    <3>2. QED
      BY <1>5, <1>8, <2>2, <3>1 DEF Talkers
  <2>3. QED
    BY <1>2, <2>1, <2>2 DEF PatientInv, Books, Known
<1>19. NpcKeptForTalk'
  <2>1. ASSUME NEW e \in Talkers(alive)', dialogue'[e].npc \notin taken
        PROVE  /\ dialogue'[e].npc \in npcBusy'
               /\ \A f \in Talkers(alive)' : dialogue'[f].npc = dialogue'[e].npc => f = e
    <3>1. e \in Talkers(alive) /\ e \notin to_cleanup /\ dialogue'[e] = dialogue[e]
      BY <1>13
    <3>2. /\ dialogue[e].npc \in npcBusy
          /\ \A f \in Talkers(alive) : dialogue[f].npc = dialogue[e].npc => f = e
      BY <2>1, <3>1 DEF PatientInv, Books, NpcKeptForTalk
    <3>3. \A f \in Talkers(to_cleanup) : dialogue[f].npc # dialogue[e].npc
      BY <1>a, <3>1, <3>2 DEF Talkers
    <3>4. dialogue'[e].npc \in npcBusy'
      BY <1>1, <3>1, <3>2, <3>3
    <3>5. ASSUME NEW f \in Talkers(alive)', dialogue'[f].npc = dialogue'[e].npc
          PROVE  f = e
      BY <1>13, <3>1, <3>2, <3>5
    <3>6. QED
      BY <3>4, <3>5
  <2>2. QED
    BY <1>1, <2>1 DEF NpcKeptForTalk
<1>20. QED
  BY <1>3, <1>4, <1>10, <1>11, <1>12, <1>14, <1>b, <1>15, <1>16, <1>17, <1>18, <1>19
     DEF PatientInv, Books

-----------------------------------------------------------------------------

\* A task concerns a player that no command and no other RPC concerns.
LEMMA TaskFacts ==
  ASSUME Inv, PatientInv, RunTask,
         NEW r, r = Head(read_buffer).rpc,
         \A e \in Ents : e # r.player => dialogue'[e] = dialogue[e],
         Caller(r) \/ dialogue' = dialogue
  PROVE  /\ r \in Calls /\ r \in Rpc /\ Calls' = Calls \ {r} /\ Orders' = Orders
         /\ Head(read_buffer) \in Tasks /\ Tasks' = Tasks \ {Head(read_buffer)}
         /\ UNCHANGED <<conn, rpcs, requests, lost, alive, tag, id, by_session_index,
                        loggedIn, taken, closing>>
         /\ Traced' = Traced /\ r \notin rpcs
         /\ OneAtATime' /\ InTurn' /\ Connected' /\ LoginsApart' /\ OrdersFit'
         /\ \A q \in Calls : Caller(q)' <=> Caller(q)
         /\ \A q \in Calls \ {r} : Caller(q) => dialogue'[q.player] = dialogue[q.player]
<1>1. /\ OneAtATime' /\ Orders' = Orders
      /\ Head(read_buffer) \in Tasks /\ Tasks' = Tasks \ {Head(read_buffer)}
      /\ Calls' = Calls \ {r}
  BY TaskTraffic DEF Inv, PatientInv
<1>2. r \in Calls /\ r \in Rpc
  BY <1>1, ElementTypes DEF Calls, Inv
<1>3. UNCHANGED <<conn, rpcs, requests, lost, alive, tag, id, by_session_index, loggedIn,
                  taken, phase, local_commands, to_cleanup, closing>>
  BY DEF RunTask, threads, server
<1>a. Traced' = Traced
  BY DEF RunTask, server, Traced
<1>b. r \notin rpcs
  BY <1>1 DEF PatientInv, OneAtATime
<1>4. InTurn'
  BY <1>3 DEF RunTask, PatientInv, InTurn
<1>5. Connected' /\ LoginsApart'
  BY <1>1, <1>3 DEF PatientInv, Books, Connected, LoginsApart
<1>6. OrdersFit'
  <2>1. ASSUME NEW c \in Orders, by_session_index[c.session] # Null
        PROVE  dialogue'[by_session_index[c.session]] = dialogue[by_session_index[c.session]]
    <3>1. c.session \in Sessions
      BY ElementTypes DEF Inv, Command
    <3>2. /\ by_session_index[c.session] \in Ents
          /\ tag[by_session_index[c.session]] = c.session
      BY <2>1, <3>1 DEF Inv, TypeOK, IndexSafety
    <3>3. c.session # r.session
      BY <1>2 DEF PatientInv, OneAtATime
    <3>4. QED
      BY <3>2, <3>3 DEF Caller
  <2>2. QED
    BY <1>1, <1>3, <2>1 DEF PatientInv, Books, OrdersFit
<1>7. \A q \in Calls : Caller(q)' <=> Caller(q)
  BY <1>3 DEF Caller
<1>8. ASSUME NEW q \in Calls \ {r}, Caller(q)
      PROVE  dialogue'[q.player] = dialogue[q.player]
  <2>1. q.session # r.session
    BY <1>2 DEF PatientInv, OneAtATime
  <2>2. q.player \in Ents
    BY <1>8 DEF Caller, Inv, TypeOK
  <2>3. QED
    BY <1>8, <2>1, <2>2 DEF Caller
<1>9. QED
  BY <1>1, <1>2, <1>3, <1>a, <1>b, <1>4, <1>5, <1>6, <1>7, <1>8

\* A dialogue that was opened takes over the NPC that was kept for it.
LEMMA StartedBooks ==
  ASSUME Inv, PatientInv, RunTask,
         NEW task, task = Head(read_buffer), NEW r, r = task.rpc,
         r.kind = "start", task.ok, DialogueStarted(r)
  PROVE  PatientInv'
<1>1. r \in Calls
  BY TaskTraffic DEF Inv, PatientInv, Calls
<1>2. /\ Caller(r) /\ dialogue[r.player] = Null
      /\ \A e \in Talkers(alive) : dialogue[e].sid # r.n
      /\ r.npc \in taken \/ Kept(r)
  BY <1>1 DEF PatientInv, Books, StartsFit, StartsKept
<1>3. r.player \in alive /\ r.player \in Ents
  BY <1>2 DEF Caller, Inv, TypeOK
<1>4. /\ dialogue'[r.player] = [sid |-> r.n, npc |-> r.npc]
      /\ \A e \in Ents : e # r.player => dialogue'[e] = dialogue[e]
      /\ npcBusy' = npcBusy
  BY <1>3 DEF DialogueStarted, Inv, TypeOK
<1>5. /\ r \in Rpc /\ Calls' = Calls \ {r} /\ Orders' = Orders
      /\ task \in Tasks /\ Tasks' = Tasks \ {task}
      /\ UNCHANGED <<conn, rpcs, requests, lost, alive, tag, id, by_session_index,
                     loggedIn, taken, closing>>
      /\ Traced' = Traced /\ r \notin rpcs
      /\ OneAtATime' /\ InTurn' /\ Connected' /\ LoginsApart' /\ OrdersFit'
      /\ \A q \in Calls : Caller(q)' <=> Caller(q)
      /\ \A q \in Calls \ {r} : Caller(q) => dialogue'[q.player] = dialogue[q.player]
  BY <1>2, <1>4, TaskFacts
<1>6. /\ dialogue'[r.player].sid = r.n /\ dialogue'[r.player].npc = r.npc
      /\ dialogue'[r.player] # Null
  <2>1. r.n \in Nat /\ r.npc \in Npcs
    BY <1>5 DEF Rpc
  <2>2. dialogue'[r.player] # Null
    <3>1. [sid |-> r.n, npc |-> r.npc] \in Dialogue
      BY <2>1 DEF Dialogue
    <3>2. QED
      BY <1>4, <3>1, DialogueAssumption
  <2>3. QED
    BY <1>4, <2>2
<1>7. \A e \in Talkers(alive)' :
        e = r.player \/ (e \in Talkers(alive) /\ dialogue'[e] = dialogue[e])
  BY <1>4, <1>5 DEF Talkers, Inv, TypeOK
<1>8. \A e \in Talkers(alive) : e \in Talkers(alive)' /\ dialogue'[e] = dialogue[e]
  BY <1>2, <1>4, <1>5 DEF Talkers, Inv, TypeOK
<1>9. r.player \in Talkers(alive)'
  BY <1>3, <1>5, <1>6 DEF Talkers
<1>10. StartsFit'
  <2>1. ASSUME NEW q \in Calls', q.kind = "start"
        PROVE  /\ Caller(q)' /\ dialogue'[q.player] = Null
               /\ \A e \in Talkers(alive)' : dialogue'[e].sid # q.n
    <3>1. q \in Calls /\ q # r
      BY <1>5
    <3>2. /\ Caller(q) /\ dialogue[q.player] = Null
          /\ \A e \in Talkers(alive) : dialogue[e].sid # q.n
      BY <2>1, <3>1 DEF PatientInv, Books, StartsFit
    <3>3. q.n # r.n
      BY <1>1, <3>1 DEF PatientInv, Books, Numbered
    <3>4. QED
      BY <1>5, <1>6, <1>7, <3>1, <3>2, <3>3
  <2>2. QED
    BY <2>1 DEF StartsFit
<1>11. StartsKept'
  <2>1. ASSUME NEW q \in Calls', q.kind = "start", Kept(q)
        PROVE  Kept(q)'
    <3>1. q \in Calls /\ q # r
      BY <1>5
    <3>2. q.npc # r.npc
      BY <1>1, <2>1, <3>1 DEF Kept
    <3>3. \A e \in Talkers(alive)' : dialogue'[e].npc # q.npc
      BY <1>6, <1>7, <2>1, <3>2 DEF Kept
    <3>4. QED
      BY <1>4, <1>5, <2>1, <3>3 DEF Kept
  <2>2. QED
    BY <1>5, <2>1 DEF PatientInv, Books, StartsKept
<1>12. EndsFit'
  BY <1>5 DEF PatientInv, Books, EndsFit
<1>13. Numbered'
  BY <1>1, <1>5, <1>6, <1>7 DEF PatientInv, Books, Numbered
<1>14. Accounted'
  BY <1>4, <1>5, <1>6, <1>8, <1>9 DEF PatientInv, Books, Accounted
<1>15. Known'
  BY <1>5, <1>6, <1>8, <1>9 DEF PatientInv, Books, Known
<1>16. NpcKeptForTalk'
  <2>1. ASSUME NEW e \in Talkers(alive)', dialogue'[e].npc \notin taken
        PROVE  /\ dialogue'[e].npc \in npcBusy
               /\ \A f \in Talkers(alive)' : dialogue'[f].npc = dialogue'[e].npc => f = e
    <3>1. CASE e = r.player
      <4>1. Kept(r) /\ dialogue'[e].npc = r.npc
        BY <1>2, <1>6, <2>1, <3>1
      <4>2. QED
        BY <1>7, <3>1, <4>1 DEF Kept
    <3>2. CASE e # r.player
      <4>1. e \in Talkers(alive) /\ dialogue'[e] = dialogue[e]
        BY <1>7, <3>2
      <4>2. /\ dialogue[e].npc \in npcBusy
            /\ \A f \in Talkers(alive) : dialogue[f].npc = dialogue[e].npc => f = e
        BY <2>1, <4>1 DEF PatientInv, Books, NpcKeptForTalk
      <4>3. dialogue[e].npc # r.npc
        BY <1>2, <2>1, <4>1 DEF Kept
      <4>4. QED
        BY <1>6, <1>7, <4>1, <4>2, <4>3
    <3>3. QED
      BY <3>1, <3>2
  <2>2. QED
    BY <1>4, <1>5, <2>1 DEF NpcKeptForTalk
<1>17. QED
  BY <1>5, <1>10, <1>11, <1>12, <1>13, <1>14, <1>15, <1>16 DEF PatientInv, Books

\* A dialogue that could not be opened lets go of the NPC that was kept for it.
LEMMA FailedBooks ==
  ASSUME Inv, PatientInv, RunTask,
         NEW task, task = Head(read_buffer), NEW r, r = task.rpc,
         r.kind = "start", ~task.ok, DialogueFailed(r)
  PROVE  PatientInv'
<1>1. r \in Calls
  BY TaskTraffic DEF Inv, PatientInv, Calls
<1>2. r.npc \in taken \/ Kept(r)
  BY <1>1 DEF PatientInv, Books, StartsKept
<1>3. dialogue' = dialogue /\ npcBusy' = npcBusy \ {r.npc}
  BY DEF DialogueFailed
<1>4. /\ Calls' = Calls \ {r} /\ Orders' = Orders
      /\ task \in Tasks /\ Tasks' = Tasks \ {task}
      /\ UNCHANGED <<conn, rpcs, requests, lost, alive, tag, id, by_session_index,
                     loggedIn, taken, closing>>
      /\ Traced' = Traced /\ r \notin rpcs
      /\ OneAtATime' /\ InTurn' /\ Connected' /\ LoginsApart' /\ OrdersFit'
      /\ \A q \in Calls : Caller(q)' <=> Caller(q)
  BY <1>3, TaskFacts
<1>5. Talkers(alive)' = Talkers(alive)
  BY <1>3, <1>4 DEF Talkers
<1>6. StartsFit'
  BY <1>3, <1>4, <1>5 DEF PatientInv, Books, StartsFit
<1>7. StartsKept'
  <2>1. ASSUME NEW q \in Calls', q.kind = "start", Kept(q)
        PROVE  Kept(q)'
    <3>1. q.npc # r.npc
      BY <1>1, <1>4, <2>1 DEF Kept
    <3>2. QED
      BY <1>3, <1>4, <1>5, <2>1, <3>1 DEF Kept
  <2>2. QED
    BY <1>4, <2>1 DEF PatientInv, Books, StartsKept
<1>8. EndsFit' /\ Numbered'
  BY <1>3, <1>4, <1>5 DEF PatientInv, Books, EndsFit, Numbered
<1>9. Accounted'
  BY <1>3, <1>4, <1>5 DEF PatientInv, Books, Accounted
<1>10. Known'
  BY <1>3, <1>4, <1>5 DEF PatientInv, Books, Known
<1>11. NpcKeptForTalk'
  <2>1. ASSUME NEW e \in Talkers(alive), dialogue[e].npc \notin taken
        PROVE  dialogue[e].npc \in npcBusy'
    <3>1. dialogue[e].npc \in npcBusy
      BY <2>1 DEF PatientInv, Books, NpcKeptForTalk
    <3>2. dialogue[e].npc # r.npc
      BY <1>2, <2>1 DEF Kept
    <3>3. QED
      BY <1>3, <3>1, <3>2
  <2>2. QED
    BY <1>3, <1>4, <1>5, <2>1 DEF PatientInv, Books, NpcKeptForTalk
<1>12. QED
  BY <1>4, <1>6, <1>7, <1>8, <1>9, <1>10, <1>11 DEF PatientInv, Books

\* A dialogue that is ended lets go of its own NPC and of no other.
LEMMA EndedBooks ==
  ASSUME Inv, PatientInv, RunTask,
         NEW task, task = Head(read_buffer), NEW r, r = task.rpc,
         r.kind = "end", DialogueEnded(r)
  PROVE  PatientInv'
<1>1. r \in Calls /\ r \in Rpc
  BY TaskTraffic, ElementTypes DEF Inv, PatientInv, Calls
<1>2. /\ npcBusy' = npcBusy \ {r.npc}
      /\ dialogue' = IF r.player \in alive
                       THEN [dialogue EXCEPT ![r.player] = Null] ELSE dialogue
  BY DEF DialogueEnded
<1>3. \/ r.player = Null /\ r.npc = Null
      \/ Caller(r) /\ dialogue[r.player] = Null /\ r.npc = Null
      \/ /\ Caller(r) /\ dialogue[r.player] # Null
         /\ r.npc = dialogue[r.player].npc /\ dialogue[r.player].sid \notin Traced
  <2>1. r \notin rpcs
    BY TaskTraffic DEF Inv, PatientInv, OneAtATime
  <2>2. QED
    BY <1>1, <2>1 DEF PatientInv, Books, EndsFit
<1>4. \A e \in Ents : e # r.player => dialogue'[e] = dialogue[e]
  BY <1>2 DEF Inv, TypeOK
<1>5. Null \notin alive /\ Null \notin npcBusy
  BY DialogueAssumption DEF Inv, TypeOK
<1>6. /\ Calls' = Calls \ {r} /\ Orders' = Orders
      /\ task \in Tasks /\ Tasks' = Tasks \ {task}
      /\ UNCHANGED <<conn, rpcs, requests, lost, alive, tag, id, by_session_index,
                     loggedIn, taken, closing>>
      /\ Traced' = Traced /\ r \notin rpcs
      /\ OneAtATime' /\ InTurn' /\ Connected' /\ LoginsApart' /\ OrdersFit'
      /\ \A q \in Calls : Caller(q)' <=> Caller(q)
      /\ \A q \in Calls \ {r} : Caller(q) => dialogue'[q.player] = dialogue[q.player]
  BY <1>2, <1>3, <1>4, <1>5, TaskFacts
<1>7. \A e \in Talkers(alive)' : e \in Talkers(alive) /\ dialogue'[e] = dialogue[e]
  BY <1>2, <1>4, <1>6 DEF Talkers, Inv, TypeOK
<1>8. \A e \in Talkers(alive) :
        \/ e \in Talkers(alive)' /\ dialogue'[e] = dialogue[e]
        \/ e = r.player /\ r.npc = dialogue[e].npc /\ dialogue[e].sid \notin Traced
  <2>1. ASSUME NEW e \in Talkers(alive), e # r.player
        PROVE  e \in Talkers(alive)' /\ dialogue'[e] = dialogue[e]
    BY <1>4, <1>6, <2>1 DEF Talkers, Inv, TypeOK
  <2>2. ASSUME NEW e \in Talkers(alive), e = r.player
        PROVE  r.npc = dialogue[e].npc /\ dialogue[e].sid \notin Traced
    BY <1>3, <1>5, <2>2 DEF Talkers
  <2>3. QED
    BY <2>1, <2>2
<1>9. r.npc = Null \/ \E f \in Talkers(alive) : f = r.player /\ r.npc = dialogue[f].npc
  BY <1>3 DEF Talkers, Caller
<1>10. StartsFit' /\ StartsKept'
  <2>1. ASSUME NEW q \in Calls', q.kind = "start"
        PROVE  /\ Caller(q)' /\ dialogue'[q.player] = Null
               /\ \A e \in Talkers(alive)' : dialogue'[e].sid # q.n
    <3>1. q \in Calls /\ q # r
      BY <1>6
    <3>2. /\ Caller(q) /\ dialogue[q.player] = Null
          /\ \A e \in Talkers(alive) : dialogue[e].sid # q.n
      BY <2>1, <3>1 DEF PatientInv, Books, StartsFit
    <3>3. QED
      BY <1>6, <1>7, <3>1, <3>2
  <2>2. ASSUME NEW q \in Calls', q.kind = "start", Kept(q)
        PROVE  Kept(q)'
    <3>1. q.npc # r.npc
      BY <1>5, <1>9, <2>2 DEF Kept
    <3>2. QED
      BY <1>2, <1>6, <1>7, <2>2, <3>1 DEF Kept
  <2>3. StartsFit'
    BY <2>1 DEF StartsFit
  <2>4. StartsKept'
    BY <1>6, <2>2 DEF PatientInv, Books, StartsKept
  <2>5. QED
    BY <2>3, <2>4
<1>11. EndsFit'
  BY <1>6 DEF PatientInv, Books, EndsFit
<1>12. Numbered'
  BY <1>6, <1>7 DEF PatientInv, Books, Numbered
<1>13. Accounted'
  <2>1. ASSUME lost = 0, NEW n \in npcBusy'
        PROVE  \/ \E q \in Calls' : q.kind = "start" /\ q.npc = n
               \/ \E e \in Talkers(alive)' : dialogue'[e].npc = n
    <3>1. n \in npcBusy /\ n # r.npc
      BY <1>2, <2>1
    <3>2. CASE \E q \in Calls : q.kind = "start" /\ q.npc = n
      BY <1>6, <3>2
    <3>3. CASE \E e \in Talkers(alive) : dialogue[e].npc = n
      BY <1>8, <3>1, <3>3
    <3>4. QED
      BY <2>1, <3>1, <3>2, <3>3 DEF PatientInv, Books, Accounted
  <2>2. QED
    BY <1>6, <2>1 DEF Accounted
<1>14. Known'
  <2>1. ASSUME NEW sid \in Traced, NEW e \in Talkers(alive), dialogue[e].sid = sid
        PROVE  e \in Talkers(alive)' /\ dialogue'[e].sid = sid
    BY <1>8, <2>1
  <2>2. ASSUME NEW t \in Tasks, t.rpc.kind = "start"
        PROVE  t \in Tasks'
    BY <1>6, <2>2
  <2>3. QED
    BY <1>6, <2>1, <2>2 DEF PatientInv, Books, Known
<1>15. NpcKeptForTalk'
  <2>1. ASSUME NEW e \in Talkers(alive)', dialogue'[e].npc \notin taken
        PROVE  /\ dialogue'[e].npc \in npcBusy'
               /\ \A f \in Talkers(alive)' : dialogue'[f].npc = dialogue'[e].npc => f = e
    <3>1. e \in Talkers(alive) /\ dialogue'[e] = dialogue[e]
      BY <1>7
    <3>2. /\ dialogue[e].npc \in npcBusy
          /\ \A f \in Talkers(alive) : dialogue[f].npc = dialogue[e].npc => f = e
      BY <2>1, <3>1 DEF PatientInv, Books, NpcKeptForTalk
    <3>3. e # r.player
      BY <1>2, <1>6, <2>1 DEF Talkers, Inv, TypeOK
    <3>4. dialogue[e].npc # r.npc
      BY <1>5, <1>9, <3>2, <3>3
    <3>5. QED
      BY <1>2, <1>7, <3>1, <3>2, <3>4
  <2>2. QED
    BY <1>6, <2>1 DEF NpcKeptForTalk
<1>16. QED
  BY <1>6, <1>10, <1>11, <1>12, <1>13, <1>14, <1>15 DEF PatientInv, Books

LEMMA RunTaskBooks ==
  ASSUME Inv, PatientInv, RunTask
  PROVE  PatientInv'
BY StartedBooks, FailedBooks, EndedBooks DEF RunTask

-----------------------------------------------------------------------------

\* The command that is run is the only thing its session waits for.
LEMMA CommandFacts ==
  ASSUME Inv, PatientInv, NEW type, NextCommand(type), NEW R \in SUBSET Rpc,
         rpcs' = rpcs \cup R,
         \A r \in R : r.session = Head(local_commands).session,
         \A r, q \in R : r = q,
         NEW c, c = Head(local_commands)
  PROVE  /\ tag' = tag => InTurn'
         /\ OneAtATime' /\ c \in Command /\ c.type = type /\ c \in Orders
         /\ conn[c.session] = "open" /\ c.session \in Sessions
         /\ Orders' = Orders \ {c} /\ Tasks' = Tasks /\ Calls' = Calls \cup R
         /\ UNCHANGED <<conn, lost, phase, to_cleanup, closing>> /\ Traced' = Traced
         /\ \A d \in Orders' : d.session # c.session
         /\ \A q \in Calls : q.session # c.session
<1>1. /\ c \in Command /\ c.type = type
      /\ UNCHANGED <<conn, lost, phase, read_buffer, to_cleanup, ai_open, closing, stray>>
  BY NextCommandFacts
<1>a. Traced' = Traced
  BY <1>1 DEF Traced
<1>2. /\ OneAtATime' /\ c \in Orders
      /\ Orders' = Orders \ {c} /\ Tasks' = Tasks /\ Calls' = Calls \cup R
  BY CommandTraffic DEF Inv, PatientInv
<1>3. /\ \A d \in Orders' : d.session # c.session
      /\ \A q \in Calls : q.session # c.session
  BY <1>2 DEF PatientInv, OneAtATime
<1>4. conn[c.session] = "open" /\ c.session \in Sessions
  BY <1>1, <1>2 DEF PatientInv, Books, Connected, Command
<1>5. tag' = tag => InTurn'
  <2>1. phase = "commands"
    BY DEF NextCommand
  <2>2. QED
    BY <1>1, <2>1 DEF PatientInv, InTurn
<1>6. QED
  BY <1>1, <1>a, <1>2, <1>3, <1>4, <1>5

\* A login moves no player that anybody else waits for: such a player belongs to
\* a connected session that is logged in to its account.
LEMMA LoginBooks ==
  ASSUME Inv, PatientInv, Login
  PROVE  PatientInv'
<1> DEFINE c == Head(local_commands)
           s == c.session
           i == NumericId(c.name)
           old == by_npc_id[i]
<1>1. /\ loggedIn' = [loggedIn EXCEPT ![s] = c.name]
      /\ UNCHANGED <<rpcs, requests, npcBusy, dialogue, taken>>
      /\ NextCommand("login")
  BY DEF Login, PlayerOf
<1>2. /\ OneAtATime' /\ c \in Command /\ c.type = "login" /\ c \in Orders
      /\ conn[s] = "open" /\ s \in Sessions
      /\ Orders' = Orders \ {c} /\ Tasks' = Tasks /\ Calls' = Calls
      /\ UNCHANGED <<conn, lost, phase, to_cleanup, closing>> /\ Traced' = Traced
      /\ \A d \in Orders' : d.session # s
      /\ \A q \in Calls : q.session # s
  <2>1. PICK none \in SUBSET Rpc : none = {}
    OBVIOUS
  <2>2. rpcs' = rpcs \cup none
    BY <1>1, <2>1
  <2>3. Calls' = Calls \cup none => Calls' = Calls
    BY <2>1
  <2>4. c = Head(local_commands)
    OBVIOUS
  <2> HIDE DEF c
  <2>5. /\ \A r \in none : r.session = Head(local_commands).session
        /\ \A r, q \in none : r = q
    BY <2>1
  <2>6. /\ OneAtATime' /\ c \in Command /\ c.type = "login" /\ c \in Orders
        /\ conn[c.session] = "open" /\ c.session \in Sessions
        /\ Orders' = Orders \ {c} /\ Tasks' = Tasks /\ Calls' = Calls \cup none
        /\ UNCHANGED <<conn, lost, phase, to_cleanup, closing>> /\ Traced' = Traced
        /\ \A d \in Orders' : d.session # c.session
        /\ \A q \in Calls : q.session # c.session
    BY <1>1, <2>2, <2>4, <2>5, CommandFacts
  <2>7. QED
    BY <2>3, <2>6
<1>3. c.name \in Names /\ c.name # Null
  BY <1>2, DialogueAssumption DEF Command
<1>4. \A d \in Orders' : d.type # "login"
  BY <1>2 DEF PatientInv, Books, LoginsApart
<1>5. \A t \in Sessions \ {s} :
        conn[t] = "open" /\ loggedIn[t] # Null => NumericId(loggedIn[t]) # i
  BY <1>2 DEF PatientInv, Books, LoginsApart
<1>6. i \in Ids
  BY DEF NumericId, Ids
<1>7. \/ /\ old = Null
         /\ \E e \in NewHandles :
              /\ alive' = alive \cup {e}
              /\ tag' = [tag EXCEPT ![e] = s]
              /\ id' = [id EXCEPT ![e] = i]
              /\ by_session_index' = [by_session_index EXCEPT ![s] = e]
      \/ /\ old # Null
         /\ tag' = [tag EXCEPT ![old] = s]
         /\ by_session_index' =
              [[by_session_index EXCEPT ![tag[old]] = Null] EXCEPT ![s] = old]
         /\ UNCHANGED <<alive, id>>
  BY DEF Login, PlayerOf
<1>8. old # Null => old \in alive /\ id[old] = i /\ tag[old] \in Sessions
  BY <1>6 DEF Inv, TypeOK, IndexSafety
<1>9. to_cleanup = {}
  BY <1>1 DEF NextCommand, PatientInv, InTurn
<1> HIDE DEF c, s, i, old
<1>10. PICK p \in Ents :
         /\ tag' = [tag EXCEPT ![p] = s]
         /\ id' = [id EXCEPT ![p] = i]
         /\ by_session_index'[s] = p
         /\ \A t \in Sessions \ {s} :
              by_session_index'[t] = by_session_index[t] \/ by_session_index'[t] = Null
         /\ alive' = alive \cup {p}
         /\ p \in alive => id[p] = i
         /\ p \notin alive => dialogue[p] = Null
  <2>1. CASE old = Null
    <3>1. PICK e \in NewHandles :
            /\ alive' = alive \cup {e}
            /\ tag' = [tag EXCEPT ![e] = s]
            /\ id' = [id EXCEPT ![e] = i]
            /\ by_session_index' = [by_session_index EXCEPT ![s] = e]
      BY <1>7, <2>1
    <3>2. e \in Ents /\ e \notin alive
      BY DEF NewHandles
    <3>3. dialogue[e] = Null
      BY <3>2 DEF Inv, NoComponentOnDead
    <3>4. QED
      BY <1>2, <3>1, <3>2, <3>3 DEF Inv, TypeOK
  <2>2. CASE old # Null
    <3>1. old \in Ents /\ old \in alive /\ id[old] = i
      BY <1>8, <2>2 DEF Inv, TypeOK
    <3>2. id' = [id EXCEPT ![old] = i] /\ alive' = alive \cup {old}
      BY <1>7, <2>2, <3>1 DEF Inv, TypeOK
    <3>3. tag' = [tag EXCEPT ![old] = s]
      BY <1>7, <2>2
    <3>4. /\ by_session_index'[s] = old
          /\ \A t \in Sessions \ {s} :
               by_session_index'[t] = by_session_index[t] \/ by_session_index'[t] = Null
      BY <1>2, <1>7, <1>8, <2>2 DEF Inv, TypeOK
    <3>5. QED
      BY <3>1, <3>2, <3>3, <3>4
  <2>3. QED
    BY <2>1, <2>2
<1>11. /\ tag'[p] = s /\ id'[p] = i
       /\ \A e \in Ents : e # p => tag'[e] = tag[e] /\ id'[e] = id[e]
       /\ loggedIn'[s] = c.name
       /\ \A t \in Sessions : t # s => loggedIn'[t] = loggedIn[t]
  BY <1>1, <1>2, <1>10 DEF Inv, TypeOK
<1>12. alive \subseteq Ents /\ \A e \in alive : tag[e] \in Sessions
  BY DEF Inv, TypeOK
<1>13. Talkers(alive)' = Talkers(alive)
  BY <1>1, <1>10 DEF Talkers
<1>14. ASSUME NEW q \in Calls, Caller(q)
       PROVE  Caller(q)'
  <2>1. q.session # s /\ conn[q.session] = "open" /\ q.session \in Sessions
    BY <1>2, ElementTypes DEF PatientInv, Books, Connected, Inv, Rpc
  <2>2. q.player \in alive /\ id[q.player] # i
    BY <1>5, <1>14, <2>1 DEF Caller
  <2>3. q.player # p
    BY <1>10, <2>2
  <2>4. QED
    BY <1>10, <1>11, <1>12, <1>14, <2>1, <2>3 DEF Caller
<1>15. Connected'
  <2>1. \A x \in Orders' \cup Calls' : conn'[x.session] = "open"
    BY <1>2 DEF PatientInv, Books, Connected
  <2>2. \A t \in Sessions : loggedIn'[t] # Null => conn'[t] # "new"
    BY <1>2, <1>11 DEF PatientInv, Books, Connected
  <2>3. \A e \in alive' : conn'[tag'[e]] # "new"
    BY <1>2, <1>10, <1>11, <1>12 DEF PatientInv, Books, Connected
  <2>4. ASSUME NEW t \in Sessions, by_session_index'[t] # Null
        PROVE  loggedIn'[t] # Null /\ id'[by_session_index'[t]] = NumericId(loggedIn'[t])
    <3>1. CASE t = s
      BY <1>3, <1>10, <1>11, <3>1 DEF i
    <3>2. CASE t # s
      <4>1. /\ by_session_index'[t] = by_session_index[t]
            /\ by_session_index[t] \in alive
            /\ loggedIn[t] # Null /\ id[by_session_index[t]] = NumericId(loggedIn[t])
        BY <1>10, <2>4, <3>2 DEF PatientInv, Books, Connected, Inv, IndexSafety
      <4>2. id'[by_session_index[t]] = id[by_session_index[t]]
        BY <1>10, <1>11, <1>12, <4>1
      <4>3. QED
        BY <1>11, <3>2, <4>1, <4>2
    <3>3. QED
      BY <3>1, <3>2
  <2>5. QED
    BY <2>1, <2>2, <2>3, <2>4 DEF Connected
<1>16. LoginsApart'
  BY <1>4 DEF LoginsApart
<1>17. OrdersFit'
  <2>1. \A d \in Orders' : d \in Orders /\ d.session \in Sessions \ {s}
    BY <1>2, ElementTypes DEF Inv, Command
  <2>2. QED
    BY <1>1, <1>10, <2>1 DEF PatientInv, Books, OrdersFit
<1>18. StartsFit'
  BY <1>1, <1>2, <1>13, <1>14 DEF PatientInv, Books, StartsFit
<1>19. StartsKept'
  BY <1>1, <1>2, <1>13 DEF PatientInv, Books, StartsKept, Kept
<1>20. EndsFit'
  BY <1>1, <1>2, <1>14 DEF PatientInv, Books, EndsFit
<1>21. Numbered' /\ Accounted' /\ Known'
  BY <1>1, <1>2, <1>13 DEF PatientInv, Books, Numbered, Accounted, Known
<1>22. NpcKeptForTalk'
  BY <1>1, <1>13 DEF PatientInv, Books, NpcKeptForTalk
<1>23. InTurn'
  <2>1. phase = "commands" /\ read_buffer' = read_buffer
    BY <1>1 DEF NextCommand
  <2>2. QED
    BY <1>2, <1>9, <2>1 DEF PatientInv, InTurn
<1>24. QED
  BY <1>2, <1>15, <1>16, <1>17, <1>18, <1>19, <1>20, <1>21, <1>22, <1>23
     DEF PatientInv, Books

\* The player that a session's entry names is one its RPCs may be issued for.
LEMMA IndexedCaller ==
  ASSUME Inv, PatientInv, NEW s \in Sessions, by_session_index[s] # Null,
         NEW r, r.session = s, r.player = by_session_index[s]
  PROVE  Caller(r)
BY DEF Inv, IndexSafety, PatientInv, Books, Connected, Caller

\* InTalk, in terms of the sets above.
LEMMA InTalkFacts ==
  ASSUME NEW n
  PROVE  InTalk(n) <=>
           \/ \E q \in Calls : q.kind = "start" /\ q.npc = n
           \/ \E e \in Talkers(alive) : dialogue[e].npc = n
<1>1. StartPending(n) => \E q \in Calls : q.kind = "start" /\ q.npc = n
  BY DEF StartPending, Calls, Tasks, Range
<1>2. ASSUME NEW q \in Calls, q.kind = "start", q.npc = n
      PROVE  StartPending(n)
  BY <1>2 DEF StartPending, Calls, Tasks, Range
<1>3. QED
  BY <1>1, <1>2 DEF InTalk

\* A request to talk is given an NPC that nobody else has or waits for, but for those
\* whose hold on it was taken away.
LEMMA TalkToNpcBooks ==
  ASSUME Inv, PatientInv, TalkToNpc
  PROVE  PatientInv'
<1> DEFINE c == Head(local_commands)
           player == by_session_index[c.session]
           r == [n |-> requests + 1, kind |-> "start", session |-> c.session,
                 player |-> player, npc |-> c.npc]
<1>1. /\ NextCommand("talk")
      /\ player # Null /\ c.npc \notin npcBusy
      /\ npcBusy' = npcBusy \cup {c.npc}
      /\ requests' = requests + 1 /\ rpcs' = rpcs \cup {r}
      /\ taken' = IF InTalk(c.npc) THEN taken ELSE taken \ {c.npc}
      /\ UNCHANGED <<alive, tag, id, dialogue, by_session_index, loggedIn>>
  BY DEF TalkToNpc, NotBusy
<1>2. /\ r.n = requests + 1 /\ r.kind = "start" /\ r.session = c.session
      /\ r.player = player /\ r.npc = c.npc
  OBVIOUS
<1>3. c \in Command /\ c.type = "talk"
  BY <1>1, NextCommandFacts
<1>4. c.session \in Sessions /\ c.npc \in Npcs
  BY <1>3 DEF Command
<1>5. player \in Ents
  BY <1>1, <1>4 DEF Inv, TypeOK
<1>6. r \in Rpc
  BY <1>4, <1>5 DEF Rpc, Inv, TypeOK
<1> HIDE DEF r
<1>7. /\ OneAtATime' /\ InTurn' /\ c \in Orders /\ conn[c.session] = "open"
      /\ Orders' = Orders \ {c} /\ Tasks' = Tasks /\ Calls' = Calls \cup {r}
      /\ UNCHANGED <<conn, lost, closing>> /\ Traced' = Traced
  <2>1. {r} \in SUBSET Rpc
    BY <1>6
  <2>2. QED
    BY <1>1, <1>2, <2>1, CommandFacts
<1>8. Caller(r)
  BY <1>1, <1>2, <1>4, IndexedCaller
<1>9. dialogue[r.player] = Null
  BY <1>1, <1>2, <1>3, <1>7 DEF PatientInv, Books, OrdersFit
<1> HIDE DEF c, player
<1>10. Connected' /\ LoginsApart' /\ OrdersFit'
  BY <1>1, <1>2, <1>7 DEF PatientInv, Books, Connected, LoginsApart, OrdersFit
<1>11. Talkers(alive)' = Talkers(alive)
  BY <1>1 DEF Talkers
<1>12. \A q \in Calls \cup {r} : Caller(q)' <=> Caller(q)
  BY <1>1 DEF Caller
<1>13. \A q \in Calls : q.n \in Nat /\ q.n <= requests /\ q.n # r.n
  <2>1. \A q \in Calls : q.n \in Nat /\ q.n <= requests
    BY ElementTypes DEF PatientInv, Books, Numbered, Inv, Rpc
  <2>2. QED
    BY <1>2, <2>1 DEF Inv, TypeOK
<1>14. \A e \in Talkers(alive) : dialogue[e].sid # r.n
  <2>1. ASSUME NEW e \in Talkers(alive)
        PROVE  dialogue[e].sid # r.n
    <3>1. dialogue[e].sid \in Nat /\ dialogue[e].sid <= requests
      BY DEF PatientInv, Books, Numbered, Talkers, Inv, TypeOK, Dialogue
    <3>2. QED
      BY <1>2, <3>1 DEF Inv, TypeOK
  <2>2. QED
    BY <2>1
<1>a. /\ r.npc \notin npcBusy /\ npcBusy' = npcBusy \cup {r.npc}
      /\ taken' = IF InTalk(r.npc) THEN taken ELSE taken \ {r.npc}
  BY <1>1, <1>2
<1>b. ASSUME InTalk(r.npc)
      PROVE  StartsKept' /\ NpcKeptForTalk'
  <2>1. r.npc \in taken
    <3>1. CASE \E q \in Calls : q.kind = "start" /\ q.npc = r.npc
      BY <1>a, <3>1 DEF PatientInv, Books, StartsKept, Kept
    <3>2. CASE \E e \in Talkers(alive) : dialogue[e].npc = r.npc
      BY <1>a, <3>2 DEF PatientInv, Books, NpcKeptForTalk
    <3>3. QED
      BY <1>b, <3>1, <3>2, InTalkFacts
  <2>2. taken' = taken
    BY <1>a, <1>b
  <2>3. StartsKept'
    <3>1. ASSUME NEW q \in Calls, q.npc # r.npc, Kept(q)
          PROVE  Kept(q)'
      BY <1>1, <1>a, <1>7, <1>11, <3>1 DEF Kept
    <3>2. ASSUME NEW q \in Calls', q.kind = "start", q.npc \notin taken
          PROVE  q \in Calls /\ q.npc # r.npc /\ Kept(q)
      BY <1>7, <2>1, <3>2 DEF PatientInv, Books, StartsKept
    <3>3. QED
      BY <2>2, <3>1, <3>2 DEF StartsKept
  <2>4. NpcKeptForTalk'
    BY <1>1, <1>a, <1>11, <2>2 DEF PatientInv, Books, NpcKeptForTalk
  <2>5. QED
    BY <2>3, <2>4
<1>c. ASSUME ~InTalk(r.npc)
      PROVE  StartsKept' /\ NpcKeptForTalk'
  <2>1. /\ \A q \in Calls : q.kind = "start" => q.npc # r.npc
        /\ \A e \in Talkers(alive) : dialogue[e].npc # r.npc
    BY <1>c, InTalkFacts
  <2>2. taken' = taken \ {r.npc}
    BY <1>a, <1>c
  <2>3. StartsKept'
    <3>1. ASSUME NEW p \in Calls', p = r
          PROVE  Kept(p)'
      <4>1. r.npc \in npcBusy' /\ \A e \in Talkers(alive)' : dialogue'[e].npc # r.npc
        BY <1>1, <1>a, <1>11, <2>1
      <4>2. \A q \in Calls' : q.kind = "start" /\ q.npc = r.npc => q = r
        BY <1>7, <2>1
      <4>3. QED
        BY <3>1, <4>1, <4>2 DEF Kept
    <3>2. ASSUME NEW q \in Calls, q.kind = "start", Kept(q)
          PROVE  Kept(q)'
      BY <1>1, <1>a, <1>7, <1>11, <2>1, <3>2 DEF Kept
    <3>3. ASSUME NEW q \in Calls, q.kind = "start"
          PROVE  q.npc \in taken' \/ Kept(q)
      BY <2>1, <2>2, <3>3 DEF PatientInv, Books, StartsKept
    <3>4. QED
      BY <1>7, <3>1, <3>2, <3>3 DEF StartsKept
  <2>4. NpcKeptForTalk'
    BY <1>1, <1>a, <1>11, <2>1, <2>2 DEF PatientInv, Books, NpcKeptForTalk
  <2>5. QED
    BY <2>3, <2>4
<1>15. StartsFit'
  BY <1>1, <1>2, <1>7, <1>8, <1>9, <1>11, <1>12, <1>14 DEF PatientInv, Books, StartsFit
<1>16. EndsFit'
  <2>1. \A q \in Calls' : q.kind = "end" => q \in Calls /\ (q \in rpcs => q \in rpcs')
    BY <1>1, <1>2, <1>7
  <2>2. QED
    BY <1>1, <1>7, <1>12, <2>1 DEF PatientInv, Books, EndsFit
<1>17. Numbered'
  <2>1. \A q \in Calls' : q.n <= requests' /\ \A p \in Calls' : q.n = p.n => q = p
    BY <1>1, <1>2, <1>7, <1>13 DEF PatientInv, Books, Numbered, Inv, TypeOK
  <2>2. \A e \in Talkers(alive) : dialogue[e].sid \in Nat
    BY DEF Talkers, Inv, TypeOK, Dialogue
  <2>3. \A e \in Talkers(alive)' : dialogue'[e].sid <= requests'
    BY <1>1, <1>11, <2>2 DEF PatientInv, Books, Numbered, Inv, TypeOK
  <2>4. QED
    BY <2>1, <2>3 DEF Numbered
<1>18. Accounted' /\ Known'
  BY <1>1, <1>2, <1>7, <1>11 DEF PatientInv, Books, Accounted, Known
<1>19. QED
  BY <1>7, <1>10, <1>b, <1>c, <1>15, <1>16, <1>17, <1>18 DEF PatientInv, Books

LEMMA TalkRefusedBooks ==
  ASSUME Inv, PatientInv, TalkRefused
  PROVE  PatientInv'
<1>1. NextCommand("talk") /\ UNCHANGED <<rpcs, requests, world, server>>
  BY DEF TalkRefused, NextCommand
<1>2. /\ OneAtATime' /\ InTurn'
      /\ Orders' = Orders \ {Head(local_commands)} /\ Tasks' = Tasks /\ Calls' = Calls
      /\ UNCHANGED <<conn, lost>>
  <2>1. PICK none \in SUBSET Rpc : none = {}
    OBVIOUS
  <2>2. rpcs' = rpcs \cup none /\ tag' = tag
    BY <1>1, <2>1 DEF world
  <2>3. Calls' = Calls \cup none => Calls' = Calls
    BY <2>1
  <2>4. QED
    BY <1>1, <2>1, <2>2, <2>3, CommandFacts
<1>3. QED
  BY <1>1, <1>2, KeepBooks DEF PatientInv

\* The end of a dialogue is issued for the NPC and the dialogue of its player.
LEMMA EndDialogueBooks ==
  ASSUME Inv, PatientInv, EndDialogue
  PROVE  PatientInv'
<1> DEFINE c == Head(local_commands)
           player == by_session_index[c.session]
           npc == IF player # Null /\ dialogue[player] # Null
                    THEN dialogue[player].npc ELSE Null
           r == [n |-> requests + 1, kind |-> "end", session |-> c.session,
                 player |-> player, npc |-> npc, sid |-> c.sid]
<1>1. /\ NextCommand("end")
      /\ requests' = requests + 1 /\ rpcs' = rpcs \cup {r}
      /\ UNCHANGED world
  BY DEF EndDialogue
<1>2. /\ r.n = requests + 1 /\ r.kind = "end" /\ r.session = c.session
      /\ r.player = player /\ r.npc = npc /\ r.sid = c.sid
  OBVIOUS
<1>3. c \in Command /\ c.type = "end"
  BY <1>1, NextCommandFacts
<1>4. c.session \in Sessions /\ c.sid \in Nat
  BY <1>3 DEF Command
<1>5. player \in Ents \cup {Null}
  BY <1>4 DEF Inv, TypeOK
<1>6. npc \in Npcs \cup {Null}
  BY <1>5 DEF Inv, TypeOK, Dialogue
<1>7. r \in Rpc
  BY <1>4, <1>5, <1>6 DEF Rpc, Inv, TypeOK
<1> HIDE DEF r
<1>8. /\ OneAtATime' /\ InTurn' /\ c \in Orders /\ conn[c.session] = "open"
      /\ Orders' = Orders \ {c} /\ Tasks' = Tasks /\ Calls' = Calls \cup {r}
      /\ UNCHANGED <<conn, lost, closing>> /\ Traced' = Traced
  <2>1. {r} \in SUBSET Rpc /\ tag' = tag
    BY <1>1, <1>7 DEF world
  <2>2. QED
    BY <1>1, <1>2, <2>1, CommandFacts
<1>9. \/ r.player = Null /\ r.npc = Null
      \/ /\ Caller(r)
         /\ IF dialogue[r.player] = Null
              THEN r.npc = Null
              ELSE r.npc = dialogue[r.player].npc /\ r.sid = dialogue[r.player].sid
  <2>1. CASE player = Null
    BY <1>2, <2>1
  <2>2. CASE player # Null
    <3>1. Caller(r)
      BY <1>2, <1>4, <2>2, IndexedCaller
    <3>2. dialogue[player].sid = c.sid
      BY <1>3, <1>8, <2>2 DEF PatientInv, Books, OrdersFit
    <3>3. QED
      BY <1>2, <2>2, <3>1, <3>2
  <2>3. QED
    BY <2>1, <2>2
<1> HIDE DEF c, player, npc
<1>10. Connected' /\ LoginsApart' /\ OrdersFit'
  BY <1>1, <1>2, <1>8 DEF PatientInv, Books, Connected, LoginsApart, OrdersFit, world
<1>11. Talkers(alive)' = Talkers(alive)
  BY <1>1 DEF Talkers, world
<1>12. \A q \in Calls \cup {r} : Caller(q)' <=> Caller(q)
  BY <1>1 DEF Caller, world
<1>13. \A q \in Calls : q.n \in Nat /\ q.n <= requests /\ q.n # r.n
  <2>1. \A q \in Calls : q.n \in Nat /\ q.n <= requests
    BY ElementTypes DEF PatientInv, Books, Numbered, Inv, Rpc
  <2>2. QED
    BY <1>2, <2>1 DEF Inv, TypeOK
<1>14. StartsFit' /\ StartsKept'
  <2>1. \A q \in Calls' : q.kind = "start" => q \in Calls
    BY <1>2, <1>8
  <2>2. StartsFit'
    BY <1>1, <1>11, <1>12, <2>1 DEF PatientInv, Books, StartsFit, world
  <2>3. StartsKept'
    BY <1>1, <1>11, <2>1 DEF PatientInv, Books, StartsKept, Kept, world
  <2>4. QED
    BY <2>2, <2>3
<1>15. EndsFit'
  <2>1. dialogue' = dialogue /\ r \in rpcs' /\ rpcs \subseteq rpcs'
    BY <1>1 DEF world
  <2>2. QED
    BY <1>8, <1>9, <1>12, <2>1 DEF PatientInv, Books, EndsFit
<1>16. Numbered'
  <2>1. \A q \in Calls' : q.n <= requests' /\ \A p \in Calls' : q.n = p.n => q = p
    BY <1>1, <1>2, <1>8, <1>13 DEF PatientInv, Books, Numbered, Inv, TypeOK
  <2>2. \A e \in Talkers(alive) : dialogue[e].sid \in Nat
    BY DEF Talkers, Inv, TypeOK, Dialogue
  <2>3. \A e \in Talkers(alive)' : dialogue'[e].sid <= requests'
    BY <1>1, <1>11, <2>2 DEF PatientInv, Books, Numbered, Inv, TypeOK, world
  <2>4. QED
    BY <2>1, <2>3 DEF Numbered
<1>17. Accounted' /\ Known'
  BY <1>1, <1>8, <1>11 DEF PatientInv, Books, Accounted, Known, world
<1>18. NpcKeptForTalk'
  BY <1>1, <1>11 DEF PatientInv, Books, NpcKeptForTalk, world
<1>19. QED
  BY <1>8, <1>10, <1>14, <1>15, <1>16, <1>17, <1>18 DEF PatientInv, Books

-----------------------------------------------------------------------------

\* What patient clients do, clients do.
LEMMA PatientIsClient == PatientNext => Next
BY DEF PatientNext, PatientIoNext, Patient, Next, IoNext

\* The inductive invariant of the dialogues of patient clients.
THEOREM PatientInvariant == PatientSpec => [](Inv /\ PatientInv)
<1>1. Init => Inv /\ PatientInv
  BY InitInv, InitPatientInv
<1>2. Inv /\ PatientInv /\ [PatientNext]_vars => (Inv /\ PatientInv)'
  <2> SUFFICES ASSUME Inv, PatientInv, [PatientNext]_vars
               PROVE  Inv' /\ PatientInv'
    OBVIOUS
  <2>1. Inv'
    BY PatientIsClient, StepInv
  <2>2. CASE PatientIoNext
    BY <2>1, <2>2, PatientIoBooks
  <2>3. CASE GrpcNext
    BY <2>1, <2>3, CompleteBooks, LoseBooks, CloseBooks DEF GrpcNext
  <2>4. CASE MainNext
    BY <2>1, <2>4, PhaseBooks, TakingBooks, RunTaskBooks, CleanUpBooks, LoginBooks, TalkToNpcBooks,
       TalkRefusedBooks, EndDialogueBooks
       DEF MainNext
  <2>5. CASE UNCHANGED vars
    <3>1. UNCHANGED <<commands, local_commands, rpcs, write_buffer, read_buffer, phase,
                      to_cleanup, conn, world, requests, lost, server>>
      BY <2>5 DEF vars, threads, frame
    <3>2. Orders' = Orders /\ Tasks' = Tasks /\ Calls' = Calls
      BY <3>1 DEF Orders, Tasks, Calls
    <3>3. OneAtATime' /\ InTurn'
      BY <3>1, <3>2 DEF PatientInv, OneAtATime, InTurn, world
    <3>4. QED
      BY <2>1, <3>1, <3>2, <3>3, KeepBooks DEF PatientInv
  <2>6. QED
    BY <2>1, <2>2, <2>3, <2>4, <2>5 DEF PatientNext
<1>3. QED
  BY <1>1, <1>2, PTL DEF PatientSpec

\* An NPC in a dialogue with a patient client is marked busy and in no other dialogue,
\* as long as no hit and no old dialogue of NPCs took its BusyTag away meanwhile.
THEOREM NpcAlwaysKeptForTalk == PatientSpec => []NpcKeptForTalk
<1>1. PatientInv => NpcKeptForTalk
  BY DEF PatientInv, Books
<1>2. QED
  BY <1>1, PatientInvariant, PTL

\* No dialogue is left open at the AI server without anybody here to end it, but for
\* those that a failed call opened or failed to end.
THEOREM NoDialogueOrphaned == PatientSpec => []NoOrphanDialogue
<1>1. PatientInv => NoOrphanDialogue
  <2>1. \A task \in Tasks : \E q \in {write_buffer, read_buffer} : \E k \in DOMAIN q : q[k] = task
    BY DEF Tasks, Range
  <2>2. QED
    BY <2>1 DEF PatientInv, Books, Known, NoOrphanDialogue, Traced
<1>2. QED
  BY <1>1, PatientInvariant, PTL

\* As long as no callback is dropped, an NPC that is marked busy is waited for or
\* talked to: patient clients leave none behind.
THEOREM BusyNpcIsReleased == PatientSpec => [](lost = 0 => BusyNpcAccounted)
<1>1. PatientInv => (lost = 0 => BusyNpcAccounted)
  BY InTalkFacts DEF PatientInv, Books, Accounted, BusyNpcAccounted
<1>2. QED
  BY <1>1, PatientInvariant, PTL

\* So none is left behind where no callback is ever dropped.
THEOREM BusyNpcAlwaysAccounted ==
  ASSUME MaxLost = 0
  PROVE  PatientSpec => []BusyNpcAccounted
<1>1. Inv => lost = 0
  BY DEF Inv, TypeOK
<1>2. QED
  BY <1>1, BusyNpcIsReleased, PatientInvariant, PTL
=============================================================================
