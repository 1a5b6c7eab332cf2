--------------------------- MODULE PlayerDialogue ---------------------------
(***************************************************************************)
(* Players, their sessions and their dialogues with NPCs: SystemPlayer.cpp *)
(* on the main thread, the session table and the command queue of          *)
(* TcpServer.cpp on the I/O thread, and the dialogue RPCs of               *)
(* AsyncGrpcClient.cpp on the gRPC thread.                                 *)
(*                                                                         *)
(* In every frame the main thread runs the tasks of the result queue,      *)
(* destroys the players whose session is gone, and runs the commands of    *)
(* the clients.  The other two threads move between any two of its steps.  *)
(* Only NPCs have HealthComp and CombatComp, so that only they are hit.    *)
(* The handle of a destroyed entity is never valid again, because EnTT     *)
(* versions its handles: a new player gets a handle that nothing refers to.*)
(*                                                                         *)
(* Left out: the activity texts (SystemBusyAmbient rewrites them in every  *)
(* frame), positions (a talk may be refused for the distance at any time), *)
(* the commands that change none of this state (move, message, status),    *)
(* and the BusyTags other systems put on an NPC (while it has one a talk   *)
(* is refused).  That they take the tag of a talk away is modelled: a hit  *)
(* does, and the answer to an old dialogue of NPCs (TagsTaken).            *)
(***************************************************************************)
EXTENDS Naturals, Sequences, FiniteSets

CONSTANTS
  Sessions,             \* session indices, given out once each
  Ents,                 \* handles of player entities
  Npcs,                 \* NPCs, which are never destroyed
  Names,                \* the player_id strings clients log in with
  KnownNames,           \* those of them that id_mapper knows
  UnknownId,            \* 0, what GetAgentNumericId answers for the others
  Null,                 \* entt::null
  MaxCommands,          \* bound: commands sent by all the clients together
  MaxLost               \* bound: RPCs that end without their callback

Dialogue == [sid : Nat, npc : Npcs]

ASSUME DialogueAssumption ==
  /\ KnownNames \subseteq Names
  /\ UnknownId \notin KnownNames
  /\ Null \notin Ents \cup Npcs \cup Names \cup Sessions \cup {UnknownId}
  /\ Null \notin Dialogue
  /\ MaxCommands \in Nat /\ MaxLost \in Nat

Ids == KnownNames \cup {UnknownId}

VARIABLES
  conn,                 \* each session: "new", "open" (in sessions_) or "closed"
  commands,             \* pending_commands_
  local_commands,       \* local_commands, what this frame has drained of it
  sentCommands,         \* number of commands sent so far
  rpcs,                 \* dialogue RPCs in flight
  requests,             \* number of RPCs issued so far, which names them
  lost,                 \* number of RPCs whose callback was dropped
  dropped,              \* history: players that are owed the callback of a talk
  write_buffer,         \* result queue: pushed, not yet swapped
  read_buffer,          \* result queue: the tasks this frame still has to run
  phase,                \* the system the main thread is in
  unchecked,            \* players the cleanup has not looked at in this frame
  to_cleanup,           \* to_cleanup
  alive,                \* player entities that exist
  tag,                  \* PlayerTag.session_index of each player that exists, or Null
  id,                   \* IdentityComp.npc_id of each player that exists, or Null
  playerBusy,           \* players with a BusyTag
  npcBusy,              \* NPCs with a BusyTag
  dialogue,             \* PlayerDialogueComp, or Null
  by_session_index,     \* EntityIndex, Null where there is no entry
  by_npc_id,            \* its entries for players
  told,                 \* dialogue id last sent to the client of each session, or 0
  loggedIn,             \* history: the name of each session's last login
  taken,                \* history: NPCs that lost their BusyTag during a talk
  ai_open,              \* dialogues that are open at the AI server
  closing,              \* dialogues the cleanup is ending there
  stray                 \* history: those open because a call failed

threads == <<conn, commands, sentCommands, rpcs, requests, lost, dropped, write_buffer>>
world == <<alive, tag, id, playerBusy, npcBusy, dialogue, by_session_index,
           by_npc_id, told, loggedIn, taken>>
frame == <<phase, local_commands, read_buffer, unchecked, to_cleanup>>
server == <<ai_open, closing, stray>>
vars == <<threads, world, frame, server>>

\* GetAgentNumericId: every name the mapper does not know has the same id.
NumericId(name) == IF name \in KnownNames THEN name ELSE UnknownId

Command ==
  [type : {"login"}, session : Sessions, name : Names]
    \cup [type : {"talk"}, session : Sessions, npc : Npcs]
    \cup [type : {"end"}, session : Sessions, sid : Nat]

Rpc ==
  [n : Nat, kind : {"start"}, session : Sessions, player : Ents, npc : Npcs]
    \cup [n : Nat, kind : {"end"}, session : Sessions,
          player : Ents \cup {Null}, npc : Npcs \cup {Null}, sid : Nat]

Init ==
  /\ conn = [s \in Sessions |-> "new"]
  /\ commands = <<>> /\ local_commands = <<>> /\ sentCommands = 0
  /\ rpcs = {} /\ requests = 0 /\ lost = 0 /\ dropped = {}
  /\ write_buffer = <<>> /\ read_buffer = <<>>
  /\ phase = "drain" /\ unchecked = {} /\ to_cleanup = {}
  /\ alive = {}
  /\ tag = [e \in Ents |-> Null] /\ id = [e \in Ents |-> Null]
  /\ playerBusy = {} /\ npcBusy = {} /\ taken = {}
  /\ dialogue = [e \in Ents |-> Null]
  /\ by_session_index = [s \in Sessions |-> Null]
  /\ by_npc_id = [i \in Ids |-> Null]
  /\ told = [s \in Sessions |-> 0]
  /\ loggedIn = [s \in Sessions |-> Null]
  /\ ai_open = {} /\ closing = {} /\ stray = {}

-----------------------------------------------------------------------------
(* The I/O thread and the clients.                                         *)

\* AcceptLoop gives out the next index and registers the session.
Connect(s) ==
  /\ conn[s] = "new"
  /\ conn' = [conn EXCEPT ![s] = "open"]
  /\ UNCHANGED <<commands, sentCommands, rpcs, requests, lost, dropped, write_buffer, world,
                 frame, server>>

\* The receive loop of the session ends: UnregisterSession.
Disconnect(s) ==
  /\ conn[s] = "open"
  /\ conn' = [conn EXCEPT ![s] = "closed"]
  /\ UNCHANGED <<commands, sentCommands, rpcs, requests, lost, dropped, write_buffer, world,
                 frame, server>>

\* HandlePacket queues a command.
Send(c) ==
  /\ conn[c.session] = "open"
  /\ sentCommands < MaxCommands
  /\ sentCommands' = sentCommands + 1
  /\ commands' = Append(commands, c)
  /\ UNCHANGED <<conn, rpcs, requests, lost, dropped, write_buffer, world, frame, server>>

SendLogin(s, name) == Send([type |-> "login", session |-> s, name |-> name])
SendTalk(s, n) == Send([type |-> "talk", session |-> s, npc |-> n])
SendEnd(s) == Send([type |-> "end", session |-> s, sid |-> told[s]])

-----------------------------------------------------------------------------
(* The gRPC thread.                                                        *)

\* What a call does at the AI server.  It names a dialogue it opens; the name is that
\* of the request here.  A call that opened a dialogue may fail all the same, and one
\* that should end a dialogue may fail before it did: nobody learns of either.
AtServer(r, ok, acted) ==
  IF r.kind = "start"
    THEN /\ ai_open' = IF acted THEN ai_open \cup {r.n} ELSE ai_open
         /\ stray' = IF acted /\ ~ok THEN stray \cup {r.n} ELSE stray
    ELSE /\ ai_open' = IF acted THEN ai_open \ {r.sid} ELSE ai_open
         /\ stray' = IF acted THEN stray \ {r.sid} ELSE stray \cup (ai_open \cap {r.sid})

\* The RPC ends with an answer, an error or its deadline, and its callback
\* pushes a task.
Complete(r, ok, acted) ==
  /\ r \in rpcs
  /\ ok => acted
  /\ rpcs' = rpcs \ {r}
  /\ write_buffer' = Append(write_buffer, [rpc |-> r, ok |-> ok])
  /\ AtServer(r, ok, acted)
  /\ UNCHANGED <<conn, commands, sentCommands, requests, lost, dropped, world, frame, closing>>

\* An exception in the coroutine of the RPC is logged, its callback dropped.
Lose(r, acted) ==
  /\ r \in rpcs
  /\ lost < MaxLost
  /\ lost' = lost + 1
  /\ dropped' = IF r.kind = "start" THEN dropped \cup ({r.player} \cap alive) ELSE dropped
  /\ rpcs' = rpcs \ {r}
  /\ AtServer(r, FALSE, acted)
  /\ UNCHANGED <<conn, commands, sentCommands, requests, write_buffer, world, frame, closing>>

\* The EndPlayerDialogue call of the cleanup is over.  Its callback, if it runs at
\* all, pushes a task that only logs, whether the call did anything or not.
CloseAtServer(sid, acted) ==
  /\ sid \in closing
  /\ closing' = closing \ {sid}
  /\ ai_open' = IF acted THEN ai_open \ {sid} ELSE ai_open
  /\ stray' = IF acted THEN stray \ {sid} ELSE stray \cup (ai_open \cap {sid})
  /\ UNCHANGED <<threads, world, frame>>

-----------------------------------------------------------------------------
(* The main thread, first system of the frame: GrpcResultQueue::Drain.     *)

StartDrain ==
  /\ phase = "drain"
  /\ phase' = "tasks"
  /\ read_buffer' = write_buffer
  /\ write_buffer' = <<>>
  /\ UNCHANGED <<conn, commands, sentCommands, rpcs, requests, lost, dropped, world,
                 local_commands, unchecked, to_cleanup, server>>

\* Broken variant: reg.valid is not asked before the component is put.
StartedUnchecked(r) ==
  /\ dialogue' = [dialogue EXCEPT ![r.player] = [sid |-> r.n, npc |-> r.npc]]
  /\ UNCHANGED <<told, playerBusy, npcBusy>>

\* The success branch of StartPlayerDialogueAsync: the player gets its
\* PlayerDialogueComp if it still exists; the NPC keeps its BusyTag.
DialogueStarted(r) ==
  /\ dialogue' = IF r.player \in alive
                   THEN [dialogue EXCEPT ![r.player] = [sid |-> r.n, npc |-> r.npc]]
                   ELSE dialogue
  /\ told' = IF conn[r.session] = "open" THEN [told EXCEPT ![r.session] = r.n] ELSE told
  /\ UNCHANGED <<playerBusy, npcBusy>>

\* Broken variants: only the player is released; only the NPC is.
FailedKeepsNpc(r) ==
  /\ playerBusy' = playerBusy \ {r.player}
  /\ UNCHANGED <<npcBusy, dialogue, told>>
FailedKeepsPlayer(r) ==
  /\ npcBusy' = npcBusy \ {r.npc}
  /\ UNCHANGED <<playerBusy, dialogue, told>>

\* Its failure branch: both BusyTags are taken away.
DialogueFailed(r) ==
  /\ npcBusy' = npcBusy \ {r.npc}
  /\ playerBusy' = playerBusy \ {r.player}
  /\ UNCHANGED <<dialogue, told>>

\* The callback of the EndDialogue command, on success and on failure: the NPC
\* and the player that the command found are released.
DialogueEnded(r) ==
  /\ npcBusy' = npcBusy \ {r.npc}
  /\ playerBusy' = playerBusy \ {r.player}
  /\ dialogue' = IF r.player \in alive THEN [dialogue EXCEPT ![r.player] = Null] ELSE dialogue
  /\ UNCHANGED told

RunTask ==
  /\ phase = "tasks" /\ read_buffer # <<>>
  /\ read_buffer' = Tail(read_buffer)
  /\ LET task == Head(read_buffer)
     IN  \/ task.rpc.kind = "start" /\ task.ok /\ DialogueStarted(task.rpc)
         \/ task.rpc.kind = "start" /\ ~task.ok /\ DialogueFailed(task.rpc)
         \/ task.rpc.kind = "end" /\ DialogueEnded(task.rpc)
  /\ UNCHANGED <<threads, alive, tag, id, by_session_index, by_npc_id, loggedIn, taken,
                 phase, local_commands, unchecked, to_cleanup, server>>

\* Another system takes the BusyTags of the NPCs in S away, whoever put them there.
TagsTaken(S) ==
  /\ npcBusy' = npcBusy \ S
  /\ taken' = taken \cup S
  /\ UNCHANGED <<alive, tag, id, playerBusy, dialogue, by_session_index, by_npc_id, told,
                 loggedIn>>

\* The task of a dialogue of NPCs, answered or failed: it takes the BusyTag of every
\* participant away, also if it is the one a talk put there after a hit.
NpcDialogueTask ==
  /\ phase = "tasks"
  /\ \E S \in (SUBSET npcBusy) \ {{}} : TagsTaken(S)
  /\ UNCHANGED <<threads, frame, server>>

-----------------------------------------------------------------------------
(* Second: SystemCleanupDisconnectedPlayerDialogues.                       *)

StartCleanup ==
  /\ phase = "tasks" /\ read_buffer = <<>>
  /\ phase' = "cleanup"
  /\ unchecked' = alive
  /\ to_cleanup' = {}
  /\ UNCHANGED <<threads, world, local_commands, read_buffer, server>>

\* Broken variant: a player in a dialogue is left for later.
CheckIdlePlayer(e) ==
  /\ phase = "cleanup" /\ e \in unchecked
  /\ unchecked' = unchecked \ {e}
  /\ to_cleanup' = IF conn[tag[e]] = "open" \/ dialogue[e] # Null
                     THEN to_cleanup ELSE to_cleanup \cup {e}
  /\ UNCHANGED <<threads, world, phase, local_commands, read_buffer, server>>

\* One player of the view: is its session still registered?
CheckPlayer(e) ==
  /\ phase = "cleanup" /\ e \in unchecked
  /\ unchecked' = unchecked \ {e}
  /\ to_cleanup' = IF conn[tag[e]] = "open" THEN to_cleanup ELSE to_cleanup \cup {e}
  /\ UNCHANGED <<threads, world, phase, local_commands, read_buffer, server>>

Talkers(E) == {e \in E : dialogue[e] # Null}

\* Broken variant: the AI server is not told.
EndLocally(E) == UNCHANGED closing

\* EndPlayerDialogueAsync for each dialogue, which CloseAtServer answers.
EndAtServer(E) == closing' = closing \cup {dialogue[e].sid : e \in Talkers(E)}

\* Broken variant: only the account is taken out of the index.
EraseAccount(E) ==
  /\ by_npc_id' = [i \in Ids |-> IF \E e \in E : id[e] = i THEN Null ELSE by_npc_id[i]]
  /\ UNCHANGED by_session_index

EraseFromIndex(E) ==
  /\ by_session_index' = [s \in Sessions |->
       IF \E e \in E : tag[e] = s THEN Null ELSE by_session_index[s]]
  /\ by_npc_id' = [i \in Ids |-> IF \E e \in E : id[e] = i THEN Null ELSE by_npc_id[i]]

\* The loop over to_cleanup: the dialogue of each is ended at the AI server, its
\* NPC released, the index entries erased and the entity destroyed.
CleanUp ==
  /\ phase = "cleanup" /\ unchecked = {}
  /\ phase' = "fetch"
  /\ EndAtServer(to_cleanup)
  /\ npcBusy' = npcBusy \ {dialogue[e].npc : e \in Talkers(to_cleanup)}
  /\ EraseFromIndex(to_cleanup)
  /\ alive' = alive \ to_cleanup
  /\ playerBusy' = playerBusy \ to_cleanup
  /\ dialogue' = [e \in Ents |-> IF e \in to_cleanup THEN Null ELSE dialogue[e]]
  /\ tag' = [e \in Ents |-> IF e \in to_cleanup THEN Null ELSE tag[e]]
  /\ id' = [e \in Ents |-> IF e \in to_cleanup THEN Null ELSE id[e]]
  /\ dropped' = dropped \ to_cleanup
  /\ to_cleanup' = {}
  /\ UNCHANGED <<conn, commands, sentCommands, rpcs, requests, lost, write_buffer, told,
                 loggedIn, taken, local_commands, read_buffer, unchecked, ai_open, stray>>

-----------------------------------------------------------------------------
(* Third: SystemPlayerCommands, one command of the batch at a time.        *)

\* DrainPlayerCommands swaps the queue of the I/O thread away under its mutex.
FetchCommands ==
  /\ phase = "fetch"
  /\ phase' = "commands"
  /\ local_commands' = commands
  /\ commands' = <<>>
  /\ UNCHANGED <<conn, sentCommands, rpcs, requests, lost, dropped, write_buffer, world,
                 read_buffer, unchecked, to_cleanup, server>>

NextCommand(type) ==
  /\ phase = "commands" /\ local_commands # <<>>
  /\ Head(local_commands).type = type
  /\ local_commands' = Tail(local_commands)
  /\ UNCHANGED <<conn, commands, sentCommands, lost, dropped, write_buffer, phase,
                 read_buffer, unchecked, to_cleanup, server>>

\* The handles reg.create() may return: those that no entity has, and that no
\* callback still holds.
NewHandles ==
  {e \in Ents \ alive :
     /\ \A r \in rpcs : r.player # e
     /\ \A q \in {write_buffer, read_buffer} : \A k \in DOMAIN q : q[k].rpc.player # e}

\* Broken variant: the account is not looked up.
NoPlayer(i) == Null

\* index.by_npc_id.find(GetAgentNumericId(...))
PlayerOf(i) == by_npc_id[i]

\* A first login creates the player, a later one moves it to the new session.
Login ==
  /\ NextCommand("login")
  /\ LET s == Head(local_commands).session
         name == Head(local_commands).name
         i == NumericId(name)
         old == PlayerOf(i)
     IN  /\ loggedIn' = [loggedIn EXCEPT ![s] = name]
         /\ \/ /\ old = Null
               /\ \E e \in NewHandles :
                    /\ alive' = alive \cup {e}
                    /\ tag' = [tag EXCEPT ![e] = s]
                    /\ id' = [id EXCEPT ![e] = i]
                    /\ by_npc_id' = [by_npc_id EXCEPT ![i] = e]
                    /\ by_session_index' = [by_session_index EXCEPT ![s] = e]
            \/ /\ old # Null
               /\ tag' = [tag EXCEPT ![old] = s]
               /\ by_session_index' =
                    [[by_session_index EXCEPT ![tag[old]] = Null] EXCEPT ![s] = old]
               /\ UNCHANGED <<alive, id, by_npc_id>>
  /\ UNCHANGED <<rpcs, requests, playerBusy, npcBusy, dialogue, told, taken>>

\* A request to talk to the NPC is on its way to the AI server or back.
StartPending(n) ==
  \/ \E r \in rpcs : r.kind = "start" /\ r.npc = n
  \/ \E q \in {write_buffer, read_buffer} : \E k \in DOMAIN q :
       q[k].rpc.kind = "start" /\ q[k].rpc.npc = n

\* A player is in a dialogue with the NPC, or is about to be.
InTalk(n) == StartPending(n) \/ \E e \in Talkers(alive) : dialogue[e].npc = n

\* Broken variant: a busy NPC can be talked to.
AnyNpc(n) == TRUE

NotBusy(n) == n \notin npcBusy

\* The NPC is in reach and has no BusyTag: both are marked busy.
TalkToNpc ==
  /\ NextCommand("talk")
  /\ LET s == Head(local_commands).session
         n == Head(local_commands).npc
         player == by_session_index[s]
     IN  /\ player # Null
         /\ NotBusy(n)
         /\ npcBusy' = npcBusy \cup {n}
         /\ playerBusy' = playerBusy \cup {player}
         /\ taken' = IF InTalk(n) THEN taken ELSE taken \ {n}
         /\ requests' = requests + 1
         /\ rpcs' = rpcs \cup {[n |-> requests + 1, kind |-> "start", session |-> s,
                                player |-> player, npc |-> n]}
  /\ UNCHANGED <<alive, tag, id, dialogue, by_session_index, by_npc_id, told, loggedIn>>

\* No player, no such NPC, too far away, or already talking: nothing happens.
TalkRefused ==
  /\ NextCommand("talk")
  /\ UNCHANGED <<rpcs, requests, world>>

\* The NPC to release is the one of the dialogue the player is in right now, if
\* any; the dialogue to end at the AI server is the one the client names.  The RPC
\* keeps what its callback captures.
EndDialogue ==
  /\ NextCommand("end")
  /\ LET s == Head(local_commands).session
         player == by_session_index[s]
         npc == IF player # Null /\ dialogue[player] # Null
                  THEN dialogue[player].npc ELSE Null
     IN  /\ requests' = requests + 1
         /\ rpcs' = rpcs \cup {[n |-> requests + 1, kind |-> "end", session |-> s,
                                player |-> player, npc |-> npc,
                                sid |-> Head(local_commands).sid]}
  /\ UNCHANGED world

\* The rest of the frame: a melee hit takes the BusyTag of its victim away.
EndFrame ==
  /\ phase = "commands" /\ local_commands = <<>>
  /\ phase' = "drain"
  /\ \E S \in SUBSET npcBusy : TagsTaken(S)
  /\ UNCHANGED <<threads, local_commands, read_buffer, unchecked, to_cleanup, server>>

-----------------------------------------------------------------------------

IoNext ==
  \E s \in Sessions :
    \/ Connect(s) \/ Disconnect(s)
    \/ \E name \in Names : SendLogin(s, name)
    \/ \E n \in Npcs : SendTalk(s, n)
    \/ SendEnd(s)

GrpcNext ==
  \E acted \in BOOLEAN :
    \/ \E r \in rpcs : Lose(r, acted) \/ \E ok \in BOOLEAN : Complete(r, ok, acted)
    \/ \E sid \in closing : CloseAtServer(sid, acted)

MainNext ==
  \/ StartDrain \/ RunTask \/ NpcDialogueTask
  \/ StartCleanup \/ CleanUp \/ \E e \in Ents : CheckPlayer(e)
  \/ FetchCommands \/ Login \/ TalkToNpc \/ TalkRefused \/ EndDialogue \/ EndFrame

Next == IoNext \/ GrpcNext \/ MainNext

Spec == Init /\ [][Next]_vars

\* The game loop goes on, and every RPC has a deadline.  Clients owe nothing.
Fairness ==
  /\ WF_vars(MainNext)
  /\ \A n \in 1 .. MaxCommands :
       WF_vars(\E r \in rpcs, ok, acted \in BOOLEAN : r.n = n /\ Complete(r, ok, acted))

FairSpec == Spec /\ Fairness

-----------------------------------------------------------------------------

Task == [rpc : Rpc, ok : BOOLEAN]

TypeOK ==
  /\ conn \in [Sessions -> {"new", "open", "closed"}]
  /\ commands \in Seq(Command) /\ local_commands \in Seq(Command)
  /\ sentCommands \in 0 .. MaxCommands
  /\ rpcs \subseteq Rpc /\ requests \in Nat /\ lost \in 0 .. MaxLost /\ dropped \subseteq alive
  /\ write_buffer \in Seq(Task) /\ read_buffer \in Seq(Task)
  /\ phase \in {"drain", "tasks", "cleanup", "fetch", "commands"}
  /\ alive \subseteq Ents
  /\ unchecked \subseteq alive /\ to_cleanup \subseteq alive
  /\ tag \in [Ents -> Sessions \cup {Null}] /\ id \in [Ents -> Ids \cup {Null}]
  /\ \A e \in alive : tag[e] # Null /\ id[e] # Null
  /\ playerBusy \subseteq alive /\ npcBusy \subseteq Npcs /\ taken \subseteq Npcs
  /\ dialogue \in [Ents -> Dialogue \cup {Null}]
  /\ by_session_index \in [Sessions -> Ents \cup {Null}]
  /\ by_npc_id \in [Ids -> Ents \cup {Null}]
  /\ told \in [Sessions -> Nat]
  /\ loggedIn \in [Sessions -> Names \cup {Null}]
  /\ ai_open \subseteq Nat /\ closing \subseteq Nat /\ stray \subseteq ai_open

\* The commands and the login read components through the indices without
\* asking whether the entity is valid.  They may: an index entry never outlives
\* its entity, nor names one that has moved to another session or account.
IndexSafety ==
  /\ \A s \in Sessions : by_session_index[s] # Null =>
       by_session_index[s] \in alive /\ tag[by_session_index[s]] = s
  /\ \A i \in Ids : by_npc_id[i] # Null =>
       by_npc_id[i] \in alive /\ id[by_npc_id[i]] = i

\* An account has one player entity however often it logs in again, even when
\* the login overtakes the cleanup of the connection it lost.
OnePlayerPerAccount ==
  \A e, f \in alive : id[e] = id[f] => e = f

\* What a dead player leaves in flight does nothing to the others: a player
\* entity that does not exist has neither a tag nor a dialogue to its name.
NoComponentOnDead ==
  \A e \in Ents \ alive : e \notin playerBusy /\ dialogue[e] = Null

\* A session that is gone is forgotten: in the end no player is bound to it and
\* the index has no entry for it, though commands it had queued still run.
SessionForgotten ==
  \A s \in Sessions :
    conn[s] = "closed" ~>
      [](by_session_index[s] = Null /\ \A e \in alive : tag[e] # s)

\* An NPC that is marked busy is waiting for a dialogue to be opened or is in
\* one with a player that exists: nobody else will ever release it.
BusyNpcAccounted == \A n \in npcBusy : InTalk(n)

\* An NPC in a dialogue with a player is marked busy, and is in one with no other
\* player, unless a hit or an old dialogue of NPCs took its BusyTag away while it was
\* talked to: from then on any other player can talk to it as well, and the first of
\* the dialogues to end releases it from both.
NpcKeptForTalk ==
  \A e \in Talkers(alive) :
    \/ dialogue[e].npc \in taken
    \/ /\ dialogue[e].npc \in npcBusy
       /\ \A f \in Talkers(alive) : dialogue[f].npc = dialogue[e].npc => f = e

\* A dialogue that is open at the AI server is known here: to its player, to a task
\* that is about to tell the player, or to the cleanup that ends it.  Out of reach are
\* those a failed call left open: one that ran into its deadline after the AI server
\* had opened the dialogue, whose id nobody learns, and one that should have ended it,
\* which SystemPlayer.cpp does not try again.
NoOrphanDialogue ==
  \A sid \in ai_open \ stray :
    \/ \E e \in Talkers(alive) : dialogue[e].sid = sid
    \/ \E q \in {write_buffer, read_buffer} : \E k \in DOMAIN q :
         q[k].ok /\ q[k].rpc.kind = "start" /\ q[k].rpc.n = sid
    \/ sid \in closing

\* A player that is marked busy and in no dialogue: one that waits for its dialogue.
Waiting(e) == e \in playerBusy /\ dialogue[e] = Null

\* No player waits for ever, whatever its client and the others do meanwhile, but for
\* one whose callback AsyncGrpcClient dropped: its session has to go, or its client to
\* end a dialogue it never got, before its BusyTag is taken away.
NobodyWaitsForEver ==
  \A e \in Ents :
    \/ []<>~Waiting(e)
    \/ <>[](Waiting(e) /\ e \in dropped /\ conn[tag[e]] = "open")
=============================================================================
