--------------------------- MODULE PatientClients ---------------------------
(***************************************************************************)
(* PlayerDialogue with clients that let one request be settled before they *)
(* make the next one.  A client that hangs up may do so in the middle of a *)
(* dialogue, but not while a request of its own is under way; it ends its  *)
(* dialogue before it starts another; and an account is used by one client *)
(* at a time.  RPCs may fail or run into their deadline, the frames and    *)
(* the threads interleave freely, and clients may come back as another     *)
(* session before the cleanup has noticed that they were gone.             *)
(*                                                                         *)
(* Under these clients the bookkeeping of BusyTags and dialogues is right, *)
(* but for tags that other systems take away and for calls that fail.      *)
(* None of these rules is enforced by the code, and without the first one  *)
(* an NPC stays busy for good (BusyNpcAccounted of PlayerDialogue).        *)
(***************************************************************************)
EXTENDS PlayerDialogue

\* Nothing the session asked for is under way.
Settled(s) ==
  /\ \A q \in {commands, local_commands} : \A k \in DOMAIN q : q[k].session # s
  /\ \A r \in rpcs : r.session # s
  /\ \A q \in {write_buffer, read_buffer} : \A k \in DOMAIN q : q[k].rpc.session # s

\* No other client uses the account, or is about to.
AccountFree(s, name) ==
  /\ \A t \in Sessions \ {s} :
       conn[t] = "open" /\ loggedIn[t] # Null => NumericId(loggedIn[t]) # NumericId(name)
  /\ \A q \in {commands, local_commands} : \A k \in DOMAIN q : q[k].type # "login"

Player(s) == by_session_index[s]

Patient(s) ==
  \/ Disconnect(s)
  \/ \E name \in Names : AccountFree(s, name) /\ SendLogin(s, name)
  \/ /\ Player(s) # Null
     /\ dialogue[Player(s)] = Null
     /\ \E n \in Npcs : SendTalk(s, n)
  \/ /\ Player(s) # Null
     /\ dialogue[Player(s)] # Null
     /\ dialogue[Player(s)].sid = told[s]
     /\ SendEnd(s)

PatientIoNext == \E s \in Sessions : Connect(s) \/ (Settled(s) /\ Patient(s))

PatientNext == PatientIoNext \/ GrpcNext \/ MainNext

PatientSpec == Init /\ [][PatientNext]_vars

FairPatientSpec == PatientSpec /\ Fairness
=============================================================================
