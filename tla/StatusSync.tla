---------------------------- MODULE StatusSync ----------------------------
(***************************************************************************)
(* Status synchronisation: SystemNetworkSync, BatchUpdateAgentStatus and   *)
(* LastSyncedComp, in the frames and hours of the game clock.              *)
(*                                                                         *)
(* Every hour the rows (location, emotion, activity) that differ from what *)
(* was last synchronised go to the AI server as one batch; the values are  *)
(* noted as synchronised when the batch is acknowledged.  A batch that     *)
(* fails, or whose callback an exception drops, is not repeated: the rows  *)
(* still differ in the next hour.                                          *)
(*                                                                         *)
(* Composition: the clock is WorldTick, each of whose actions is taken     *)
(* together with what it means here.  Versions of a row are its places in  *)
(* the history "past", so that a note or a message names a version while   *)
(* the code's test compares values.                                        *)
(***************************************************************************)
EXTENDS WorldTick

CONSTANTS
  Agents,               \* the NPCs; players have no row here
  Values,               \* what a row can be
  Start,                \* the rows the AI server sends at the bootstrap
  MaxChanges            \* bound: changes of a row

ASSUME SyncAssumption ==
  /\ Start \in [Agents -> Values] /\ MaxChanges \in Nat
  /\ IsFiniteSet(Agents)
  /\ 2 * Deadline <= TicksPerHour      \* 100 and 200 frames

VARIABLES
  past,                 \* the values of each row so far; the last is the present one
  synced,               \* LastSyncedComp, the version
  batches,              \* BatchUpdateAgentStatus calls in flight
  acks, acks_due,       \* the tasks of good answers: pushed; due in this frame
  hour_row,             \* history: the version of each row at the last hour
  known,                \* external: the version the AI server has
  doubt,                \* history: agents of a failed batch that the AI server got
  missed                \* history: agents whose row the last hour did not report

rows == <<past, synced, batches, acks, acks_due, hour_row, known, doubt, missed>>
allvars == <<vars, rows>>

Row(n) == Len(past[n])
Value(n, version) == past[n][version]
Noted(S) == UNION {DOMAIN a : a \in S}
Elements(seq) == {seq[i] : i \in DOMAIN seq}

SyncInit ==
  /\ Init
  /\ past = [n \in Agents |-> <<Start[n]>>]
  /\ synced = [n \in Agents |-> 1] /\ known = synced /\ hour_row = synced
  /\ batches = {} /\ acks = <<>> /\ acks_due = <<>>
  /\ doubt = {} /\ missed = {}

\* The systems and tasks of a frame change what an NPC does, feels and where it is.
Change(n, v) ==
  /\ phase = "tasks" /\ v # Value(n, Row(n)) /\ Row(n) <= MaxChanges
  /\ past' = [past EXCEPT ![n] = Append(@, v)]
  /\ UNCHANGED <<vars, synced, batches, acks, acks_due, hour_row, known, doubt, missed>>

-----------------------------------------------------------------------------
(* The batch under way and its answer.                                     *)

\* b[n], for those the batch is about
Updated(old, b) == [n \in Agents |-> IF n \in DOMAIN b THEN b[n] ELSE old[n]]

Over(b) ==
  /\ b \in batches /\ batches' = batches \ {b}
  /\ UNCHANGED <<vars, past, synced, acks_due, hour_row>>

BatchAnswered(b) ==
  /\ Over(b)
  /\ known' = Updated(known, b.rows)
  /\ acks' = Append(acks, b.rows)
  /\ doubt' = doubt \ DOMAIN b.rows /\ missed' = missed \ DOMAIN b.rows

\* An error status or an exception: the AI server has got the batch or not, and
\* the game server learns of neither.
BatchFails(b) ==
  /\ Over(b)
  /\ \/ /\ known' = Updated(known, b.rows) /\ doubt' = doubt \cup DOMAIN b.rows
        /\ UNCHANGED missed
     \/ /\ missed' = missed \cup DOMAIN b.rows
        /\ UNCHANGED <<known, doubt>>
  /\ UNCHANGED acks

\* Broken variant: what is noted is the row of this moment, not the one sent.
BatchNotedLate ==
  /\ phase = "tasks" /\ acks_due # <<>>
  /\ synced' = Updated(synced, [n \in DOMAIN Head(acks_due) |-> Row(n)])
  /\ acks_due' = Tail(acks_due)
  /\ UNCHANGED <<vars, past, batches, acks, hour_row, known, doubt, missed>>

BatchNoted ==
  /\ phase = "tasks" /\ acks_due # <<>>
  /\ synced' = Updated(synced, Head(acks_due))
  /\ acks_due' = Tail(acks_due)
  /\ UNCHANGED <<vars, past, batches, acks, hour_row, known, doubt, missed>>

-----------------------------------------------------------------------------
(* The frames of WorldTick.                                                *)

Elsewhere == UNCHANGED rows

DrainBoth ==
  /\ StartDrain
  /\ acks_due' = acks /\ acks' = <<>>
  /\ UNCHANGED <<past, synced, batches, hour_row, known, doubt, missed>>

\* Like the other RPCs a batch is over by its deadline.
AcksDone == acks_due = <<>> /\ \A b \in batches : b.age < Deadline

\* Broken variant: a row is compared with that of the last hour.
ChangedSinceHour == {n \in Agents : Value(n, Row(n)) # Value(n, hour_row[n])}

\* The rows to send: the test compares values.
Changed == {n \in Agents : Value(n, Row(n)) # Value(n, synced[n])}

Send(S) ==
  batches' = IF S = {} THEN batches
             ELSE batches \cup {[rows |-> [n \in S |-> Row(n)], age |-> 0]}

SyncHistory ==
  /\ hour_row' = [n \in Agents |-> Row(n)]
  /\ missed' = Noted(Elements(acks))

\* Broken variant: what is sent is noted at once.
NotedWhenSent ==
  /\ Send(Changed) /\ SyncHistory
  /\ synced' = [n \in Agents |-> Row(n)]
  /\ UNCHANGED <<past, acks, acks_due, known, doubt>>

SystemNetworkSync ==
  /\ Send(Changed) /\ SyncHistory
  /\ UNCHANGED <<past, synced, acks, acks_due, known, doubt>>

HourAndSync == NewHour /\ AcksDone /\ SystemNetworkSync

FrameWithoutHour == NoNewHour /\ AcksDone /\ Elsewhere

NextFrameBoth ==
  /\ NextFrame
  /\ batches' = {[b EXCEPT !.age = @ + 1] : b \in batches}
  /\ UNCHANGED <<past, synced, acks, acks_due, hour_row, known, doubt, missed>>

SyncMain ==
  \/ DrainBoth \/ BatchNoted \/ HourAndSync \/ FrameWithoutHour \/ NextFrameBoth
  \/ Elsewhere /\ (TickAnswered \/ TickFailed \/ JobsAnswered \/ JobsFailed)
  \/ Elsewhere /\ (RequestTick \/ NoRequest)

SyncGrpc ==
  \/ Elsewhere /\ GrpcNext
  \/ \E b \in batches : BatchAnswered(b) \/ BatchFails(b)

SyncNext == SyncMain \/ SyncGrpc \/ \E n \in Agents, v \in Values : Change(n, v)

SyncSpec == SyncInit /\ [][SyncNext]_allvars

\* As in WorldTick; a batch is over by its deadline too.
SyncFairSpec ==
  /\ SyncSpec
  /\ WF_allvars(SyncMain)
  /\ WF_allvars(\E b \in batches : BatchAnswered(b) \/ BatchFails(b))
  /\ WF_allvars(Elsewhere /\ \E r \in rpcs, ok \in BOOLEAN : Complete(r, ok))
  /\ SF_allvars(Elsewhere /\ \E r \in rpcs : r.kind = "tick" /\ Complete(r, TRUE))

-----------------------------------------------------------------------------

Report(b) == DOMAIN b \subseteq Agents /\ \A n \in DOMAIN b : b[n] \in 1 .. Row(n)

SyncTypeOK ==
  /\ TypeOK
  /\ past \in [Agents -> Seq(Values)] /\ \A n \in Agents : Row(n) >= 1
  /\ \A n \in Agents : synced[n] \in 1 .. Row(n) /\ known[n] \in 1 .. Row(n)
  /\ \A n \in Agents : hour_row[n] \in 1 .. Row(n)
  /\ \A b \in batches : Report(b.rows) /\ b.age \in 0 .. Deadline
  /\ \A a \in Elements(acks \o acks_due) : Report(a)
  /\ doubt \subseteq Agents /\ missed \subseteq Agents

Quiet(n) ==
  /\ n \notin Noted({b.rows : b \in batches})
  /\ n \notin Noted(Elements(acks \o acks_due))

\* Once no batch and no answer about an agent is under way, what the game server
\* takes the AI server to have is what it has; unless a batch was received whose
\* failure was reported.
SyncedIsKnown == \A n \in Agents : Quiet(n) /\ n \notin doubt => synced[n] = known[n]

\* Once the batch of an hour is through, the AI server has the row of every agent as
\* of that hour, though only rows that differ from the ones synchronised are sent,
\* rows change and change back while answers are under way, and earlier batches
\* failed.  Excepted are the agents of a batch that was lost, or received and
\* reported as failed, and those whose last answer came too late for the hour.
HourReported ==
  \A n \in Agents :
    Quiet(n) /\ n \notin doubt \cup missed => Value(n, known[n]) = Value(n, hour_row[n])

Replica == INSTANCE StatusReplica WITH row <- [n \in Agents |-> Row(n)]

\* What the AI server has only moves forward, up to the present row, and what the
\* game server takes it to have follows: no answer overtakes another one.
ImplementsReplica == Replica!Spec
=============================================================================
