--------------------------- MODULE StatusReplica ---------------------------
(***************************************************************************)
(* What the status synchronisation promises: the AI server holds a replica *)
(* of the row (location, emotion, activity) of every agent, some versions  *)
(* behind at times but never going back, and the game server's note of     *)
(* what has been synchronised never runs ahead of the replica.             *)
(***************************************************************************)
EXTENDS Naturals

CONSTANT Agents

VARIABLES
  row,      \* the version of each agent's row, counted from 1
  known,    \* the version the AI server has
  synced    \* the version the game server takes it to have

Init == row = [n \in Agents |-> 1] /\ known = row /\ synced = row

Change ==
  /\ \E n \in Agents : row' = [row EXCEPT ![n] = @ + 1]
  /\ UNCHANGED <<known, synced>>

Forward(old, new, limit) == \A n \in Agents : old[n] <= new[n] /\ new[n] <= limit[n]

Deliver ==
  /\ known' \in [Agents -> Nat] /\ Forward(known, known', row)
  /\ UNCHANGED <<row, synced>>

Acknowledge ==
  /\ synced' \in [Agents -> Nat] /\ Forward(synced, synced', known)
  /\ UNCHANGED <<row, known>>

Next == Change \/ Deliver \/ Acknowledge

Spec == Init /\ [][Next]_<<row, known, synced>>
=============================================================================
