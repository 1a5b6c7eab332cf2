-------------------------- MODULE MCPlayerDialogue --------------------------
(***************************************************************************)
(* Instances of PlayerDialogue for TLC.  Sessions are handed out in any    *)
(* order and player handles are interchangeable, so both sets may be       *)
(* permuted in the runs that check safety.                                 *)
(***************************************************************************)
EXTENDS PatientClients, TLC

Symmetry == Permutations(Sessions) \cup Permutations(Ents)
=============================================================================
