---------------------------- MODULE MCStatusSync ----------------------------
(* Values for TLC: the rows all start alike.                               *)
EXTENDS StatusSync

CONSTANTS idle, walks

MCStart == [n \in Agents |-> idle]
=============================================================================
