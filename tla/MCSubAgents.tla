----------------------------- MODULE MCSubAgents -----------------------------
(***************************************************************************)
(* The sub-agent manager with a few agents, for TLC.                       *)
(***************************************************************************)
EXTENDS SubAgents

MCOneAgent == {1}
MCTwoAgents == 1 .. 2
=============================================================================
