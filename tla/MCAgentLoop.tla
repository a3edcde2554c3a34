----------------------------- MODULE MCAgentLoop -----------------------------
(***************************************************************************)
(* The agent loop on its own, for TLC.                                     *)
(***************************************************************************)
EXTENDS AgentLoop

MCManyKinds == {"unknown", "escape", "read", "secret", "delegate", "write", "shell"}
MCRiskyKinds == {"shell", "overwrite", "delegate", "escape"}
MCGuardKinds == {"escape", "write", "commit"}
=============================================================================
