-------------------------- MODULE MCSessionRuntime --------------------------
(***************************************************************************)
(* The session runtime with its agent controller and loop, for TLC.        *)
(***************************************************************************)
EXTENDS SessionRuntime

MCWriteCommit == {"write", "commit", "delegate"}
MCWriteRead == {"write", "read"}
MCWrite == {"write"}
=============================================================================
