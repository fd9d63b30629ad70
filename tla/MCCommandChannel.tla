-------------------------- MODULE MCCommandChannel --------------------------
(* Instantiates CommandChannel for TLC.  Two callers and three calls: one     *)
(* call may be abandoned and two more overlap with each other and its reply.  *)
EXTENDS CommandChannel, TLC
=============================================================================
