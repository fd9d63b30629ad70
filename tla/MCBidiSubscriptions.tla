------------------------ MODULE MCBidiSubscriptions ------------------------
(* Instantiates BidiSubscriptions for TLC.  Three tasks on one event: one      *)
(* may leave, one arrive and one queue for the lock at the same time.  The     *)
(* lock is the only thing two events share.                                    *)
EXTENDS BidiSubscriptions, TLC
=============================================================================
