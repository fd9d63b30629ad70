--------------------------- MODULE MCInterception ---------------------------
(* Two requests, of which one is asked for credentials, and one intercept of   *)
(* the one pair of phases or of the other phase, for TLC.                      *)
EXTENDS Interception
=============================================================================
