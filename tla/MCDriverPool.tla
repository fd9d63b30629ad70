---------------------------- MODULE MCDriverPool ----------------------------
(* Instantiates DriverPool for TLC.  Three launchers race for one driver; two  *)
(* ports let children collide or not.                                          *)
EXTENDS DriverPool
=============================================================================
