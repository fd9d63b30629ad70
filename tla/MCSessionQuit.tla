--------------------------- MODULE MCSessionQuit ---------------------------
(* Instantiates SessionQuit for TLC.  Three WebDrivers over two handles: two   *)
(* share a handle, and one has its own.                                        *)
EXTENDS SessionQuit
=============================================================================
