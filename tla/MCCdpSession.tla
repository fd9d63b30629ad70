---------------------------- MODULE MCCdpSession ----------------------------
(* Two clones of one session for TLC. *)
EXTENDS CdpSession

CONSTANT network

(* Events of this session and of another one, and one that does not decode
   and is longer than what the warning prints of it. *)
MCTraffic == {[session |-> s, dom |-> network, shape |-> "typed"] : s \in {Mine, Other}}
               \cup {[session |-> Mine, dom |-> network, shape |-> "wide"]}
=============================================================================
