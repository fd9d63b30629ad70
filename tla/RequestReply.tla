---------------------------- MODULE RequestReply ----------------------------
(***************************************************************************)
(* What a caller of send_raw may rely on, with the connection hidden.      *)
(* Every call is one request under an id of its own.  The remote end       *)
(* executes a request at most once.  A call ends with the outcome of its   *)
(* own request, with a connection error, or because the caller gave up.    *)
(***************************************************************************)
CONSTANTS Callers, Ids, Outcomes, Empty

VARIABLES
  issued,     \* ids of the requests made so far
  request,    \* the request of each caller's current call, 0 if none
  answer,     \* what the caller has been told
  executed    \* the outcome of each request, "none" before it is executed

vars == <<issued, request, answer, executed>>

Init ==
  /\ issued   = {}
  /\ request  = [c \in Callers |-> 0]
  /\ answer   = [c \in Callers |-> Empty]
  /\ executed = [i \in Ids |-> "none"]

Begin(c) ==
  /\ request[c] = 0
  /\ \E i \in Ids \ issued :
       /\ issued' = issued \cup {i}
       /\ request' = [request EXCEPT ![c] = i]
  /\ UNCHANGED <<answer, executed>>

Execute(i) ==
  /\ i \in issued /\ executed[i] = "none"
  /\ \E o \in Outcomes : executed' = [executed EXCEPT ![i] = o]
  /\ UNCHANGED <<issued, request, answer>>

Answer(c) ==
  /\ request[c] # 0 /\ answer[c] = Empty /\ executed[request[c]] # "none"
  /\ answer' = [answer EXCEPT ![c] = executed[request[c]]]
  /\ UNCHANGED <<issued, request, executed>>

(* The connection ends: every unanswered call in S is told so at once. *)
Fail(S) ==
  /\ \A c \in S : request[c] # 0
  /\ answer' = [c \in Callers |-> IF c \in S THEN "closed" ELSE answer[c]]
  /\ UNCHANGED <<issued, request, executed>>

End(c) ==
  /\ request[c] # 0
  /\ request' = [request EXCEPT ![c] = 0]
  /\ answer' = [answer EXCEPT ![c] = Empty]
  /\ UNCHANGED <<issued, executed>>

Next ==
  \/ \E c \in Callers : Begin(c) \/ Answer(c) \/ End(c)
  \/ \E i \in Ids : Execute(i)
  \/ \E S \in SUBSET {c \in Callers : answer[c] = Empty} : Fail(S)

Spec == Init /\ [][Next]_vars
=============================================================================
