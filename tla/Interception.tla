---------------------------- MODULE Interception ----------------------------
(***************************************************************************)
(* Network interception over BiDi: InterceptGuard and the commands of      *)
(* NetworkModule (thirtyfour/src/bidi/modules/network.rs), used as the     *)
(* guide tells a program to (docs/src/bidi/events.md): subscribe first,    *)
(* register the intercept next, answer each paused request as its event    *)
(* comes, and remove the intercept or drop its guard at the end.           *)
(*                                                                         *)
(* A paused request stays paused until a command names it, also after its  *)
(* intercept has gone, so what matters is that its event reaches the       *)
(* program through the reader task's broadcast ring.                       *)
(***************************************************************************)
EXTENDS Naturals, Sequences, FiniteSets

CONSTANTS
  Requests,    \* what the page loads
  Secured,     \* those of them whose server asks for credentials
  Intercepts,  \* ids the browser gives out
  PhaseSets,   \* bound: the phases an intercept is registered for
  None, Off,   \* no intercept or request; no stream
  Capacity     \* EVENT_BUFFER, 1024 in the code

ASSUME CapacityAssumption == Capacity \in Nat \ {0}

VARIABLES
  owner,       \* the task with the guard: where it is in the recipe
  guard,       \* InterceptGuard::intercept, None once taken
  handler,     \* the task with the stream: the event it is answering, None, or Off
  jobs,        \* intercepts whose removal a Drop has spawned
  lost,        \* history: intercepts nobody will remove any more
  up,          \* commands on their way to the browser
  down,        \* replies and events on their way to the reader task
  replies,     \* replies handed to tasks that have not looked yet
  sent,        \* events broadcast so far; the ring holds the last Capacity
  next,        \* events the stream's receiver has gone past
  subscribed,  \* the browser sends network events
  fresh,       \* intercept ids not given out yet
  active,      \* the phases each registered intercept pauses
  stage        \* how far each request is

ownerVars == <<owner, guard, jobs, lost>>
browserVars == <<subscribed, fresh, active, stage>>
vars == <<ownerVars, handler, up, down, replies, sent, next, browserVars>>

Phases == {"beforeRequestSent", "responseStarted", "authRequired"}
ASSUME RequestsAssumption == Secured \subseteq Requests /\ PhaseSets \subseteq (SUBSET Phases) \ {{}}

Event(r, p, b) == [req |-> r, phase |-> p, blocked |-> b]
Events == [req : Requests, phase : Phases, blocked : BOOLEAN]
ASSUME NoneAssumption == {None, Off} \cap (Requests \cup Intercepts \cup Events) = {} /\ None # Off

(* The commands that name a paused request, and the phases each is for. *)
ContinueRequest == [cmd |-> "continueRequest", for |-> {"beforeRequestSent"}]
ContinueResponse == [cmd |-> "continueResponse", for |-> {"responseStarted"}]
ContinueWithAuth == [cmd |-> "continueWithAuth", for |-> {"authRequired"}]
FailRequest == [cmd |-> "failRequest", for |-> {"beforeRequestSent"}]
ProvideResponse == [cmd |-> "provideResponse", for |-> Phases]
Commands == {ContinueRequest, ContinueResponse, ContinueWithAuth, FailRequest, ProvideResponse}

(* Mutant: every phase is answered as beforeRequestSent is. *)
AnswersRequests(p) == {c.cmd : c \in {k \in Commands : "beforeRequestSent" \in k.for}}

(* What a program answers to a request paused in a phase. *)
Answers(p) == {c.cmd : c \in {k \in Commands : p \in k.for}}

TypeOK ==
  /\ owner \in {"start", "subscribing", "subscribed", "adding", "guarding", "removing"}
  /\ guard \in Intercepts \cup {None}
  /\ handler \in Events \cup {None, Off}
  /\ jobs \subseteq Intercepts /\ lost \subseteq Intercepts
  /\ sent \in Seq(Events) /\ next \in 0 .. Len(sent)
  /\ subscribed \in BOOLEAN /\ fresh \subseteq Intercepts
  /\ active \in [Intercepts -> SUBSET Phases]
  /\ stage \in [Requests -> {"new", "flying", "answered", "over"} \cup Phases]
  /\ guard # None => guard \notin jobs
  /\ \A r \in Requests : Cardinality({i \in DOMAIN sent : sent[i].req = r}) <= Cardinality(Phases)

Init ==
  /\ owner = "start" /\ guard = None /\ handler = Off
  /\ jobs = {} /\ lost = {} /\ up = <<>> /\ down = <<>> /\ replies = {} /\ sent = <<>> /\ next = 0
  /\ subscribed = FALSE /\ fresh = Intercepts
  /\ active = [i \in Intercepts |-> {}]
  /\ stage = [r \in Requests |-> "new"]

-----------------------------------------------------------------------------
Rng(s) == {s[i] : i \in DOMAIN s}

Command(cmd, arg) == up' = Append(up, [cmd |-> cmd, arg |-> arg])

IsReply(f, kind) == "reply" \in DOMAIN f /\ f.reply = kind

(* A task takes the reply it waits for. *)
Takes(kind, id) == /\ [reply |-> kind, id |-> id] \in replies
                   /\ replies' = replies \ {[reply |-> kind, id |-> id]}

(* (1) bidi.subscribe::<..>() and, when it is answered, the receiver. *)
Subscribe ==
  /\ owner = "start"
  /\ owner' = "subscribing"
  /\ Command("subscribe", None)
  /\ UNCHANGED <<guard, jobs, lost, handler, down, replies, sent, next, browserVars>>

Open ==
  /\ owner = "subscribing" /\ Takes("subscribe", None)
  /\ owner' = "subscribed"
  /\ handler' = None
  /\ next' = Len(sent)
  /\ UNCHANGED <<guard, jobs, lost, up, down, sent, browserVars>>

(* (2) NetworkModule::add_intercept. *)
AddIntercept(ps) ==
  /\ owner = "subscribed"
  /\ Cardinality({i \in DOMAIN up : up[i].cmd = "add, dropped"}) < Cardinality(fresh)
  /\ owner' = "adding"
  /\ Command("add", ps)
  /\ UNCHANGED <<guard, jobs, lost, handler, down, replies, sent, next, browserVars>>

Added ==
  /\ owner = "adding"
  /\ \E i \in Intercepts : Takes("add", i) /\ guard' = i
  /\ owner' = "guarding"
  /\ UNCHANGED <<jobs, lost, handler, up, down, sent, next, browserVars>>

(* The future of add_intercept is dropped: its reply names an id to nobody. *)
CancelAdd ==
  /\ owner = "adding"
  /\ owner' = "subscribed"
  /\ up' = [i \in DOMAIN up |-> IF up[i].cmd = "add" THEN [up[i] EXCEPT !.cmd = "add, dropped"] ELSE up[i]]
  /\ lost' = lost \cup {i \in Intercepts : [reply |-> "add", id |-> i] \in replies \cup Rng(down)}
  /\ down' = [i \in DOMAIN down |-> IF IsReply(down[i], "add") THEN [down[i] EXCEPT !.reply = "dropped"] ELSE down[i]]
  /\ replies' = {f \in replies : f.reply # "add"}
  /\ UNCHANGED <<guard, jobs, handler, sent, next, browserVars>>

(* (5) InterceptGuard::remove takes the id out of the guard, so that Drop has
   nothing left to do, and sends the removal. *)
RemoveIntercept ==
  /\ owner = "guarding"
  /\ owner' = "removing"
  /\ guard' = None
  /\ Command("remove", guard)
  /\ UNCHANGED <<jobs, lost, handler, down, replies, sent, next, browserVars>>

(* Its future is dropped while it waits for the map of pending calls: the id
   has been taken and the frame is not queued. *)
CancelRemove ==
  /\ owner = "guarding"
  /\ owner' = "subscribed"
  /\ guard' = None
  /\ lost' = lost \cup {guard}
  /\ UNCHANGED <<jobs, handler, up, down, replies, sent, next, browserVars>>

Removed ==
  /\ owner = "removing" /\ Takes("remove", None)
  /\ owner' = "subscribed"
  /\ UNCHANGED <<guard, jobs, lost, handler, up, down, sent, next, browserVars>>

(* Mutant: Drop leaves the removal to remove(). *)
DropGuardOnly(inRuntime) ==
  /\ owner = "guarding"
  /\ owner' = "subscribed"
  /\ guard' = None
  /\ UNCHANGED <<jobs, lost, handler, up, down, replies, sent, next, browserVars>>

(* Drop spawns the removal, if a runtime is current. *)
DropGuard(inRuntime) ==
  /\ owner = "guarding"
  /\ owner' = "subscribed"
  /\ guard' = None
  /\ IF inRuntime THEN jobs' = jobs \cup {guard} /\ UNCHANGED lost
                  ELSE lost' = lost \cup {guard} /\ UNCHANGED jobs
  /\ UNCHANGED <<handler, up, down, replies, sent, next, browserVars>>

RunJob(i) ==
  /\ i \in jobs
  /\ jobs' = jobs \ {i}
  /\ Command("remove, dropped", i)
  /\ UNCHANGED <<owner, guard, lost, handler, down, replies, sent, next, browserVars>>

-----------------------------------------------------------------------------
Overwritten == IF Len(sent) > Capacity THEN Len(sent) - Capacity ELSE 0

(* Mutant: after Lagged the stream resumes at the newest event. *)
PollResubscribes ==
  /\ handler = None /\ next < Len(sent)
  /\ IF next < Overwritten
     THEN next' = Len(sent) /\ UNCHANGED <<handler, up>>
     ELSE LET e == sent[next + 1] IN
          /\ next' = next + 1
          /\ IF e.blocked
             THEN \E a \in Answers(e.phase) : Command(a, e.req) /\ handler' = e
             ELSE UNCHANGED <<handler, up>>
  /\ UNCHANGED <<ownerVars, down, replies, sent, browserVars>>

(* (3, 4) The loop over the stream: a paused request is continued, failed or
   given a response.  A receiver that lags skips to the oldest event kept. *)
Poll ==
  /\ handler = None /\ next < Len(sent)
  /\ IF next < Overwritten
     THEN next' = Overwritten /\ UNCHANGED <<handler, up>>
     ELSE LET e == sent[next + 1] IN
          /\ next' = next + 1
          /\ IF e.blocked
             THEN \E a \in Answers(e.phase) : Command(a, e.req) /\ handler' = e
             ELSE UNCHANGED <<handler, up>>
  /\ UNCHANGED <<ownerVars, down, replies, sent, browserVars>>

(* The answer has been sent and acknowledged. *)
AnswerDone ==
  /\ handler \in Events /\ Takes("answer", None)
  /\ handler' = None
  /\ UNCHANGED <<ownerVars, up, down, sent, next, browserVars>>

(* The program leaves the loop. *)
DropStream ==
  /\ handler = None
  /\ handler' = Off
  /\ UNCHANGED <<ownerVars, up, down, replies, sent, next, browserVars>>

-----------------------------------------------------------------------------
(* The reader task: an event goes to the ring, a reply to its caller, if it waits. *)
Dispatch ==
  /\ down # <<>>
  /\ down' = Tail(down)
  /\ LET f == Head(down) IN
       /\ sent' = IF "reply" \in DOMAIN f THEN sent ELSE Append(sent, f)
       /\ replies' = IF "reply" \notin DOMAIN f \/ f.reply = "dropped" THEN replies ELSE replies \cup {f}
  /\ UNCHANGED <<ownerVars, handler, up, next, browserVars>>

Blocking(p) == {i \in Intercepts : p \in active[i]}

(* The phases in the order a request takes them: the server may ask for
   credentials before it answers. *)
Before(p) == CASE p = "beforeRequestSent" -> {"new"}
               [] p = "authRequired"      -> {"flying"}
               [] p = "responseStarted"   -> {"flying", "answered"}
After(p) == CASE p = "beforeRequestSent" -> "flying"
              [] p = "authRequired"      -> "answered"
              [] p = "responseStarted"   -> "over"

(* The browser reaches a phase of a request. *)
Reach(r, p) ==
  /\ stage[r] \in Before(p)
  /\ p = "authRequired" => r \in Secured
  /\ stage' = [stage EXCEPT ![r] = IF Blocking(p) # {} THEN p ELSE After(p)]
  /\ down' = IF subscribed THEN Append(down, Event(r, p, Blocking(p) # {})) ELSE down
  /\ UNCHANGED <<ownerVars, handler, up, replies, sent, next, subscribed, fresh, active>>

(* After a command the request goes on; a wrong or late one is an error and
   changes nothing, and is answered all the same. *)
Releases(cmd) == CASE cmd = "continueRequest"  -> {"beforeRequestSent"}
                   [] cmd = "continueResponse" -> {"responseStarted", "authRequired"}
                   [] cmd = "continueWithAuth" -> {"authRequired"}
                   [] OTHER                    -> Phases

Resume(r, cmd) ==
  stage' = [stage EXCEPT ![r] =
    IF @ \notin Releases(cmd) THEN @
    ELSE IF cmd \in {"failRequest", "provideResponse"} THEN "over" ELSE After(@)]

Execute ==
  /\ up # <<>>
  /\ up' = Tail(up)
  /\ LET f == Head(up)
         Reply(kind, id) == down' = Append(down, [reply |-> kind, id |-> id])
     IN
     CASE f.cmd = "subscribe" ->
            /\ subscribed' = TRUE /\ Reply("subscribe", None)
            /\ UNCHANGED <<fresh, active, stage, lost>>
       [] f.cmd \in {"add", "add, dropped"} ->
            \E i \in fresh :
              /\ fresh' = fresh \ {i}
              /\ active' = [active EXCEPT ![i] = f.arg]
              /\ IF f.cmd = "add" THEN Reply("add", i) /\ UNCHANGED lost
                                  ELSE lost' = lost \cup {i} /\ UNCHANGED down
              /\ UNCHANGED <<subscribed, stage>>
       [] f.cmd \in {"remove", "remove, dropped"} ->
            /\ active' = [active EXCEPT ![f.arg] = {}]
            /\ IF f.cmd = "remove" THEN Reply("remove", None) ELSE UNCHANGED down
            /\ UNCHANGED <<subscribed, fresh, stage, lost>>
       [] OTHER ->
            /\ Resume(f.arg, f.cmd) /\ Reply("answer", None)
            /\ UNCHANGED <<subscribed, fresh, active, lost>>
  /\ UNCHANGED <<owner, guard, jobs, handler, replies, sent, next>>

Next ==
  \/ Subscribe \/ Open \/ Added \/ CancelAdd \/ RemoveIntercept \/ CancelRemove \/ Removed
  \/ \E ps \in PhaseSets : AddIntercept(ps)
  \/ \E inRuntime \in BOOLEAN : DropGuard(inRuntime)
  \/ \E i \in Intercepts : RunJob(i)
  \/ Poll \/ AnswerDone \/ DropStream \/ Dispatch \/ Execute
  \/ \E r \in Requests, p \in Phases : Reach(r, p)

(* Tasks that are ready run, replies are read, and the browser answers. *)
Fairness ==
  /\ WF_vars(Open) /\ WF_vars(Added) /\ WF_vars(Removed)
  /\ WF_vars(Poll) /\ WF_vars(AnswerDone) /\ WF_vars(Dispatch) /\ WF_vars(Execute)
  /\ \A i \in Intercepts : WF_vars(RunJob(i))

Spec == Init /\ [][Next]_vars /\ Fairness

-----------------------------------------------------------------------------
InFlight(r, p) ==
  \/ \E i \in DOMAIN down : down[i] = Event(r, p, TRUE)
  \/ \E i \in DOMAIN sent : sent[i] = Event(r, p, TRUE) /\ i > next
  \/ handler = Event(r, p, TRUE)

(* The event of a request was pushed out of the ring before it was read. *)
Missed(r, p) == \E i \in DOMAIN sent : sent[i] = Event(r, p, TRUE) /\ i <= Overwritten

(* A program that follows the guide knows of every paused request: its event
   is still to come, or the request is being answered.  Only an event that a
   thousand later ones (Capacity) pushed out of the ring leaves a request
   paused that the program will never hear of. *)
PausedIsKnown ==
  handler # Off =>
    \A r \in Requests, p \in Phases : stage[r] = p => InFlight(r, p) \/ Missed(r, p)

(* The types, and the requests that wait for the program. *)
RequestsAreKnown == TypeOK /\ PausedIsKnown

(* An intercept stays registered only as long as its guard lives or a command
   is about to remove it; what is lost is an intercept whose guard was dropped
   outside a runtime, or an add_intercept or remove() abandoned half way. *)
RegisteredIsGuarded ==
  \A i \in Intercepts : active[i] # {} =>
    \/ i = guard \/ i \in jobs \/ i \in lost
    \/ \E k \in DOMAIN up : up[k] \in [cmd : {"remove", "remove, dropped"}, arg : {i}]
    \/ [reply |-> "add", id |-> i] \in replies \cup Rng(down)

(* And a program that goes on reading lets every paused request go on. *)
PausedResumes ==
  \A r \in Requests, p \in Phases :
    stage[r] = p ~> stage[r] # p \/ handler = Off \/ Missed(r, p)

=============================================================================
