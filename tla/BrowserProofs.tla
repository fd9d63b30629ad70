---------------------------- MODULE BrowserProofs ----------------------------
(***************************************************************************)
(* Proofs about what a program does in a browser.  Interception, for any   *)
(* requests, intercepts and phases and any capacity of the ring: a program *)
(* that follows the guide hears of every paused request, and no intercept  *)
(* outlives its guard unnoticed.  Browser, for any number of tasks and of  *)
(* windows, any <select> and any script of calls: methods that work their  *)
(* way through windows end where they say, a selection is what its         *)
(* documentation names, a chain does what it was built for, and each       *)
(* context has the settings that were asked for it.                        *)
(***************************************************************************)
EXTENDS Interception, Browser, SequenceSums, FiniteSetTheorems, TLAPS

-----------------------------------------------------------------------------
(* Network interception *)

Replies == [reply : {"subscribe", "add", "remove", "answer", "dropped"}, id : Intercepts \cup {None}]

AnswerCmds == {"continueRequest", "continueResponse", "continueWithAuth", "failRequest", "provideResponse"}

Frames == [cmd : {"subscribe"}, arg : {None}] \cup [cmd : {"add", "add, dropped"}, arg : SUBSET Phases]
          \cup [cmd : {"remove", "remove, dropped"}, arg : Intercepts] \cup [cmd : AnswerCmds, arg : Requests]

Down == Seq(Replies \cup Events)

\* A command that removes this intercept.
Removals(i) == [cmd : {"remove", "remove, dropped"}, arg : {i}]

\* The browser replies.
Answered(kind, id) == down' = Append(down, [reply |-> kind, id |-> id])

\* The types; how often a request is in the ring follows from EventsAreOnce.
Types ==
  /\ owner \in {"start", "subscribing", "subscribed", "adding", "guarding", "removing"}
  /\ guard \in Intercepts \cup {None}
  /\ handler \in Events \cup {None, Off}
  /\ jobs \subseteq Intercepts /\ lost \subseteq Intercepts
  /\ sent \in Seq(Events) /\ next \in 0 .. Len(sent)
  /\ subscribed \in BOOLEAN /\ fresh \subseteq Intercepts
  /\ active \in [Intercepts -> SUBSET Phases]
  /\ stage \in [Requests -> {"new", "flying", "answered", "over"} \cup Phases]
  /\ up \in Seq(Frames) /\ down \in Seq(Replies \cup Events) /\ replies \subseteq Replies

Handling == handler \in Events

\* A command of this kind, or its reply, is under way at most once, and only
\* while its caller waits for it.
Kind(f) == IF f.cmd \in AnswerCmds THEN "answer" ELSE f.cmd

OneCallIn(u, d, r, kind, waits) ==
  /\ \A k \in DOMAIN u : Kind(u[k]) = kind =>
       /\ waits
       /\ \A l \in DOMAIN u : Kind(u[l]) = kind => k = l
       /\ \A f \in r \cup Rng(d) : ~IsReply(f, kind)
  /\ \A k \in DOMAIN d : IsReply(d[k], kind) =>
       /\ waits
       /\ \A l \in DOMAIN d : IsReply(d[l], kind) => k = l
       /\ \A f \in r : ~IsReply(f, kind)
  /\ \A f \in r : IsReply(f, kind) => waits /\ \A g \in r : IsReply(g, kind) => f = g

OneCall(kind, waits) == OneCallIn(up, down, replies, kind, waits)

\* The stages of a request, in the order it takes them.
Rank == [s \in {"new", "flying", "answered", "over"} \cup Phases |->
           IF s = "new" THEN 0 ELSE IF s = "beforeRequestSent" THEN 1 ELSE IF s = "flying" THEN 2
           ELSE IF s = "authRequired" THEN 3 ELSE IF s = "answered" THEN 4
           ELSE IF s = "responseStarted" THEN 5 ELSE 6]

Reached(e) == Rank[stage[e.req]] >= Rank[e.phase]
Past(e)    == Rank[stage[e.req]] > Rank[e.phase]

AddPending(i) == [reply |-> "add", id |-> i] \in replies \cup Rng(down)

\* An id is fresh, on its way to its guard, in the guard, or in a job.
IdsAreOwned ==
  /\ guard # None <=> owner = "guarding"
  /\ jobs \cap fresh = {} /\ guard \notin fresh \cup jobs
  /\ \A i \in Intercepts : AddPending(i) => i \notin fresh \cup jobs

\* The program answers the paused request it is at, and when the answer has
\* come the request has gone on.
AnswersAreHandlers ==
  /\ Handling => handler.blocked /\ Reached(handler)
  /\ \A k \in DOMAIN up : up[k].cmd \in AnswerCmds =>
       Handling /\ up[k].arg = handler.req /\ up[k].cmd \in Answers(handler.phase)
  /\ \A f \in replies \cup Rng(down) : IsReply(f, "answer") => Handling /\ Past(handler)

\* A request has one event for each phase it has reached.
Same(e, f) == e.req = f.req /\ e.phase = f.phase

EventsAreOnce ==
  /\ \A k \in DOMAIN sent : /\ Reached(sent[k])
                            /\ \A l \in DOMAIN sent : Same(sent[k], sent[l]) => k = l
                            /\ \A l \in DOMAIN down : down[l] \in Events => ~Same(sent[k], down[l])
  /\ \A k \in DOMAIN down : down[k] \in Events =>
                            /\ Reached(down[k])
                            /\ \A l \in DOMAIN down : down[l] \in Events /\ Same(down[k], down[l]) => k = l

\* Nothing is intercepted before the program has its stream.
SubscribedFirst ==
  /\ \A f \in replies \cup Rng(down) : IsReply(f, "subscribe") => subscribed
  /\ owner \in {"start", "subscribing"} =>
       /\ handler = Off
       /\ \A i \in Intercepts : active[i] = {}
       /\ \A k \in DOMAIN up : up[k].cmd \notin {"add", "add, dropped"}
       /\ \A r \in Requests : stage[r] \notin Phases
  /\ owner \notin {"start", "subscribing"} => subscribed

IInv == /\ Types
        /\ OneCall("add", owner = "adding") /\ OneCall("answer", Handling)
        /\ IdsAreOwned /\ AnswersAreHandlers /\ EventsAreOnce /\ SubscribedFirst
        /\ PausedIsKnown /\ RegisteredIsGuarded

-----------------------------------------------------------------------------

(* A frame from the browser is an event or a reply. *)
LEMMA FrameKinds ==
  /\ \A e \in Events : "reply" \notin DOMAIN e
  /\ \A f \in Replies : "reply" \in DOMAIN f
  BY DEF Events, Replies

(* What Append adds to a queue, and what it leaves. *)
LEMMA Appended ==
  ASSUME NEW S, NEW s \in Seq(S), NEW x \in S
  PROVE  /\ Append(s, x) \in Seq(S) /\ Len(Append(s, x)) = Len(s) + 1
         /\ DOMAIN Append(s, x) = DOMAIN s \cup {Len(s) + 1} /\ Len(s) + 1 \notin DOMAIN s
         /\ \A k \in DOMAIN s : Append(s, x)[k] = s[k]
         /\ Append(s, x)[Len(s) + 1] = x
         /\ Rng(Append(s, x)) = Rng(s) \cup {x}
<1>1. Append(s, x) \in Seq(S) /\ Len(Append(s, x)) = Len(s) + 1
  OBVIOUS
<1>2. DOMAIN Append(s, x) = DOMAIN s \cup {Len(s) + 1} /\ Len(s) + 1 \notin DOMAIN s
  OBVIOUS
<1>3. \A k \in DOMAIN s : Append(s, x)[k] = s[k]
  OBVIOUS
<1>4. Append(s, x)[Len(s) + 1] = x
  OBVIOUS
<1>5. Rng(Append(s, x)) = Rng(s) \cup {x}
  BY <1>2, <1>3, <1>4, Zenon DEF Rng
<1> QED
  BY <1>1, <1>2, <1>3, <1>4, <1>5

(* What Tail leaves of a queue. *)
LEMMA Rest ==
  ASSUME NEW S, NEW s \in Seq(S), s # <<>>
  PROVE  /\ Tail(s) \in Seq(S) /\ Head(s) \in S /\ 1 \in DOMAIN s /\ Head(s) = s[1]
         /\ \A k \in DOMAIN Tail(s) : k + 1 \in DOMAIN s /\ Tail(s)[k] = s[k + 1] /\ k \in Nat
         /\ \A k \in DOMAIN s : k = 1 \/ (k - 1 \in DOMAIN Tail(s) /\ k \in Nat)
         /\ Rng(s) = Rng(Tail(s)) \cup {Head(s)}
<1>1. /\ Tail(s) \in Seq(S) /\ Head(s) \in S /\ 1 \in DOMAIN s /\ Head(s) = s[1]
      /\ \A k \in DOMAIN Tail(s) : k + 1 \in DOMAIN s /\ Tail(s)[k] = s[k + 1] /\ k \in Nat
  OBVIOUS
<1>2. \A k \in DOMAIN s : k = 1 \/ (k - 1 \in DOMAIN Tail(s) /\ k \in Nat)
  OBVIOUS
<1>3. \A k \in DOMAIN s : s[k] = Head(s) \/ \E l \in DOMAIN Tail(s) : s[k] = Tail(s)[l]
  <2>1. \A k \in DOMAIN s : k # 1 => s[k] = Tail(s)[k - 1] /\ k - 1 \in DOMAIN Tail(s)
    BY <1>1, <1>2
  <2> QED
    BY <2>1, <1>1
<1>4. Rng(s) = Rng(Tail(s)) \cup {Head(s)}
  <2>1. Rng(Tail(s)) \cup {Head(s)} \subseteq Rng(s)
    BY <1>1 DEF Rng
  <2>2. Rng(s) \subseteq Rng(Tail(s)) \cup {Head(s)}
    BY <1>3 DEF Rng
  <2> QED
    BY <2>1, <2>2
<1> QED
  BY <1>1, <1>2, <1>4

(* An event is no reply, and a reply is of one kind. *)
LEMMA RepliesAre ==
  /\ \A e \in Events : \A kind : ~IsReply(e, kind)
  /\ \A f \in Replies : \A kind : IsReply(f, kind) <=> f.reply = kind
  BY FrameKinds DEF IsReply

(* A call that was made once still is when its caller waits on. *)
LEMMA CallKept ==
  ASSUME NEW u, NEW d, NEW r, NEW kind, NEW w \in BOOLEAN, NEW v \in BOOLEAN, OneCallIn(u, d, r, kind, w), w => v
  PROVE  OneCallIn(u, d, r, kind, v)
  BY DEF OneCallIn

(* Sending a frame of this kind starts the one call of it. *)
LEMMA CallAppended ==
  ASSUME NEW u \in Seq(Frames), NEW d, NEW r, NEW kind, NEW w \in BOOLEAN, NEW v \in BOOLEAN, NEW f \in Frames,
         OneCallIn(u, d, r, kind, w), IF Kind(f) = kind THEN ~w /\ v ELSE w => v
  PROVE  OneCallIn(Append(u, f), d, r, kind, v)
<1>1. /\ DOMAIN Append(u, f) = DOMAIN u \cup {Len(u) + 1} /\ Len(u) + 1 \notin DOMAIN u
      /\ \A k \in DOMAIN u : Append(u, f)[k] = u[k]
      /\ Append(u, f)[Len(u) + 1] = f
  BY Appended
<1>2. CASE Kind(f) = kind
  <2>1. /\ \A k \in DOMAIN u : Kind(u[k]) # kind
        /\ \A k \in DOMAIN d : ~IsReply(d[k], kind)
        /\ \A x \in r : ~IsReply(x, kind)
    BY <1>2 DEF OneCallIn
  <2>2. \A x \in r \cup Rng(d) : ~IsReply(x, kind)
    BY <2>1 DEF Rng
  <2> QED
    BY <1>1, <1>2, <2>1, <2>2, Zenon DEF OneCallIn
<1>3. CASE Kind(f) # kind
  BY <1>1, <1>3, Zenon DEF OneCallIn
<1> QED
  BY <1>2, <1>3

(* The browser takes a command from the queue. *)
LEMMA CallTaken ==
  ASSUME NEW u \in Seq(Frames), u # <<>>, NEW d, NEW r, NEW kind, NEW w \in BOOLEAN, OneCallIn(u, d, r, kind, w)
  PROVE  OneCallIn(Tail(u), d, r, kind, w)
<1>1. \A k \in DOMAIN Tail(u) : k + 1 \in DOMAIN u /\ Tail(u)[k] = u[k + 1] /\ k \in Nat
  BY Rest
<1>2. \A k, l \in DOMAIN Tail(u) : k + 1 = l + 1 => k = l
  BY <1>1
<1> QED
  BY <1>1, <1>2, Zenon DEF OneCallIn

(* A frame that is no reply of this kind joins the queue of replies. *)
LEMMA EventCame ==
  ASSUME NEW u, NEW d \in Down, NEW r, NEW kind, NEW w \in BOOLEAN, OneCallIn(u, d, r, kind, w),
         NEW e \in Replies \cup Events, ~IsReply(e, kind)
  PROVE  OneCallIn(u, Append(d, e), r, kind, w)
<1>1. /\ DOMAIN Append(d, e) = DOMAIN d \cup {Len(d) + 1} /\ Len(d) + 1 \notin DOMAIN d
      /\ \A k \in DOMAIN d : Append(d, e)[k] = d[k]
      /\ Append(d, e)[Len(d) + 1] = e
      /\ Rng(Append(d, e)) = Rng(d) \cup {e}
  BY Appended DEF Down
<1> QED
  BY <1>1, Zenon DEF OneCallIn

(* The browser takes a command and replies to it. *)
LEMMA CallExecuted ==
  ASSUME NEW u \in Seq(Frames), u # <<>>, NEW d \in Down, NEW r, NEW kind, NEW w \in BOOLEAN,
         OneCallIn(u, d, r, kind, w), NEW x \in Replies, x.reply = kind => Kind(Head(u)) = kind
  PROVE  OneCallIn(Tail(u), Append(d, x), r, kind, w)
<1>1. OneCallIn(Tail(u), d, r, kind, w)
  BY CallTaken
<1>2. CASE x.reply # kind
  BY <1>1, <1>2, EventCame, RepliesAre
<1>3. CASE x.reply = kind
  <2>1. 1 \in DOMAIN u /\ Kind(u[1]) = kind
    BY <1>3, Rest
  <2>2. /\ w /\ \A l \in DOMAIN u : Kind(u[l]) = kind => l = 1
        /\ \A f \in r \cup Rng(d) : ~IsReply(f, kind)
    BY <2>1, Zenon DEF OneCallIn
  <2>3. \A k \in DOMAIN Tail(u) : Kind(Tail(u)[k]) # kind
    <3>1. \A k \in DOMAIN Tail(u) : k + 1 \in DOMAIN u /\ Tail(u)[k] = u[k + 1] /\ k \in Nat /\ k # 0
      BY Rest
    <3>2. \A k \in DOMAIN Tail(u) : k + 1 # 1
      BY <3>1
    <3> QED
      BY <2>2, <3>1, <3>2, Zenon
  <2>4. /\ DOMAIN Append(d, x) = DOMAIN d \cup {Len(d) + 1}
        /\ \A k \in DOMAIN d : Append(d, x)[k] = d[k] /\ d[k] \in Rng(d)
    BY Appended DEF Down, Rng
  <2> QED
    BY <2>2, <2>3, <2>4, Zenon DEF OneCallIn
<1> QED
  BY <1>2, <1>3

(* The reader task moves a reply to its caller, or drops it. *)
LEMMA CallDispatched ==
  ASSUME NEW u, NEW d \in Down, d # <<>>, NEW r \in SUBSET Replies, NEW kind, kind # "dropped", NEW w \in BOOLEAN,
         OneCallIn(u, d, r, kind, w), NEW q,
         q = IF "reply" \notin DOMAIN Head(d) \/ Head(d).reply = "dropped" THEN r ELSE r \cup {Head(d)}
  PROVE  OneCallIn(u, Tail(d), q, kind, w)
<1>1. /\ Head(d) \in Replies \cup Events /\ 1 \in DOMAIN d /\ Head(d) = d[1]
      /\ \A k \in DOMAIN Tail(d) : k + 1 \in DOMAIN d /\ Tail(d)[k] = d[k + 1] /\ k \in Nat /\ k # 0
      /\ Rng(d) = Rng(Tail(d)) \cup {Head(d)}
  BY Rest DEF Down
<1>2. \A k, l \in DOMAIN Tail(d) : (k + 1 = l + 1 => k = l) /\ k + 1 # 1
  BY <1>1
<1>3. q \subseteq r \cup {Head(d)}
  OBVIOUS
<1>4. CASE ~IsReply(Head(d), kind)
  <2>1. \A f \in q : IsReply(f, kind) => f \in r
    BY <1>3, <1>4
  <2> QED
    BY <1>1, <1>2, <2>1, Zenon DEF OneCallIn
<1>5. CASE IsReply(Head(d), kind)
  <2>1. /\ w /\ \A k \in DOMAIN u : Kind(u[k]) # kind
        /\ \A l \in DOMAIN d : IsReply(d[l], kind) => l = 1
        /\ \A f \in r : ~IsReply(f, kind)
    BY <1>1, <1>5, Zenon DEF OneCallIn
  <2>2. \A k \in DOMAIN Tail(d) : ~IsReply(Tail(d)[k], kind)
    BY <1>1, <1>2, <2>1, Zenon
  <2> QED
    BY <2>1, <2>2, <1>3, Zenon DEF OneCallIn
<1> QED
  BY <1>4, <1>5

(* A caller takes the reply. *)
LEMMA CallReturned ==
  ASSUME NEW u, NEW d, NEW r, NEW kind, NEW w \in BOOLEAN, NEW v \in BOOLEAN, OneCallIn(u, d, r, kind, w),
         NEW x \in r, IsReply(x, kind) \/ (w => v)
  PROVE  OneCallIn(u, d, r \ {x}, kind, v)
<1>1. CASE IsReply(x, kind)
  <2>1. /\ \A k \in DOMAIN u : Kind(u[k]) # kind
        /\ \A k \in DOMAIN d : ~IsReply(d[k], kind)
        /\ \A f \in r \ {x} : ~IsReply(f, kind)
    BY <1>1, Zenon DEF OneCallIn
  <2> QED
    BY <2>1, Zenon DEF OneCallIn
<1>2. CASE ~IsReply(x, kind)
  BY <1>2, Zenon DEF OneCallIn
<1> QED
  BY <1>1, <1>2

(* The order of the stages. *)
LEMMA RankIs ==
  /\ Rank["new"] = 0 /\ Rank["beforeRequestSent"] = 1 /\ Rank["flying"] = 2 /\ Rank["authRequired"] = 3
  /\ Rank["answered"] = 4 /\ Rank["responseStarted"] = 5 /\ Rank["over"] = 6
  /\ \A s \in {"new", "flying", "answered", "over"} \cup Phases : Rank[s] \in 0 .. 6
  BY DEF Rank, Phases

(* The domain and the elements of a queue. *)
LEMMA SeqIs ==
  ASSUME NEW S, NEW s \in Seq(S)
  PROVE  /\ DOMAIN s = 1 .. Len(s) /\ Len(s) \in Nat /\ \A k \in DOMAIN s : s[k] \in S
  OBVIOUS

(* A function on 1 .. n is a queue. *)
LEMMA IsSeq ==
  ASSUME NEW S, NEW n \in Nat, NEW f, f = [k \in 1 .. n |-> f[k]], \A k \in 1 .. n : f[k] \in S
  PROVE  f \in Seq(S)
<1>1. f \in [1 .. n -> S]
  BY Zenon
<1> QED
  BY <1>1

(* A request that is past a phase does not wait in it. *)
LEMMA PastHasGone ==
  ASSUME NEW r, NEW p \in Phases, Rank[stage[r]] > Rank[p]
  PROVE  stage[r] # p
  BY RankIs DEF Phases

(* The answers to each phase. *)
LEMMA AnswersAre ==
  /\ Answers("beforeRequestSent") = {"continueRequest", "failRequest", "provideResponse"}
  /\ Answers("responseStarted")   = {"continueResponse", "provideResponse"}
  /\ Answers("authRequired")      = {"continueWithAuth", "provideResponse"}
<1>1. \A p : Answers(p) = {c.cmd : c \in {k \in Commands : p \in k.for}}
  BY DEF Answers
<1>2. \A p : {k \in Commands : p \in k.for} =
         (IF p = "beforeRequestSent" THEN {ContinueRequest, FailRequest} ELSE {})
         \cup (IF p = "responseStarted" THEN {ContinueResponse} ELSE {})
         \cup (IF p = "authRequired" THEN {ContinueWithAuth} ELSE {})
         \cup (IF p \in Phases THEN {ProvideResponse} ELSE {})
  BY DEF Commands, ContinueRequest, ContinueResponse, ContinueWithAuth, FailRequest, ProvideResponse
<1>3. /\ ContinueRequest.cmd = "continueRequest" /\ FailRequest.cmd = "failRequest"
      /\ ContinueResponse.cmd = "continueResponse" /\ ContinueWithAuth.cmd = "continueWithAuth"
      /\ ProvideResponse.cmd = "provideResponse"
  BY DEF ContinueRequest, ContinueResponse, ContinueWithAuth, FailRequest, ProvideResponse
<1>4. Answers("beforeRequestSent") = {c.cmd : c \in {ContinueRequest, FailRequest, ProvideResponse}}
  <2>1. {k \in Commands : "beforeRequestSent" \in k.for} = {ContinueRequest, FailRequest, ProvideResponse}
    BY <1>2 DEF Phases
  <2> QED
    BY <1>1, <2>1
<1>5. Answers("responseStarted") = {c.cmd : c \in {ContinueResponse, ProvideResponse}}
  <2>1. {k \in Commands : "responseStarted" \in k.for} = {ContinueResponse, ProvideResponse}
    BY <1>2 DEF Phases
  <2> QED
    BY <1>1, <2>1
<1>6. Answers("authRequired") = {c.cmd : c \in {ContinueWithAuth, ProvideResponse}}
  <2>1. {k \in Commands : "authRequired" \in k.for} = {ContinueWithAuth, ProvideResponse}
    BY <1>2 DEF Phases
  <2> QED
    BY <1>1, <2>1
<1> QED
  BY <1>3, <1>4, <1>5, <1>6

(* The invariant holds at the start. *)
LEMMA InitOK == Init => IInv
<1> SUFFICES ASSUME Init PROVE IInv
  OBVIOUS
<1> USE DEF Init
<1>1. Types
  <2>1. active \in [Intercepts -> SUBSET Phases] /\ stage \in [Requests -> {"new", "flying", "answered", "over"} \cup Phases]
    OBVIOUS
  <2>2. sent \in Seq(Events) /\ next \in 0 .. Len(sent) /\ up \in Seq(Frames) /\ down \in Seq(Replies \cup Events)
    OBVIOUS
  <2> QED
    BY <2>1, <2>2 DEF Types
<1>2. Rng(down) = {} /\ DOMAIN up = {} /\ DOMAIN down = {} /\ DOMAIN sent = {}
  BY DEF Rng
<1>3. OneCall("add", owner = "adding") /\ OneCall("answer", Handling)
  BY <1>2 DEF OneCall, OneCallIn
<1>4. ~Handling
  BY NoneAssumption DEF Handling
<1>5. IdsAreOwned /\ EventsAreOnce /\ SubscribedFirst /\ RegisteredIsGuarded
  BY <1>2, NoneAssumption DEF IdsAreOwned, EventsAreOnce, SubscribedFirst, RegisteredIsGuarded, AddPending, Phases
<1>6. AnswersAreHandlers /\ PausedIsKnown
  BY <1>2, <1>4 DEF AnswersAreHandlers, PausedIsKnown
<1> QED
  BY <1>1, <1>3, <1>5, <1>6 DEF IInv

(* The queue to the browser after a command has been sent. *)
LEMMA Sent ==
  ASSUME Types, NEW f \in Frames, up' = Append(up, f)
  PROVE  /\ up' \in Seq(Frames)
         /\ DOMAIN up' = DOMAIN up \cup {Len(up) + 1} /\ Len(up) + 1 \notin DOMAIN up
         /\ \A k \in DOMAIN up : up'[k] = up[k]
         /\ up'[Len(up) + 1] = f
  BY Appended DEF Types

(* The calls after a command has been sent. *)
LEMMA SentCalls ==
  ASSUME Types, NEW f \in Frames, up' = Append(up, f), UNCHANGED <<down, replies>>, NEW kind,
         NEW w \in BOOLEAN, NEW v \in BOOLEAN, OneCallIn(up, down, replies, kind, w),
         IF Kind(f) = kind THEN ~w /\ v ELSE w => v
  PROVE  OneCallIn(up', down', replies', kind, v)
  BY CallAppended DEF Types

(* The same event is being answered. *)
LEMMA HandlingKept ==
  ASSUME handler' = handler
  PROVE  (Handling' <=> Handling) /\ Handling \in BOOLEAN /\ Handling' \in BOOLEAN
  BY DEF Handling

(* The guard has an intercept while the program keeps it. *)
LEMMA GuardIsSome ==
  ASSUME Types, IdsAreOwned, owner = "guarding"
  PROVE  guard \in Intercepts /\ guard # None
  BY DEF Types, IdsAreOwned

(* The program subscribes to network events. *)
LEMMA SubscribeOK ==
  ASSUME IInv, Subscribe
  PROVE  IInv'
<1> USE DEF Subscribe, ownerVars, browserVars
<1>0. Types /\ OneCall("add", owner = "adding") /\ OneCall("answer", Handling) /\ IdsAreOwned
      /\ AnswersAreHandlers /\ EventsAreOnce /\ SubscribedFirst /\ PausedIsKnown /\ RegisteredIsGuarded
  BY DEF IInv
<1> DEFINE heard == [cmd |-> "subscribe", arg |-> None]
<1>a. /\ heard \in Frames /\ Kind(heard) = "subscribe" /\ up' = Append(up, heard)
      /\ heard.cmd = "subscribe" /\ heard.arg = None /\ heard.cmd \notin AnswerCmds
  BY <1>0 DEF Frames, Kind, AnswerCmds, Command, Types
<1> HIDE DEF heard
<1>b. /\ up' \in Seq(Frames)
      /\ DOMAIN up' = DOMAIN up \cup {Len(up) + 1} /\ Len(up) + 1 \notin DOMAIN up
      /\ \A k \in DOMAIN up : up'[k] = up[k]
      /\ up'[Len(up) + 1] = heard
  BY <1>0, <1>a, Sent
<1>1. Types'
  BY <1>0, <1>b DEF Types
<1>2. OneCall("add", owner = "adding")'
  BY <1>0, <1>a, SentCalls DEF OneCall
<1>3. OneCall("answer", Handling)'
  <2>1. (Handling' <=> Handling) /\ Handling \in BOOLEAN /\ Handling' \in BOOLEAN
    BY HandlingKept
  <2> QED
    BY <1>0, <1>a, <2>1, SentCalls, Zenon DEF OneCall
<1>4. IdsAreOwned'
  BY <1>0 DEF IdsAreOwned, AddPending
<1>5. AnswersAreHandlers'
  BY <1>0, <1>a, <1>b DEF AnswersAreHandlers, Reached, Past, Handling, AnswerCmds
<1>6. EventsAreOnce'
  BY <1>0 DEF EventsAreOnce, Reached, Same
<1>7. SubscribedFirst'
  <2>1. \A k \in DOMAIN up' : up'[k] = heard \/ (k \in DOMAIN up /\ up'[k] = up[k])
    BY <1>b
  <2> QED
    BY <1>0, <1>a, <2>1 DEF SubscribedFirst
<1>8. PausedIsKnown'
  BY <1>0 DEF PausedIsKnown, InFlight, Missed, Overwritten, Event
<1>9. RegisteredIsGuarded'
  <2>1. \A j : \A k \in DOMAIN up : up[k] \in Removals(j) => k \in DOMAIN up' /\ up'[k] \in Removals(j)
    BY <1>b
  <2> QED
    BY <1>0, <2>1 DEF RegisteredIsGuarded, Removals
<1> QED
  BY <1>1, <1>2, <1>3, <1>4, <1>5, <1>6, <1>7, <1>8, <1>9 DEF IInv

(* remove() takes the id and sends the removal. *)
LEMMA RemoveOK ==
  ASSUME IInv, RemoveIntercept
  PROVE  IInv'
<1> USE DEF RemoveIntercept, ownerVars, browserVars
<1>0. Types /\ OneCall("add", owner = "adding") /\ OneCall("answer", Handling) /\ IdsAreOwned
      /\ AnswersAreHandlers /\ EventsAreOnce /\ SubscribedFirst /\ PausedIsKnown /\ RegisteredIsGuarded
  BY DEF IInv
<1> DEFINE heard == [cmd |-> "remove", arg |-> guard]
<1>a. /\ heard \in Frames /\ Kind(heard) = "remove" /\ up' = Append(up, heard)
      /\ heard.cmd = "remove" /\ heard.arg = guard /\ heard.cmd \notin AnswerCmds
  BY <1>0, GuardIsSome DEF Frames, Kind, AnswerCmds, Command, Types
<1> HIDE DEF heard
<1>b. /\ up' \in Seq(Frames)
      /\ DOMAIN up' = DOMAIN up \cup {Len(up) + 1} /\ Len(up) + 1 \notin DOMAIN up
      /\ \A k \in DOMAIN up : up'[k] = up[k]
      /\ up'[Len(up) + 1] = heard
  BY <1>0, <1>a, Sent
<1>1. Types'
  BY <1>0, <1>b DEF Types
<1>2. OneCall("add", owner = "adding")'
  BY <1>0, <1>a, SentCalls DEF OneCall
<1>3. OneCall("answer", Handling)'
  <2>1. (Handling' <=> Handling) /\ Handling \in BOOLEAN /\ Handling' \in BOOLEAN
    BY HandlingKept
  <2> QED
    BY <1>0, <1>a, <2>1, SentCalls, Zenon DEF OneCall
<1>4. IdsAreOwned'
  BY <1>0, NoneAssumption DEF IdsAreOwned, AddPending, Types
<1>5. AnswersAreHandlers'
  BY <1>0, <1>a, <1>b DEF AnswersAreHandlers, Reached, Past, Handling, AnswerCmds
<1>6. EventsAreOnce'
  BY <1>0 DEF EventsAreOnce, Reached, Same
<1>7. SubscribedFirst'
  <2>1. \A k \in DOMAIN up' : up'[k] = heard \/ (k \in DOMAIN up /\ up'[k] = up[k])
    BY <1>b
  <2> QED
    BY <1>0, <1>a, <2>1 DEF SubscribedFirst
<1>8. PausedIsKnown'
  BY <1>0 DEF PausedIsKnown, InFlight, Missed, Overwritten, Event
<1>9. RegisteredIsGuarded'
  <2>1. \A j : \A k \in DOMAIN up : up[k] \in Removals(j) => k \in DOMAIN up' /\ up'[k] \in Removals(j)
    BY <1>b
  <2>2. Len(up) + 1 \in DOMAIN up' /\ up'[Len(up) + 1] \in Removals(guard)
    BY <1>a, <1>b DEF Removals, heard
  <2> QED
    BY <1>0, <2>1, <2>2 DEF RegisteredIsGuarded, Removals
<1> QED
  BY <1>1, <1>2, <1>3, <1>4, <1>5, <1>6, <1>7, <1>8, <1>9 DEF IInv

(* The removal that a Drop has spawned is sent. *)
LEMMA RunJobOK ==
  ASSUME IInv, NEW i \in Intercepts, RunJob(i)
  PROVE  IInv'
<1> USE DEF RunJob, ownerVars, browserVars
<1>0. Types /\ OneCall("add", owner = "adding") /\ OneCall("answer", Handling) /\ IdsAreOwned
      /\ AnswersAreHandlers /\ EventsAreOnce /\ SubscribedFirst /\ PausedIsKnown /\ RegisteredIsGuarded
  BY DEF IInv
<1> DEFINE heard == [cmd |-> "remove, dropped", arg |-> i]
<1>a. /\ heard \in Frames /\ Kind(heard) = "remove, dropped" /\ up' = Append(up, heard)
      /\ heard.cmd = "remove, dropped" /\ heard.arg = i /\ heard.cmd \notin AnswerCmds
  BY <1>0 DEF Frames, Kind, AnswerCmds, Command, Types
<1> HIDE DEF heard
<1>b. /\ up' \in Seq(Frames)
      /\ DOMAIN up' = DOMAIN up \cup {Len(up) + 1} /\ Len(up) + 1 \notin DOMAIN up
      /\ \A k \in DOMAIN up : up'[k] = up[k]
      /\ up'[Len(up) + 1] = heard
  BY <1>0, <1>a, Sent
<1>1. Types'
  BY <1>0, <1>b DEF Types
<1>2. OneCall("add", owner = "adding")'
  BY <1>0, <1>a, SentCalls DEF OneCall
<1>3. OneCall("answer", Handling)'
  <2>1. (Handling' <=> Handling) /\ Handling \in BOOLEAN /\ Handling' \in BOOLEAN
    BY HandlingKept
  <2> QED
    BY <1>0, <1>a, <2>1, SentCalls, Zenon DEF OneCall
<1>4. IdsAreOwned'
  BY <1>0 DEF IdsAreOwned, AddPending
<1>5. AnswersAreHandlers'
  BY <1>0, <1>a, <1>b DEF AnswersAreHandlers, Reached, Past, Handling, AnswerCmds
<1>6. EventsAreOnce'
  BY <1>0 DEF EventsAreOnce, Reached, Same
<1>7. SubscribedFirst'
  <2>1. \A k \in DOMAIN up' : up'[k] = heard \/ (k \in DOMAIN up /\ up'[k] = up[k])
    BY <1>b
  <2> QED
    BY <1>0, <1>a, <2>1 DEF SubscribedFirst
<1>8. PausedIsKnown'
  BY <1>0 DEF PausedIsKnown, InFlight, Missed, Overwritten, Event
<1>9. RegisteredIsGuarded'
  <2>1. \A j : \A k \in DOMAIN up : up[k] \in Removals(j) => k \in DOMAIN up' /\ up'[k] \in Removals(j)
    BY <1>b
  <2>2. Len(up) + 1 \in DOMAIN up' /\ up'[Len(up) + 1] \in Removals(i)
    BY <1>a, <1>b DEF Removals, heard
  <2> QED
    BY <1>0, <2>1, <2>2 DEF RegisteredIsGuarded, Removals
<1> QED
  BY <1>1, <1>2, <1>3, <1>4, <1>5, <1>6, <1>7, <1>8, <1>9 DEF IInv

(* add_intercept() sends its command. *)
LEMMA AddInterceptOK ==
  ASSUME IInv, NEW ps \in PhaseSets, AddIntercept(ps)
  PROVE  IInv'
<1> USE DEF AddIntercept, ownerVars, browserVars
<1>0. Types /\ OneCall("add", owner = "adding") /\ OneCall("answer", Handling) /\ IdsAreOwned
      /\ AnswersAreHandlers /\ EventsAreOnce /\ SubscribedFirst /\ PausedIsKnown /\ RegisteredIsGuarded
  BY DEF IInv
<1> DEFINE heard == [cmd |-> "add", arg |-> ps]
<1>a. /\ heard \in Frames /\ Kind(heard) = "add" /\ up' = Append(up, heard)
      /\ heard.cmd = "add" /\ heard.arg = ps /\ heard.cmd \notin AnswerCmds
  BY <1>0, RequestsAssumption DEF Frames, Kind, AnswerCmds, Command, Types
<1> HIDE DEF heard
<1>b. /\ up' \in Seq(Frames)
      /\ DOMAIN up' = DOMAIN up \cup {Len(up) + 1} /\ Len(up) + 1 \notin DOMAIN up
      /\ \A k \in DOMAIN up : up'[k] = up[k]
      /\ up'[Len(up) + 1] = heard
  BY <1>0, <1>a, Sent
<1>1. Types'
  BY <1>0, <1>b DEF Types
<1>2. OneCall("add", owner = "adding")'
  BY <1>0, <1>a, SentCalls DEF OneCall
<1>3. OneCall("answer", Handling)'
  <2>1. (Handling' <=> Handling) /\ Handling \in BOOLEAN /\ Handling' \in BOOLEAN
    BY HandlingKept
  <2> QED
    BY <1>0, <1>a, <2>1, SentCalls, Zenon DEF OneCall
<1>4. IdsAreOwned'
  BY <1>0 DEF IdsAreOwned, AddPending
<1>5. AnswersAreHandlers'
  BY <1>0, <1>a, <1>b DEF AnswersAreHandlers, Reached, Past, Handling, AnswerCmds
<1>6. EventsAreOnce'
  BY <1>0 DEF EventsAreOnce, Reached, Same
<1>7. SubscribedFirst'
  <2>1. \A k \in DOMAIN up' : up'[k] = heard \/ (k \in DOMAIN up /\ up'[k] = up[k])
    BY <1>b
  <2> QED
    BY <1>0, <1>a, <2>1 DEF SubscribedFirst
<1>8. PausedIsKnown'
  BY <1>0 DEF PausedIsKnown, InFlight, Missed, Overwritten, Event
<1>9. RegisteredIsGuarded'
  <2>1. \A j : \A k \in DOMAIN up : up[k] \in Removals(j) => k \in DOMAIN up' /\ up'[k] \in Removals(j)
    BY <1>b
  <2> QED
    BY <1>0, <2>1 DEF RegisteredIsGuarded, Removals
<1> QED
  BY <1>1, <1>2, <1>3, <1>4, <1>5, <1>6, <1>7, <1>8, <1>9 DEF IInv

(* The program has its stream. *)
LEMMA OpenOK ==
  ASSUME IInv, Open
  PROVE  IInv'
<1> USE DEF Open, ownerVars, browserVars
<1>0. Types /\ OneCall("add", owner = "adding") /\ OneCall("answer", Handling) /\ IdsAreOwned
      /\ AnswersAreHandlers /\ EventsAreOnce /\ SubscribedFirst /\ PausedIsKnown /\ RegisteredIsGuarded
  BY DEF IInv
<1> DEFINE x == [reply |-> "subscribe", id |-> None]
<1>a. /\ x \in replies /\ replies' = replies \ {x}
      /\ IsReply(x, "subscribe") /\ \A kind : IsReply(x, kind) => kind = "subscribe"
  BY <1>0, RepliesAre DEF Types, Takes, Replies
<1> HIDE DEF x
<1>1. Types'
  BY <1>0, <1>a DEF Types
<1>2. OneCall("add", owner = "adding")'
  BY <1>0, <1>a, CallReturned DEF OneCall
<1>3. OneCall("answer", Handling)'
  <2>0. handler = Off /\ handler' = None
    BY <1>0 DEF SubscribedFirst
  <2>1. Handling = FALSE /\ Handling' = FALSE
    BY <2>0, NoneAssumption DEF Handling
  <2> QED
    BY <1>0, <1>a, <2>1, CallReturned DEF OneCall
<1>4. IdsAreOwned'
  BY <1>0, <1>a DEF IdsAreOwned, AddPending
<1>5. AnswersAreHandlers'
  <2>0. handler = Off /\ handler' = None
    BY <1>0 DEF SubscribedFirst
  <2>1. Handling = FALSE /\ Handling' = FALSE
    BY <2>0, NoneAssumption DEF Handling
  <2> QED
    BY <1>0, <1>a, <2>1 DEF AnswersAreHandlers
<1>6. EventsAreOnce'
  BY <1>0 DEF EventsAreOnce, Reached, Same
<1>7. SubscribedFirst'
  <2>1. subscribed
    BY <1>0, <1>a DEF SubscribedFirst
  <2> QED
    BY <2>1 DEF SubscribedFirst
<1>8. PausedIsKnown'
  BY <1>0 DEF SubscribedFirst, PausedIsKnown
<1>9. RegisteredIsGuarded'
  <2>1. \A j \in Intercepts : [reply |-> "add", id |-> j] \in replies => [reply |-> "add", id |-> j] \in replies'
    BY <1>a, RepliesAre DEF x
  <2> QED
    BY <1>0, <2>1 DEF RegisteredIsGuarded
<1> QED
  BY <1>1, <1>2, <1>3, <1>4, <1>5, <1>6, <1>7, <1>8, <1>9 DEF IInv

(* remove() returns. *)
LEMMA RemovedOK ==
  ASSUME IInv, Removed
  PROVE  IInv'
<1> USE DEF Removed, ownerVars, browserVars
<1>0. Types /\ OneCall("add", owner = "adding") /\ OneCall("answer", Handling) /\ IdsAreOwned
      /\ AnswersAreHandlers /\ EventsAreOnce /\ SubscribedFirst /\ PausedIsKnown /\ RegisteredIsGuarded
  BY DEF IInv
<1> DEFINE x == [reply |-> "remove", id |-> None]
<1>a. /\ x \in replies /\ replies' = replies \ {x}
      /\ IsReply(x, "remove") /\ \A kind : IsReply(x, kind) => kind = "remove"
  BY <1>0, RepliesAre DEF Types, Takes, Replies
<1> HIDE DEF x
<1>1. Types'
  BY <1>0, <1>a DEF Types
<1>2. OneCall("add", owner = "adding")'
  BY <1>0, <1>a, CallReturned DEF OneCall
<1>3. OneCall("answer", Handling)'
  <2>1. (Handling' <=> Handling) /\ Handling \in BOOLEAN /\ Handling' \in BOOLEAN
    BY HandlingKept
  <2>2. ~IsReply(x, "answer")
    BY <1>a
  <2>3. OneCallIn(up, down, replies, "answer", Handling)
    BY <1>0 DEF OneCall
  <2>4. OneCallIn(up, down, replies \ {x}, "answer", Handling')
    BY <1>a, <2>1, <2>3, CallReturned
  <2> QED
    BY <1>a, <2>4 DEF OneCall
<1>4. IdsAreOwned'
  BY <1>0, <1>a DEF IdsAreOwned, AddPending
<1>5. AnswersAreHandlers'
  BY <1>0, <1>a DEF AnswersAreHandlers, Reached, Past, Handling
<1>6. EventsAreOnce'
  BY <1>0 DEF EventsAreOnce, Reached, Same
<1>7. SubscribedFirst'
  BY <1>0, <1>a DEF SubscribedFirst
<1>8. PausedIsKnown'
  BY <1>0 DEF PausedIsKnown, InFlight, Missed, Overwritten, Event
<1>9. RegisteredIsGuarded'
  <2>1. \A j \in Intercepts : [reply |-> "add", id |-> j] \in replies => [reply |-> "add", id |-> j] \in replies'
    BY <1>a, RepliesAre DEF x
  <2> QED
    BY <1>0, <2>1 DEF RegisteredIsGuarded
<1> QED
  BY <1>1, <1>2, <1>3, <1>4, <1>5, <1>6, <1>7, <1>8, <1>9 DEF IInv

(* The program leaves the loop. *)
LEMMA DropStreamOK ==
  ASSUME IInv, DropStream
  PROVE  IInv'
<1> USE DEF DropStream, ownerVars, browserVars
<1>0. Types /\ OneCall("add", owner = "adding") /\ OneCall("answer", Handling) /\ IdsAreOwned
      /\ AnswersAreHandlers /\ EventsAreOnce /\ SubscribedFirst /\ PausedIsKnown /\ RegisteredIsGuarded
  BY DEF IInv
<1>1. Types'
  BY <1>0 DEF Types
<1>2. OneCall("add", owner = "adding")'
  BY <1>0 DEF OneCall, OneCallIn
<1>3. OneCall("answer", Handling)'
  <2>1. Handling = FALSE /\ Handling' = FALSE
    BY NoneAssumption DEF Handling
  <2> QED
    BY <1>0, <2>1 DEF OneCall, OneCallIn
<1>4. IdsAreOwned'
  BY <1>0 DEF IdsAreOwned, AddPending
<1>5. AnswersAreHandlers'
  <2>1. Handling = FALSE /\ Handling' = FALSE
    BY NoneAssumption DEF Handling
  <2> QED
    BY <1>0, <2>1 DEF AnswersAreHandlers
<1>6. EventsAreOnce'
  BY <1>0 DEF EventsAreOnce, Reached, Same
<1>7. SubscribedFirst'
  BY <1>0 DEF SubscribedFirst
<1>8. PausedIsKnown'
  BY <1>0 DEF PausedIsKnown, InFlight, Missed, Overwritten, Event
<1>9. RegisteredIsGuarded'
  BY <1>0 DEF RegisteredIsGuarded
<1> QED
  BY <1>1, <1>2, <1>3, <1>4, <1>5, <1>6, <1>7, <1>8, <1>9 DEF IInv

(* The future of remove() is dropped. *)
LEMMA CancelRemoveOK ==
  ASSUME IInv, CancelRemove
  PROVE  IInv'
<1> USE DEF CancelRemove, ownerVars, browserVars
<1>0. Types /\ OneCall("add", owner = "adding") /\ OneCall("answer", Handling) /\ IdsAreOwned
      /\ AnswersAreHandlers /\ EventsAreOnce /\ SubscribedFirst /\ PausedIsKnown /\ RegisteredIsGuarded
  BY DEF IInv
<1>1. Types'
  BY <1>0, GuardIsSome DEF Types
<1>2. OneCall("add", owner = "adding")'
  BY <1>0 DEF OneCall, OneCallIn
<1>3. OneCall("answer", Handling)'
  <2>1. Handling' <=> Handling
    BY HandlingKept
  <2> QED
    BY <1>0, <2>1 DEF OneCall, OneCallIn
<1>4. IdsAreOwned'
  BY <1>0, GuardIsSome, NoneAssumption DEF IdsAreOwned, AddPending, Types
<1>5. AnswersAreHandlers'
  BY <1>0 DEF AnswersAreHandlers, Reached, Past, Handling
<1>6. EventsAreOnce'
  BY <1>0 DEF EventsAreOnce, Reached, Same
<1>7. SubscribedFirst'
  BY <1>0 DEF SubscribedFirst
<1>8. PausedIsKnown'
  BY <1>0 DEF PausedIsKnown, InFlight, Missed, Overwritten, Event
<1>9. RegisteredIsGuarded'
  BY <1>0 DEF RegisteredIsGuarded
<1> QED
  BY <1>1, <1>2, <1>3, <1>4, <1>5, <1>6, <1>7, <1>8, <1>9 DEF IInv

(* The guard is dropped. *)
LEMMA DropGuardOK ==
  ASSUME IInv, NEW inRuntime \in BOOLEAN, DropGuard(inRuntime)
  PROVE  IInv'
<1> USE DEF DropGuard, ownerVars, browserVars
<1>0. Types /\ OneCall("add", owner = "adding") /\ OneCall("answer", Handling) /\ IdsAreOwned
      /\ AnswersAreHandlers /\ EventsAreOnce /\ SubscribedFirst /\ PausedIsKnown /\ RegisteredIsGuarded
  BY DEF IInv
<1>1. Types'
  BY <1>0, GuardIsSome DEF Types
<1>2. OneCall("add", owner = "adding")'
  BY <1>0 DEF OneCall, OneCallIn
<1>3. OneCall("answer", Handling)'
  <2>1. Handling' <=> Handling
    BY HandlingKept
  <2> QED
    BY <1>0, <2>1 DEF OneCall, OneCallIn
<1>4. IdsAreOwned'
  <2>1. guard \in Intercepts /\ guard # None /\ guard \notin fresh /\ ~AddPending(guard)
    <3>1. \A f \in replies \cup Rng(down) : ~IsReply(f, "add")
      BY <1>0 DEF OneCall, OneCallIn, Rng
    <3>2. IsReply([reply |-> "add", id |-> guard], "add")
      BY DEF IsReply
    <3> QED
      BY <1>0, <3>1, <3>2, GuardIsSome DEF IdsAreOwned, AddPending
  <2> QED
    BY <1>0, <2>1, NoneAssumption DEF IdsAreOwned, AddPending, Types
<1>5. AnswersAreHandlers'
  BY <1>0 DEF AnswersAreHandlers, Reached, Past, Handling
<1>6. EventsAreOnce'
  BY <1>0 DEF EventsAreOnce, Reached, Same
<1>7. SubscribedFirst'
  BY <1>0 DEF SubscribedFirst
<1>8. PausedIsKnown'
  BY <1>0 DEF PausedIsKnown, InFlight, Missed, Overwritten, Event
<1>9. RegisteredIsGuarded'
  BY <1>0 DEF RegisteredIsGuarded
<1> QED
  BY <1>1, <1>2, <1>3, <1>4, <1>5, <1>6, <1>7, <1>8, <1>9 DEF IInv

(* add_intercept() returns the guard. *)
LEMMA AddedOK ==
  ASSUME IInv, Added
  PROVE  IInv'
<1> USE DEF Added, Takes, ownerVars, browserVars
<1>0. Types /\ OneCall("add", owner = "adding") /\ OneCall("answer", Handling) /\ IdsAreOwned
      /\ AnswersAreHandlers /\ EventsAreOnce /\ SubscribedFirst /\ PausedIsKnown /\ RegisteredIsGuarded
  BY DEF IInv
<1>p. PICK i \in Intercepts : Takes("add", i) /\ guard' = i
  BY Zenon
<1> DEFINE x == [reply |-> "add", id |-> i]
<1>a. /\ x \in replies /\ replies' = replies \ {x}
      /\ IsReply(x, "add") /\ \A kind : IsReply(x, kind) => kind = "add"
  BY <1>0, <1>p, RepliesAre DEF Types, Replies
<1>b. i \notin fresh \cup jobs /\ i # None
  BY <1>0, <1>a, NoneAssumption DEF IdsAreOwned, AddPending
<1>c. guard = None
  BY <1>0 DEF IdsAreOwned
<1>1. Types'
  BY <1>0, <1>a, <1>p DEF Types
<1>2. OneCall("add", owner = "adding")'
  BY <1>0, <1>a, CallReturned DEF OneCall
<1>3. OneCall("answer", Handling)'
  <2>1. (Handling' <=> Handling) /\ Handling \in BOOLEAN /\ Handling' \in BOOLEAN
    BY HandlingKept
  <2>2. ~IsReply(x, "answer")
    BY <1>a
  <2>3. OneCallIn(up, down, replies, "answer", Handling)
    BY <1>0 DEF OneCall
  <2>4. OneCallIn(up, down, replies \ {x}, "answer", Handling')
    BY <1>a, <2>1, <2>3, CallReturned
  <2> QED
    BY <1>a, <2>4 DEF OneCall
<1>4. IdsAreOwned'
  BY <1>0, <1>a, <1>b, <1>p DEF IdsAreOwned, AddPending
<1>5. AnswersAreHandlers'
  BY <1>0, <1>a DEF AnswersAreHandlers, Reached, Past, Handling
<1>6. EventsAreOnce'
  BY <1>0 DEF EventsAreOnce, Reached, Same
<1>7. SubscribedFirst'
  BY <1>0, <1>a DEF SubscribedFirst
<1>8. PausedIsKnown'
  BY <1>0 DEF PausedIsKnown, InFlight, Missed, Overwritten, Event
<1>9. RegisteredIsGuarded'
  <2>1. \A j \in Intercepts : j = i \/ (AddPending(j) => AddPending(j)')
    BY <1>a DEF AddPending
  <2>2. guard' = i /\ guard \notin Intercepts
    BY <1>p, <1>c, NoneAssumption
  <2> QED
    BY <1>0, <2>1, <2>2 DEF RegisteredIsGuarded, AddPending
<1> QED
  BY <1>1, <1>2, <1>3, <1>4, <1>5, <1>6, <1>7, <1>8, <1>9 DEF IInv

(* The answer to a paused request has been acknowledged. *)
LEMMA AnswerDoneOK ==
  ASSUME IInv, AnswerDone
  PROVE  IInv'
<1> USE DEF AnswerDone, ownerVars, browserVars
<1>0. Types /\ OneCall("add", owner = "adding") /\ OneCall("answer", Handling) /\ IdsAreOwned
      /\ AnswersAreHandlers /\ EventsAreOnce /\ SubscribedFirst /\ PausedIsKnown /\ RegisteredIsGuarded
  BY DEF IInv
<1> DEFINE x == [reply |-> "answer", id |-> None]
<1>a. /\ x \in replies /\ replies' = replies \ {x}
      /\ IsReply(x, "answer") /\ \A kind : IsReply(x, kind) => kind = "answer"
  BY <1>0, RepliesAre DEF Types, Takes, Replies
<1> HIDE DEF x
<1>1. Types'
  BY <1>0, <1>a DEF Types
<1>2. OneCall("add", owner = "adding")'
  BY <1>0, <1>a, CallReturned DEF OneCall
<1>3. OneCall("answer", Handling)'
  <2>1. Handling = TRUE /\ Handling' = FALSE
    BY NoneAssumption DEF Handling
  <2> QED
    BY <1>0, <1>a, <2>1, CallReturned DEF OneCall
<1>4. IdsAreOwned'
  BY <1>0, <1>a DEF IdsAreOwned, AddPending
<1>5. AnswersAreHandlers'
  <2>1. /\ \A k \in DOMAIN up : Kind(up[k]) # "answer"
        /\ \A k \in DOMAIN down : ~IsReply(down[k], "answer")
        /\ \A f \in replies \ {x} : ~IsReply(f, "answer")
    BY <1>0, <1>a, Zenon DEF OneCall, OneCallIn
  <2>2. \A f \in replies' \cup Rng(down') : ~IsReply(f, "answer")
    BY <1>a, <2>1 DEF Rng
  <2>3. \A k \in DOMAIN up : up[k].cmd \notin AnswerCmds
    BY <2>1 DEF Kind
  <2>4. ~Handling'
    BY NoneAssumption DEF Handling
  <2> QED
    BY <2>2, <2>3, <2>4 DEF AnswersAreHandlers
<1>6. EventsAreOnce'
  BY <1>0 DEF EventsAreOnce, Reached, Same
<1>7. SubscribedFirst'
  <2>1. handler # Off
    BY NoneAssumption
  <2> QED
    BY <1>0, <1>a, <2>1 DEF SubscribedFirst
<1>8. PausedIsKnown'
  <2>1. Past(handler)
    BY <1>0, <1>a DEF AnswersAreHandlers
  <2>2. \A r \in Requests, p \in Phases : handler = Event(r, p, TRUE) => stage[r] # p
    <3>1. \A r \in Requests, p \in Phases : handler = Event(r, p, TRUE) => Rank[stage[r]] > Rank[p]
      BY <2>1 DEF Past, Event
    <3> QED
      BY <3>1, PastHasGone
  <2>3. handler # Off
    BY NoneAssumption
  <2> QED
    BY <1>0, <2>2, <2>3 DEF PausedIsKnown, InFlight, Missed, Overwritten
<1>9. RegisteredIsGuarded'
  <2>1. \A j \in Intercepts : [reply |-> "add", id |-> j] \in replies => [reply |-> "add", id |-> j] \in replies'
    BY <1>a, RepliesAre DEF x
  <2> QED
    BY <1>0, <2>1 DEF RegisteredIsGuarded
<1> QED
  BY <1>1, <1>2, <1>3, <1>4, <1>5, <1>6, <1>7, <1>8, <1>9 DEF IInv

(* The future of add_intercept() is dropped. *)
LEMMA CancelAddOK ==
  ASSUME IInv, CancelAdd
  PROVE  IInv'
<1> USE DEF CancelAdd, ownerVars, browserVars
<1>0. Types /\ OneCall("add", owner = "adding") /\ OneCall("answer", Handling) /\ IdsAreOwned
      /\ AnswersAreHandlers /\ EventsAreOnce /\ SubscribedFirst /\ PausedIsKnown /\ RegisteredIsGuarded
  BY DEF IInv
<1>f. \A f \in Frames : f.cmd = "add" => /\ [f EXCEPT !.cmd = "add, dropped"] \in Frames
                                       /\ [f EXCEPT !.cmd = "add, dropped"].cmd = "add, dropped"
  <2> SUFFICES ASSUME NEW f \in Frames, f.cmd = "add"
               PROVE  /\ [f EXCEPT !.cmd = "add, dropped"] \in Frames
                      /\ [f EXCEPT !.cmd = "add, dropped"].cmd = "add, dropped"
    OBVIOUS
  <2>1. f \in [cmd : {"add", "add, dropped"}, arg : SUBSET Phases]
    BY DEF Frames, AnswerCmds
  <2>2. [f EXCEPT !.cmd = "add, dropped"] \in [cmd : {"add", "add, dropped"}, arg : SUBSET Phases]
    BY <2>1
  <2> QED
    BY <2>1, <2>2 DEF Frames
<1>g. \A f \in Replies : /\ [f EXCEPT !.reply = "dropped"] \in Replies
                         /\ [f EXCEPT !.reply = "dropped"].reply = "dropped"
  BY DEF Replies
<1>a. /\ up' \in Seq(Frames) /\ DOMAIN up' = DOMAIN up
      /\ \A k \in DOMAIN up : IF up[k].cmd = "add" THEN up'[k].cmd = "add, dropped" ELSE up'[k] = up[k]
  <2>1. /\ DOMAIN up = 1 .. Len(up) /\ Len(up) \in Nat /\ \A k \in DOMAIN up : up[k] \in Frames
    BY <1>0, SeqIs, Zenon DEF Types
  <2>2. /\ DOMAIN up' = DOMAIN up
        /\ \A k \in DOMAIN up :
             up'[k] = IF up[k].cmd = "add" THEN [up[k] EXCEPT !.cmd = "add, dropped"] ELSE up[k]
    OBVIOUS
  <2>3. \A k \in DOMAIN up : up'[k] \in Frames
    BY <1>f, <2>1, <2>2
  <2>4. up' = [k \in 1 .. Len(up) |-> up'[k]]
    BY <2>1, <2>2
  <2>5. up' \in Seq(Frames)
    BY <2>1, <2>3, <2>4, IsSeq, Zenon
  <2> QED
    BY <1>f, <2>1, <2>2, <2>5
<1>b. /\ down' \in Seq(Replies \cup Events) /\ DOMAIN down' = DOMAIN down
      /\ \A k \in DOMAIN down : IF IsReply(down[k], "add") THEN down'[k] \in Replies /\ down'[k].reply = "dropped"
                                                          ELSE down'[k] = down[k]
  <2>1. /\ DOMAIN down = 1 .. Len(down) /\ Len(down) \in Nat /\ \A k \in DOMAIN down : down[k] \in Replies \cup Events
    BY <1>0, SeqIs, Zenon DEF Types
  <2>2. \A k \in DOMAIN down : IsReply(down[k], "add") => down[k] \in Replies
    BY <2>1, RepliesAre
  <2>3. /\ DOMAIN down' = DOMAIN down
        /\ \A k \in DOMAIN down :
             down'[k] = IF IsReply(down[k], "add") THEN [down[k] EXCEPT !.reply = "dropped"] ELSE down[k]
    OBVIOUS
  <2>4. \A k \in DOMAIN down : down'[k] \in Replies \cup Events
    BY <1>g, <2>1, <2>2, <2>3
  <2>5. down' = [k \in 1 .. Len(down) |-> down'[k]]
    BY <2>1, <2>3
  <2>6. down' \in Seq(Replies \cup Events)
    BY <2>1, <2>4, <2>5, IsSeq, Zenon
  <2> QED
    BY <1>g, <2>1, <2>2, <2>3, <2>6
<1>c. replies' \subseteq replies /\ \A f \in replies' : ~IsReply(f, "add")
  BY <1>0, RepliesAre DEF Types
<1>d. \A k \in DOMAIN down :
        /\ ~IsReply(down'[k], "add")
        /\ \A kind : kind # "dropped" /\ IsReply(down'[k], kind)
                     => IsReply(down[k], kind) /\ down'[k] = down[k]
        /\ down'[k] \in Events <=> down[k] \in Events
        /\ down[k] \in Events => down'[k] = down[k]
  <2>1. Events \cap Replies = {}
    BY FrameKinds
  <2> QED
    BY <1>0, <1>b, <2>1, RepliesAre DEF Types
<1>e. \A f \in Rng(down') : ~IsReply(f, "add") /\ \A kind : kind # "dropped" /\ IsReply(f, kind) => f \in Rng(down)
  <2> SUFFICES ASSUME NEW f \in Rng(down')
               PROVE  ~IsReply(f, "add") /\ \A kind : kind # "dropped" /\ IsReply(f, kind) => f \in Rng(down)
    OBVIOUS
  <2>1. PICK k \in DOMAIN down' : f = down'[k]
    BY DEF Rng
  <2>2. k \in DOMAIN down /\ down[k] \in Rng(down)
    BY <1>b, <2>1 DEF Rng
  <2> QED
    BY <1>d, <2>1, <2>2
<1>1. Types'
  BY <1>0, <1>a, <1>b, <1>c DEF Types
<1>2. OneCall("add", owner = "adding")'
  <2>1. \A k \in DOMAIN up' : Kind(up'[k]) # "add"
    BY <1>a DEF Kind, AnswerCmds
  <2> QED
    BY <1>b, <1>c, <1>d, <2>1 DEF OneCall, OneCallIn
<1>3. OneCall("answer", Handling)'
  <2>1. \A k \in DOMAIN up' : k \in DOMAIN up /\ (Kind(up'[k]) = "answer" => Kind(up[k]) = "answer")
    BY <1>a DEF Kind, AnswerCmds
  <2>2. \A k \in DOMAIN down' : k \in DOMAIN down /\ (IsReply(down'[k], "answer") => IsReply(down[k], "answer"))
    BY <1>b, <1>d
  <2>3. \A f \in replies' \cup Rng(down') : IsReply(f, "answer") => f \in replies \cup Rng(down)
    BY <1>c, <1>e
  <2>4. Handling' <=> Handling
    BY HandlingKept
  <2> QED
    BY <1>0, <1>c, <2>1, <2>2, <2>3, <2>4 DEF OneCall, OneCallIn
<1>4. IdsAreOwned'
  <2>1. \A i : ~AddPending(i)'
    <3>1. \A i : IsReply([reply |-> "add", id |-> i], "add")
      BY DEF IsReply
    <3> QED
      BY <1>c, <1>e, <3>1 DEF AddPending
  <2> QED
    BY <1>0, <2>1 DEF IdsAreOwned
<1>5. AnswersAreHandlers'
  <2>1. \A k \in DOMAIN up' : up'[k].cmd \in AnswerCmds => k \in DOMAIN up /\ up'[k] = up[k]
    BY <1>a DEF AnswerCmds
  <2>2. \A f \in replies' \cup Rng(down') : IsReply(f, "answer") => f \in replies \cup Rng(down)
    BY <1>c, <1>e
  <2> QED
    BY <1>0, <2>1, <2>2 DEF AnswersAreHandlers, Reached, Past, Handling
<1>6. EventsAreOnce'
  <2>1. \A k \in DOMAIN down' : k \in DOMAIN down /\ (down'[k] \in Events => down[k] \in Events /\ down'[k] = down[k])
    BY <1>b, <1>d
  <2>2. sent' = sent /\ \A e : Reached(e)' <=> Reached(e)
    BY DEF Reached
  <2> QED
    BY <1>0, <2>1, <2>2 DEF EventsAreOnce
<1>7. SubscribedFirst'
  <2>1. subscribed
    BY <1>0 DEF SubscribedFirst
  <2> QED
    BY <2>1 DEF SubscribedFirst
<1>8. PausedIsKnown'
  <2>1. \A r \in Requests, p \in Phases : Event(r, p, TRUE) \in Events
    BY DEF Event, Events
  <2>2. \A r \in Requests, p \in Phases : InFlight(r, p) => InFlight(r, p)'
    BY <1>b, <1>d, <2>1 DEF InFlight
  <2> QED
    BY <1>0, <2>2 DEF PausedIsKnown, Missed, Overwritten
<1>9. RegisteredIsGuarded'
  <2>1. \A i \in Intercepts : AddPending(i) => i \in lost'
    BY DEF AddPending
  <2>2. \A i, k : k \in DOMAIN up /\ up[k] \in Removals(i) => k \in DOMAIN up' /\ up'[k] \in Removals(i)
    BY <1>a DEF Removals
  <2> QED
    BY <1>0, <2>1, <2>2 DEF RegisteredIsGuarded, AddPending, Removals
<1> QED
  BY <1>1, <1>2, <1>3, <1>4, <1>5, <1>6, <1>7, <1>8, <1>9 DEF IInv

(* The stream goes past events that are overwritten or not blocked. *)
LEMMA SkipOK ==
  ASSUME IInv, handler = None, next' \in next .. Len(sent),
         \A k \in next + 1 .. next' : k <= Overwritten \/ ~sent[k].blocked,
         UNCHANGED <<ownerVars, handler, up, down, replies, sent, browserVars>>
  PROVE  IInv'
<1> USE DEF ownerVars, browserVars
<1>0. Types /\ OneCall("add", owner = "adding") /\ OneCall("answer", Handling) /\ IdsAreOwned
      /\ AnswersAreHandlers /\ EventsAreOnce /\ SubscribedFirst /\ PausedIsKnown /\ RegisteredIsGuarded
  BY DEF IInv
<1>1. Types'
  <2>1. next' \in 0 .. Len(sent)
    BY <1>0 DEF Types
  <2> QED
    BY <1>0, <2>1 DEF Types
<1>2. OneCall("add", owner = "adding")'
  BY <1>0 DEF OneCall, OneCallIn
<1>3. OneCall("answer", Handling)'
  <2>1. Handling' <=> Handling
    BY HandlingKept
  <2> QED
    BY <1>0, <2>1 DEF OneCall, OneCallIn
<1>4. IdsAreOwned'
  BY <1>0 DEF IdsAreOwned, AddPending
<1>5. AnswersAreHandlers'
  BY <1>0 DEF AnswersAreHandlers, Reached, Past, Handling
<1>6. EventsAreOnce'
  BY <1>0 DEF EventsAreOnce, Reached, Same
<1>7. SubscribedFirst'
  BY <1>0 DEF SubscribedFirst
<1>8. PausedIsKnown'
  <2>1. ASSUME NEW r \in Requests, NEW p \in Phases, InFlight(r, p) \/ Missed(r, p)
        PROVE  InFlight(r, p)' \/ Missed(r, p)'
    <3>1. CASE \E i \in DOMAIN sent : sent[i] = Event(r, p, TRUE) /\ i > next
      <4>1. PICK i \in DOMAIN sent : sent[i] = Event(r, p, TRUE) /\ i > next
        BY <3>1
      <4>2. sent[i].blocked
        BY <4>1 DEF Event
      <4>3. i \in Nat /\ next \in Nat
        BY <1>0 DEF Types
      <4>4. i > next' \/ i <= Overwritten
        <5>1. next' \in Nat
          BY <1>0 DEF Types
        <5>2. CASE i \in next + 1 .. next'
          BY <4>2, <5>2
        <5>3. CASE i \notin next + 1 .. next'
          BY <4>1, <4>3, <5>1, <5>3
        <5> QED
          BY <5>2, <5>3
      <4> QED
        BY <4>1, <4>4 DEF InFlight, Missed, Overwritten
    <3>2. CASE ~\E i \in DOMAIN sent : sent[i] = Event(r, p, TRUE) /\ i > next
      BY <2>1, <3>2 DEF InFlight, Missed, Overwritten
    <3> QED
      BY <3>1, <3>2
  <2> QED
    BY <1>0, <2>1 DEF PausedIsKnown
<1>9. RegisteredIsGuarded'
  BY <1>0 DEF RegisteredIsGuarded
<1> QED
  BY <1>1, <1>2, <1>3, <1>4, <1>5, <1>6, <1>7, <1>8, <1>9 DEF IInv

(* The program answers the paused request that is next in the stream. *)
LEMMA AnswerOK ==
  ASSUME IInv, handler = None, next < Len(sent), NEW a \in Answers(sent[next + 1].phase), sent[next + 1].blocked,
         Command(a, sent[next + 1].req), handler' = sent[next + 1], next' = next + 1,
         UNCHANGED <<ownerVars, down, replies, sent, browserVars>>
  PROVE  IInv'
<1> USE DEF ownerVars, browserVars
<1>0. Types /\ OneCall("add", owner = "adding") /\ OneCall("answer", Handling) /\ IdsAreOwned
      /\ AnswersAreHandlers /\ EventsAreOnce /\ SubscribedFirst /\ PausedIsKnown /\ RegisteredIsGuarded
  BY DEF IInv
<1> DEFINE e == sent[next + 1]
           heard == [cmd |-> a, arg |-> e.req]
<1>e. /\ next + 1 \in DOMAIN sent /\ e \in Events /\ next \in Nat
      /\ e.req \in Requests /\ e.phase \in Phases
  <2>1. next \in Nat /\ Len(sent) \in Nat /\ sent \in Seq(Events)
    BY <1>0 DEF Types
  <2>2. next + 1 \in DOMAIN sent /\ e \in Events
    BY <2>1
  <2>3. \A x \in Events : x.req \in Requests /\ x.phase \in Phases
    BY DEF Events
  <2> QED
    BY <2>1, <2>2, <2>3
<1>f. a \in AnswerCmds /\ a \in Answers(e.phase)
  <2>1. e.phase \in {"beforeRequestSent", "responseStarted", "authRequired"}
    BY <1>e DEF Phases
  <2> QED
    BY <2>1, AnswersAre DEF AnswerCmds
<1>a. /\ heard \in Frames /\ Kind(heard) = "answer" /\ up' = Append(up, heard)
      /\ heard.cmd = a /\ heard.arg = e.req
  BY <1>e, <1>f DEF Frames, Kind, Command
<1>h. handler' = e /\ e.blocked /\ Handling'
  BY <1>e DEF Handling
<1>i. ~Handling /\ handler # Off
  BY NoneAssumption DEF Handling
<1>j. Reached(e)
  BY <1>0, <1>e DEF EventsAreOnce
<1> HIDE DEF heard, e
<1>b. /\ up' \in Seq(Frames)
      /\ DOMAIN up' = DOMAIN up \cup {Len(up) + 1} /\ Len(up) + 1 \notin DOMAIN up
      /\ \A k \in DOMAIN up : up'[k] = up[k]
      /\ up'[Len(up) + 1] = heard
  BY <1>0, <1>a, Sent
<1>k. a \notin {"add", "add, dropped"} /\ a # "subscribe"
  BY <1>f DEF AnswerCmds
<1>1. Types'
  <2>1. next' \in 0 .. Len(sent)
    BY <1>e
  <2> QED
    BY <1>0, <1>b, <1>e, <1>h, <2>1 DEF Types
<1>2. OneCall("add", owner = "adding")'
  BY <1>0, <1>a, SentCalls DEF OneCall
<1>3. OneCall("answer", Handling)'
  <2>1. Handling = FALSE /\ Handling' = TRUE
    BY <1>h, <1>i DEF Handling
  <2> QED
    BY <1>0, <1>a, <2>1, SentCalls DEF OneCall
<1>4. IdsAreOwned'
  BY <1>0 DEF IdsAreOwned, AddPending
<1>5. AnswersAreHandlers'
  <2>1. /\ \A k \in DOMAIN up : up[k].cmd \notin AnswerCmds
        /\ \A f \in replies \cup Rng(down) : ~IsReply(f, "answer")
    BY <1>0, <1>i DEF AnswersAreHandlers
  <2>2. (Handling => handler.blocked /\ Reached(handler))'
    BY <1>h, <1>j DEF Reached, e
  <2>3. \A k \in DOMAIN up' : up'[k].cmd \in AnswerCmds => up'[k] = heard
    BY <1>b, <2>1
  <2> QED
    BY <1>a, <1>f, <1>h, <2>1, <2>2, <2>3 DEF AnswersAreHandlers
<1>6. EventsAreOnce'
  BY <1>0 DEF EventsAreOnce, Reached, Same
<1>7. SubscribedFirst'
  <2>1. owner \notin {"start", "subscribing"}
    BY <1>0, <1>i DEF SubscribedFirst
  <2> QED
    BY <1>0, <2>1 DEF SubscribedFirst
<1>8. PausedIsKnown'
  <2>1. ASSUME NEW r \in Requests, NEW p \in Phases, InFlight(r, p) \/ Missed(r, p)
        PROVE  InFlight(r, p)' \/ Missed(r, p)'
    <3>1. CASE \E i \in DOMAIN sent : sent[i] = Event(r, p, TRUE) /\ i > next
      <4>1. PICK i \in DOMAIN sent : sent[i] = Event(r, p, TRUE) /\ i > next
        BY <3>1
      <4>3. i \in Nat /\ next \in Nat
        BY <1>0 DEF Types
      <4>4. i > next' \/ i = next + 1
        BY <4>1, <4>3
      <4> QED
        BY <1>h, <4>1, <4>4 DEF InFlight, e
    <3>2. CASE ~\E i \in DOMAIN sent : sent[i] = Event(r, p, TRUE) /\ i > next
      <4>1. handler # Event(r, p, TRUE)
        <5>1. Event(r, p, TRUE) \in Events
          BY DEF Event, Events
        <5> QED
          BY <1>i, <5>1 DEF Handling
      <4> QED
        BY <2>1, <3>2, <4>1 DEF InFlight, Missed, Overwritten
    <3> QED
      BY <3>1, <3>2
  <2> QED
    BY <1>0, <1>i, <2>1 DEF PausedIsKnown
<1>9. RegisteredIsGuarded'
  <2>1. \A j : \A k \in DOMAIN up : up[k] \in Removals(j) => k \in DOMAIN up' /\ up'[k] \in Removals(j)
    BY <1>b
  <2> QED
    BY <1>0, <2>1 DEF RegisteredIsGuarded, Removals
<1> QED
  BY <1>1, <1>2, <1>3, <1>4, <1>5, <1>6, <1>7, <1>8, <1>9 DEF IInv

(* The stream is polled: it lags, passes an event, or answers one. *)
LEMMA PollOK ==
  ASSUME IInv, Poll
  PROVE  IInv'
<1>0. Types
  BY DEF IInv
<1>1. /\ next \in Nat /\ Len(sent) \in Nat /\ next < Len(sent) /\ handler = None
      /\ Overwritten \in 0 .. Len(sent)
  BY <1>0, CapacityAssumption DEF Types, Poll, Overwritten
<1>2. CASE next < Overwritten
  <2>1. next' = Overwritten /\ UNCHANGED <<ownerVars, handler, up, down, replies, sent, browserVars>>
    BY <1>2 DEF Poll
  <2>2. next' \in next .. Len(sent) /\ \A k \in next + 1 .. next' : k <= Overwritten
    BY <1>1, <1>2, <2>1
  <2> QED
    BY <1>1, <2>1, <2>2, SkipOK
<1>3. CASE ~(next < Overwritten) /\ ~sent[next + 1].blocked
  <2>1. next' = next + 1 /\ UNCHANGED <<ownerVars, handler, up, down, replies, sent, browserVars>>
    BY <1>3 DEF Poll
  <2>2. next' \in next .. Len(sent) /\ \A k \in next + 1 .. next' : k = next + 1
    BY <1>1, <2>1
  <2> QED
    BY <1>1, <1>3, <2>1, <2>2, SkipOK
<1>4. CASE ~(next < Overwritten) /\ sent[next + 1].blocked
  <2>1. /\ next' = next + 1 /\ handler' = sent[next + 1]
        /\ UNCHANGED <<ownerVars, down, replies, sent, browserVars>>
        /\ \E a \in Answers(sent[next + 1].phase) : Command(a, sent[next + 1].req)
    BY <1>4 DEF Poll
  <2> QED
    BY <1>1, <1>4, <2>1, AnswerOK
<1> QED
  BY <1>2, <1>3, <1>4

(* The queues before and after the reader task took a frame. *)
LEMMA DispatchedFrames ==
  ASSUME Types, Dispatch
  PROVE  /\ Head(down) \in Replies \cup Events /\ Head(down) \in Rng(down)
         /\ down' \in Seq(Replies \cup Events)
         /\ 1 \in DOMAIN down /\ Head(down) = down[1]
         /\ \A k \in DOMAIN down' : k + 1 \in DOMAIN down /\ down'[k] = down[k + 1] /\ k \in Nat
         /\ \A k \in DOMAIN down : k = 1 \/ (k - 1 \in DOMAIN down' /\ down'[k - 1] = down[k])
         /\ Rng(down) = Rng(down') \cup {Head(down)}
         /\ replies' \subseteq replies \cup {Head(down)} /\ replies \subseteq replies'
<1>1. down \in Seq(Replies \cup Events) /\ down # <<>> /\ down' = Tail(down)
  BY DEF Types, Dispatch
<1>2. /\ Tail(down) \in Seq(Replies \cup Events) /\ Head(down) \in Replies \cup Events
      /\ 1 \in DOMAIN down /\ Head(down) = down[1]
      /\ \A k \in DOMAIN Tail(down) : k + 1 \in DOMAIN down /\ Tail(down)[k] = down[k + 1] /\ k \in Nat
      /\ \A k \in DOMAIN down : k = 1 \/ (k - 1 \in DOMAIN Tail(down) /\ k \in Nat)
      /\ Rng(down) = Rng(Tail(down)) \cup {Head(down)}
  BY <1>1, Rest
<1>3. \A k \in DOMAIN down : k = 1 \/ (k - 1 \in DOMAIN down' /\ down'[k - 1] = down[k])
  <2>1. \A k \in Nat : (k - 1) + 1 = k
    OBVIOUS
  <2>2. \A k \in DOMAIN down : k # 1 => k - 1 \in DOMAIN down' /\ down'[k - 1] = down[(k - 1) + 1] /\ k \in Nat
    BY <1>1, <1>2, Zenon
  <2> QED
    BY <2>1, <2>2, Zenon
<1>4. replies' \subseteq replies \cup {Head(down)} /\ replies \subseteq replies'
  BY DEF Dispatch
<1> QED
  BY <1>1, <1>2, <1>3, <1>4, Zenon

(* The reader task takes a frame. *)
LEMMA DispatchOK ==
  ASSUME IInv, Dispatch
  PROVE  IInv'
<1> USE DEF ownerVars, browserVars
<1>0. Types /\ OneCall("add", owner = "adding") /\ OneCall("answer", Handling) /\ IdsAreOwned
      /\ AnswersAreHandlers /\ EventsAreOnce /\ SubscribedFirst /\ PausedIsKnown /\ RegisteredIsGuarded
  BY DEF IInv
<1>a. UNCHANGED <<owner, guard, jobs, lost, handler, up, next, subscribed, fresh, active, stage>>
  BY DEF Dispatch
<1> DEFINE h == Head(down)
<1>b. /\ h \in Replies \cup Events /\ h \in Rng(down) /\ down' \in Seq(Replies \cup Events)
      /\ 1 \in DOMAIN down /\ h = down[1]
      /\ \A k \in DOMAIN down' : k + 1 \in DOMAIN down /\ down'[k] = down[k + 1] /\ k \in Nat
      /\ \A k \in DOMAIN down : k = 1 \/ (k - 1 \in DOMAIN down' /\ down'[k - 1] = down[k])
      /\ Rng(down) = Rng(down') \cup {h}
      /\ replies' \subseteq replies \cup {h} /\ replies \subseteq replies'
  BY <1>0, DispatchedFrames
<1>c. \/ h \in Replies /\ h \notin Events /\ sent' = sent /\ (h.reply # "dropped" => h \in replies')
      \/ h \in Events /\ h \notin Replies /\ sent' = Append(sent, h) /\ replies' = replies
  <2>1. CASE h \in Replies
    <3>1. "reply" \in DOMAIN h /\ h \notin Events
      BY <2>1, FrameKinds
    <3> QED
      BY <2>1, <3>1 DEF Dispatch
  <2>2. CASE h \in Events
    <3>1. "reply" \notin DOMAIN h /\ h \notin Replies
      BY <2>2, FrameKinds
    <3> QED
      BY <2>2, <3>1 DEF Dispatch
  <2> QED
    BY <1>b, <2>1, <2>2
<1>d. replies' = IF "reply" \notin DOMAIN Head(down) \/ Head(down).reply = "dropped"
                 THEN replies ELSE replies \cup {Head(down)}
  BY DEF Dispatch
<1>e. down # <<>> /\ down' = Tail(down) /\ down \in Down /\ replies \in SUBSET Replies
  BY <1>0 DEF Dispatch, Types, Down
<1>f. replies' \cup Rng(down') \subseteq replies \cup Rng(down)
  BY <1>b
<1>g. /\ sent \in Seq(Events) /\ sent' \in Seq(Events) /\ Len(sent) \in Nat /\ next \in 0 .. Len(sent)
      /\ Len(sent') \in {Len(sent), Len(sent) + 1}
      /\ \A k \in DOMAIN sent : k \in DOMAIN sent' /\ sent'[k] = sent[k]
  <2>1. sent \in Seq(Events) /\ Len(sent) \in Nat /\ next \in 0 .. Len(sent)
    BY <1>0 DEF Types
  <2>2. CASE h \in Events /\ sent' = Append(sent, h)
    BY <2>1, <2>2, Appended
  <2>3. CASE sent' = sent
    BY <2>1, <2>3
  <2> QED
    BY <1>c, <2>1, <2>2, <2>3
<1>m. h \in Events =>
        /\ DOMAIN sent' = DOMAIN sent \cup {Len(sent) + 1} /\ sent'[Len(sent) + 1] = h
        /\ \A k \in DOMAIN sent : sent'[k] = sent[k]
  <2> SUFFICES ASSUME h \in Events
               PROVE  /\ DOMAIN sent' = DOMAIN sent \cup {Len(sent) + 1} /\ sent'[Len(sent) + 1] = h
                      /\ \A k \in DOMAIN sent : sent'[k] = sent[k]
    OBVIOUS
  <2>1. sent' = Append(sent, h) /\ sent \in Seq(Events)
    BY <1>c, <1>g
  <2> QED
    BY <2>1, Appended
<1>n. \A k, l \in DOMAIN down' : k + 1 # 1 /\ (k + 1 = l + 1 => k = l)
  BY <1>b
<1> HIDE DEF h
<1>1. Types'
  <2>1. replies' \subseteq Replies
    BY <1>c, <1>b, <1>e
  <2>2. next' \in 0 .. Len(sent')
    BY <1>a, <1>g
  <2> QED
    BY <1>0, <1>a, <1>b, <1>g, <2>1, <2>2 DEF Types
<1>2. OneCall("add", owner = "adding")'
  <2>1. OneCallIn(up, Tail(down), replies', "add", owner = "adding")
    BY <1>0, <1>d, <1>e, CallDispatched DEF OneCall
  <2> QED
    BY <1>a, <1>e, <2>1 DEF OneCall
<1>3. OneCall("answer", Handling)'
  <2>1. (Handling' <=> Handling) /\ Handling \in BOOLEAN /\ Handling' \in BOOLEAN
    BY <1>a, HandlingKept
  <2>2. OneCallIn(up, Tail(down), replies', "answer", Handling)
    BY <1>0, <1>d, <1>e, <2>1, CallDispatched DEF OneCall
  <2>3. OneCallIn(up, Tail(down), replies', "answer", Handling')
    BY <2>1, <2>2, CallKept
  <2> QED
    BY <1>a, <1>e, <2>3 DEF OneCall
<1>4. IdsAreOwned'
  <2>1. \A i : AddPending(i)' => AddPending(i)
    BY <1>f DEF AddPending
  <2> QED
    BY <1>0, <1>a, <2>1 DEF IdsAreOwned
<1>5. AnswersAreHandlers'
  BY <1>0, <1>a, <1>f DEF AnswersAreHandlers, Reached, Past, Handling
<1>6. EventsAreOnce'
  <2>1. CASE h \in Replies /\ h \notin Events /\ sent' = sent
    <3>1. /\ \A k \in DOMAIN sent' : /\ Reached(sent'[k])
                                     /\ \A l \in DOMAIN sent' : Same(sent'[k], sent'[l]) => k = l
                                     /\ \A l \in DOMAIN down' : down'[l] \in Events => ~Same(sent'[k], down'[l])
          /\ \A k \in DOMAIN down' : down'[k] \in Events =>
               /\ Reached(down'[k])
               /\ \A l \in DOMAIN down' : down'[l] \in Events /\ Same(down'[k], down'[l]) => k = l
      BY <1>0, <1>b, <1>n, <2>1, Zenon DEF EventsAreOnce
    <3> QED
      BY <1>a, <2>1, <3>1 DEF EventsAreOnce, Reached, Same
  <2>2. CASE h \in Events /\ sent' = Append(sent, h)
    <3>1. /\ DOMAIN sent' = DOMAIN sent \cup {Len(sent) + 1}
          /\ \A k \in DOMAIN sent : sent'[k] = sent[k]
          /\ sent'[Len(sent) + 1] = down[1]
          /\ down[1] \in Events /\ 1 \in DOMAIN down
      BY <1>b, <1>m, <2>2
    <3>2. \A l \in DOMAIN sent : ~Same(down[1], sent[l]) /\ ~Same(sent[l], down[1])
      BY <1>0, <3>1 DEF EventsAreOnce, Same
    <3>3. \A k \in DOMAIN sent' : \A l \in DOMAIN sent' : Same(sent'[k], sent'[l]) => k = l
      BY <1>0, <3>1, <3>2, Zenon DEF EventsAreOnce
    <3>4. \A k \in DOMAIN sent' : Reached(sent'[k])
      BY <1>0, <3>1, Zenon DEF EventsAreOnce
    <3>5. \A k \in DOMAIN sent' : \A l \in DOMAIN down' : down'[l] \in Events => ~Same(sent'[k], down'[l])
      <4>1. \A l \in DOMAIN down' : down'[l] \in Events => ~Same(down[1], down'[l])
        BY <1>0, <1>b, <1>n, <3>1, Zenon DEF EventsAreOnce
      <4>2. \A k \in DOMAIN sent : \A l \in DOMAIN down' : down'[l] \in Events => ~Same(sent[k], down'[l])
        BY <1>0, <1>b, Zenon DEF EventsAreOnce
      <4> QED
        BY <3>1, <4>1, <4>2, Zenon
    <3>6. \A k \in DOMAIN down' : down'[k] \in Events =>
               /\ Reached(down'[k])
               /\ \A l \in DOMAIN down' : down'[l] \in Events /\ Same(down'[k], down'[l]) => k = l
      BY <1>0, <1>b, <1>n, Zenon DEF EventsAreOnce
    <3> QED
      BY <1>a, <3>3, <3>4, <3>5, <3>6 DEF EventsAreOnce, Reached, Same
  <2> QED
    BY <1>c, <2>1, <2>2
<1>7. SubscribedFirst'
  BY <1>0, <1>a, <1>f DEF SubscribedFirst
<1>8. PausedIsKnown'
  <2>1. ASSUME NEW r \in Requests, NEW p \in Phases, InFlight(r, p) \/ Missed(r, p)
        PROVE  InFlight(r, p)' \/ Missed(r, p)'
    <3>1. CASE \E i \in DOMAIN down : down[i] = Event(r, p, TRUE)
      <4>1. PICK i \in DOMAIN down : down[i] = Event(r, p, TRUE)
        BY <3>1
      <4>2. CASE i = 1
        <5>0. Event(r, p, TRUE) \in Events
          BY DEF Event, Events
        <5>1. h \in Events /\ h = Event(r, p, TRUE) /\ sent' = Append(sent, h)
          BY <1>b, <1>c, <4>1, <4>2, <5>0
        <5>2. Len(sent) + 1 \in DOMAIN sent' /\ sent'[Len(sent) + 1] = h
          BY <1>m, <5>1
        <5>3. Len(sent) + 1 > next
          BY <1>g
        <5> QED
          BY <1>a, <5>1, <5>2, <5>3 DEF InFlight
      <4>3. CASE i # 1
        BY <1>b, <4>1, <4>3 DEF InFlight
      <4> QED
        BY <4>2, <4>3
    <3>2. CASE \E i \in DOMAIN sent : sent[i] = Event(r, p, TRUE) /\ i > next
      BY <1>a, <1>g, <3>2 DEF InFlight
    <3>3. CASE handler = Event(r, p, TRUE)
      BY <1>a, <3>3 DEF InFlight
    <3>4. CASE Missed(r, p)
      <4>1. PICK i \in DOMAIN sent : sent[i] = Event(r, p, TRUE) /\ i <= Overwritten
        BY <3>4 DEF Missed
      <4>2. Overwritten \in Nat /\ Overwritten' \in Nat /\ Overwritten <= Overwritten' /\ i \in Nat
        BY <1>g, CapacityAssumption DEF Overwritten
      <4>3. i <= Overwritten'
        BY <4>1, <4>2
      <4> QED
        BY <1>g, <4>1, <4>3 DEF Missed
    <3> QED
      BY <2>1, <3>1, <3>2, <3>3, <3>4 DEF InFlight
  <2> QED
    BY <1>0, <1>a, <2>1 DEF PausedIsKnown
<1>9. RegisteredIsGuarded'
  <2>1. \A i \in Intercepts : AddPending(i) => AddPending(i)'
    <3>1. ASSUME NEW i \in Intercepts, h = [reply |-> "add", id |-> i] PROVE h \in replies'
      <4>1. h \in Replies /\ h.reply = "add"
        BY <3>1 DEF Replies
      <4> QED
        BY <1>c, <4>1
    <3> QED
      BY <1>b, <3>1 DEF AddPending
  <2> QED
    BY <1>0, <1>a, <2>1 DEF RegisteredIsGuarded, AddPending
<1> QED
  BY <1>1, <1>2, <1>3, <1>4, <1>5, <1>6, <1>7, <1>8, <1>9 DEF IInv

(* A request comes to a phase from an earlier stage and goes to a later one. *)
LEMMA PhasesInOrder ==
  \A p \in Phases : /\ \A s \in Before(p) : s \notin Phases /\ Rank[s] < Rank[p]
                    /\ After(p) \in {"flying", "answered", "over"} /\ Rank[p] < Rank[After(p)]
<1> SUFFICES ASSUME NEW p \in Phases
             PROVE  /\ \A s \in Before(p) : s \notin Phases /\ Rank[s] < Rank[p]
                    /\ After(p) \in {"flying", "answered", "over"} /\ Rank[p] < Rank[After(p)]
  OBVIOUS
<1>1. CASE p = "beforeRequestSent"
  <2>1. Before(p) = {"new"} /\ After(p) = "flying"
    BY <1>1 DEF Before, After
  <2> QED
    BY <1>1, <2>1, RankIs DEF Phases
<1>2. CASE p = "authRequired"
  <2>1. Before(p) = {"flying"} /\ After(p) = "answered"
    BY <1>2 DEF Before, After
  <2> QED
    BY <1>2, <2>1, RankIs DEF Phases
<1>3. CASE p = "responseStarted"
  <2>1. Before(p) = {"flying", "answered"} /\ After(p) = "over"
    BY <1>3 DEF Before, After
  <2> QED
    BY <1>3, <2>1, RankIs DEF Phases
<1> QED
  BY <1>1, <1>2, <1>3 DEF Phases

(* In no other stage does a request wait. *)
LEMMA NotAPhase == \A s \in {"new", "flying", "answered", "over"} : s \notin Phases
  BY DEF Phases

(* Every stage has a place in the order. *)
LEMMA Ranked ==
  /\ \A p \in Phases : Rank[p] \in Nat
  /\ \A p \in {"flying", "answered", "over"} : Rank[p] \in Nat
  /\ \A f \in [Requests -> {"new", "flying", "answered", "over"} \cup Phases] : \A r \in Requests : Rank[f[r]] \in Nat
<1>1. \A s \in {"new", "flying", "answered", "over"} \cup Phases : Rank[s] \in Nat
  <2>1. \A n \in 0 .. 6 : n \in Nat
    OBVIOUS
  <2> QED
    BY <2>1, RankIs, Zenon
<1>2. \A f \in [Requests -> {"new", "flying", "answered", "over"} \cup Phases] :
        \A r \in Requests : f[r] \in {"new", "flying", "answered", "over"} \cup Phases
  OBVIOUS
<1> QED
  BY <1>1, <1>2, Zenon

(* Requests only go on, so what one has reached it has reached for good. *)
LEMMA ReachedForGood ==
  ASSUME Types, Types', \A r \in Requests : Rank[stage[r]] <= Rank[stage'[r]], NEW e \in Events
  PROVE  (Reached(e) => Reached(e)') /\ (Past(e) => Past(e)')
<1>1. e.req \in Requests /\ e.phase \in Phases
  BY DEF Events
<1>2. Rank[stage[e.req]] \in Nat /\ Rank[stage'[e.req]] \in Nat /\ Rank[e.phase] \in Nat
  BY <1>1, Ranked DEF Types
<1>3. Rank[stage[e.req]] <= Rank[stage'[e.req]]
  BY <1>1
<1> QED
  BY <1>2, <1>3 DEF Reached, Past

(* While frames are only added and no request comes to a pause, paused
   requests stay known. *)
LEMMA KnownKept ==
  ASSUME PausedIsKnown, UNCHANGED <<sent, next, handler>>,
         \A k \in DOMAIN down : k \in DOMAIN down' /\ down'[k] = down[k],
         \A r \in Requests, p \in Phases : stage'[r] = p => stage[r] = p
  PROVE  PausedIsKnown'
<1>1. \A r, p : (InFlight(r, p) => InFlight(r, p)') /\ (Missed(r, p) => Missed(r, p)')
  BY DEF InFlight, Missed, Overwritten
<1> QED
  BY <1>1 DEF PausedIsKnown

(* A request reaches a phase, and is paused there or goes on. *)
LEMMA ReachOK ==
  ASSUME IInv, NEW r \in Requests, NEW p \in Phases, Reach(r, p)
  PROVE  IInv'
<1> USE DEF ownerVars, browserVars
<1>0. Types /\ OneCall("add", owner = "adding") /\ OneCall("answer", Handling) /\ IdsAreOwned
      /\ AnswersAreHandlers /\ EventsAreOnce /\ SubscribedFirst /\ PausedIsKnown /\ RegisteredIsGuarded
  BY DEF IInv
<1>a. /\ UNCHANGED <<owner, guard, jobs, lost, handler, up, replies, sent, next, subscribed, fresh, active>>
      /\ stage[r] \in Before(p)
      /\ stage' = [stage EXCEPT ![r] = IF Blocking(p) # {} THEN p ELSE After(p)]
  BY DEF Reach
<1> DEFINE e == Event(r, p, Blocking(p) # {})
<1>b. e \in Events /\ e.req = r /\ e.phase = p
  BY DEF Event, Events
<1>c. down' = IF subscribed THEN Append(down, e) ELSE down
  BY DEF Reach
<1> HIDE DEF e
<1>d. /\ DOMAIN Append(down, e) = DOMAIN down \cup {Len(down) + 1} /\ Len(down) + 1 \notin DOMAIN down
      /\ \A k \in DOMAIN down : Append(down, e)[k] = down[k]
      /\ Append(down, e)[Len(down) + 1] = e
      /\ Append(down, e) \in Seq(Replies \cup Events)
      /\ Rng(Append(down, e)) = Rng(down) \cup {e}
  <2>1. down \in Seq(Replies \cup Events) /\ e \in Replies \cup Events
    BY <1>0, <1>b DEF Types
  <2> QED
    BY <2>1, Appended
<1>f. \A s \in Requests : /\ s # r => stage'[s] = stage[s]
                          /\ s = r => stage'[s] = IF Blocking(p) # {} THEN p ELSE After(p)
  BY <1>0, <1>a DEF Types
<1>g. /\ stage[r] \notin Phases /\ Rank[stage[r]] < Rank[p]
      /\ After(p) \in {"flying", "answered", "over"} /\ After(p) \notin Phases /\ Rank[p] < Rank[After(p)]
  BY <1>a, PhasesInOrder, NotAPhase
<1>1. Types'
  <2>1. stage' \in [Requests -> {"new", "flying", "answered", "over"} \cup Phases]
    BY <1>0, <1>a, <1>g DEF Types
  <2>2. down' \in Seq(Replies \cup Events)
    BY <1>0, <1>c, <1>d DEF Types
  <2> QED
    BY <1>0, <1>a, <2>1, <2>2 DEF Types
<1>h. \A x \in Events : (Reached(x) => Reached(x)') /\ (Past(x) => Past(x)')
  <2>1. \A s \in Requests : Rank[stage[s]] <= Rank[stage'[s]]
    <3>1. \A s \in Requests : Rank[stage[s]] \in Nat /\ Rank[stage'[s]] \in Nat
      BY <1>0, <1>1, Ranked DEF Types
    <3>2. Rank[p] \in Nat /\ Rank[After(p)] \in Nat
      BY <1>g, Ranked
    <3> QED
      BY <1>f, <1>g, <3>1, <3>2
  <2> QED
    BY <1>0, <1>1, <2>1, ReachedForGood
<1>i. Reached(e)'
  <2>1. stage'[r] \in {p, After(p)} /\ Rank[p] \in Nat /\ Rank[After(p)] \in Nat
    BY <1>f, <1>g, Ranked
  <2>2. Rank[stage'[r]] >= Rank[p]
    BY <1>g, <2>1
  <2> QED
    BY <1>b, <2>2 DEF Reached, e, Event
<1>j. \A x \in Events : Reached(x) => ~Same(x, e) /\ ~Same(e, x)
  <2>1. \A x \in Events : Reached(x) /\ x.req = r /\ x.phase = p => FALSE
    <3>1. Rank[stage[r]] \in Nat /\ Rank[p] \in Nat
      BY <1>0, Ranked DEF Types
    <3> QED
      BY <1>g, <3>1 DEF Reached
  <2> QED
    BY <1>b, <2>1 DEF Same
<1>k. \A kind : ~IsReply(e, kind)
  BY <1>b, RepliesAre
<1>2. OneCall("add", owner = "adding")'
  <2>1. OneCallIn(up, Append(down, e), replies, "add", owner = "adding")
    BY <1>0, <1>b, <1>k, EventCame DEF OneCall, Down, Types
  <2> QED
    BY <1>0, <1>a, <1>c, <2>1 DEF OneCall
<1>3. OneCall("answer", Handling)'
  <2>1. (Handling' <=> Handling) /\ Handling \in BOOLEAN /\ Handling' \in BOOLEAN
    BY <1>a, HandlingKept
  <2>2. OneCallIn(up, Append(down, e), replies, "answer", Handling)
    BY <1>0, <1>b, <1>k, <2>1, EventCame DEF OneCall, Down, Types
  <2>3. OneCallIn(up, down', replies, "answer", Handling)
    BY <1>0, <1>c, <2>2 DEF OneCall
  <2>4. OneCallIn(up, down', replies, "answer", Handling')
    BY <2>1, <2>3, CallKept
  <2> QED
    BY <1>a, <2>4 DEF OneCall
<1>l. \A f : f \in replies' \cup Rng(down') => f = e \/ f \in replies \cup Rng(down)
  BY <1>a, <1>c, <1>d
<1>4. IdsAreOwned'
  <2>1. \A i : AddPending(i)' => AddPending(i)
    <3>1. \A i : [reply |-> "add", id |-> i] # e
      BY <1>b DEF Events
    <3> QED
      BY <1>l, <3>1 DEF AddPending
  <2> QED
    BY <1>0, <1>a, <2>1 DEF IdsAreOwned
<1>5. AnswersAreHandlers'
  <2>1. Handling => (Reached(handler) => Reached(handler)') /\ (Past(handler) => Past(handler)')
    <3>1. ASSUME Handling PROVE (Reached(handler) => Reached(handler)') /\ (Past(handler) => Past(handler)')
      <4>1. PICK x \in Events : x = handler
        BY <3>1 DEF Handling
      <4>2. (Reached(x) => Reached(x)') /\ (Past(x) => Past(x)')
        BY <1>h
      <4> QED
        BY <1>a, <4>1, <4>2 DEF Reached, Past
    <3> QED
      BY <3>1
  <2>2. \A f \in replies' \cup Rng(down') : IsReply(f, "answer") => f \in replies \cup Rng(down)
    BY <1>k, <1>l
  <2>3. Handling' <=> Handling
    BY <1>a, HandlingKept
  <2> QED
    BY <1>0, <1>a, <2>1, <2>2, <2>3 DEF AnswersAreHandlers
<1>6. EventsAreOnce'
  <2>1. \A k \in DOMAIN sent : sent[k] \in Events
    BY <1>0 DEF Types
  <2>2. \A k \in DOMAIN sent : Reached(sent[k])
    BY <1>0 DEF EventsAreOnce
  <2>3. \A k \in DOMAIN down : down[k] \in Events => Reached(down[k])
    BY <1>0 DEF EventsAreOnce
  <2>4. \A x \in Events : Reached(x) => Reached(x)'
    BY <1>h
  <2>5. CASE down' = Append(down, e)
    <3>1. /\ DOMAIN down' = DOMAIN down \cup {Len(down) + 1}
          /\ \A k \in DOMAIN down : down'[k] = down[k]
          /\ down'[Len(down) + 1] = e
      BY <1>d, <2>5
    <3>2. \A k \in DOMAIN down' : down'[k] \in Events =>
             \A l \in DOMAIN down' : down'[l] \in Events /\ Same(down'[k], down'[l]) => k = l
      BY <1>0, <1>j, <2>3, <3>1, Zenon DEF EventsAreOnce
    <3>3. \A k \in DOMAIN sent : \A l \in DOMAIN down' : down'[l] \in Events => ~Same(sent[k], down'[l])
      BY <1>0, <1>j, <2>1, <2>2, <3>1, Zenon DEF EventsAreOnce
    <3>4. \A k \in DOMAIN down' : down'[k] \in Events => Rank[stage'[down'[k].req]] >= Rank[down'[k].phase]
      <4>1. \A k \in DOMAIN down : down[k] \in Events => Rank[stage'[down[k].req]] >= Rank[down[k].phase]
        BY <2>3, <2>4 DEF Reached
      <4>2. Rank[stage'[e.req]] >= Rank[e.phase]
        BY <1>i, <1>b DEF Reached, e, Event
      <4> QED
        BY <3>1, <4>1, <4>2
    <3>5. \A k \in DOMAIN sent : Rank[stage'[sent[k].req]] >= Rank[sent[k].phase]
      BY <2>1, <2>2, <2>4 DEF Reached
    <3> QED
      BY <1>0, <1>a, <3>2, <3>3, <3>4, <3>5 DEF EventsAreOnce, Reached, Same
  <2>6. CASE down' = down
    <3>4. \A k \in DOMAIN down : down[k] \in Events => Rank[stage'[down[k].req]] >= Rank[down[k].phase]
      BY <2>3, <2>4 DEF Reached
    <3>5. \A k \in DOMAIN sent : Rank[stage'[sent[k].req]] >= Rank[sent[k].phase]
      BY <2>1, <2>2, <2>4 DEF Reached
    <3> QED
      BY <1>0, <1>a, <2>6, <3>4, <3>5 DEF EventsAreOnce, Reached, Same
  <2> QED
    BY <1>c, <2>5, <2>6
<1>7. SubscribedFirst'
  <2>1. \A f \in replies' \cup Rng(down') : IsReply(f, "subscribe") => subscribed
    BY <1>0, <1>k, <1>l DEF SubscribedFirst
  <2>2. owner \in {"start", "subscribing"} => \A s \in Requests : stage'[s] \notin Phases
    <3>1. owner \in {"start", "subscribing"} => Blocking(p) = {} /\ \A s \in Requests : stage[s] \notin Phases
      BY <1>0 DEF SubscribedFirst, Blocking
    <3> QED
      BY <1>f, <1>g, <3>1
  <2> QED
    BY <1>0, <1>a, <2>1, <2>2 DEF SubscribedFirst
<1>8. PausedIsKnown'
  <2> SUFFICES ASSUME handler' # Off, NEW s \in Requests, NEW q \in Phases, stage'[s] = q
               PROVE  InFlight(s, q)' \/ Missed(s, q)'
    BY DEF PausedIsKnown
  <2>1. subscribed
    BY <1>0, <1>a DEF SubscribedFirst
  <2>2. /\ DOMAIN down' = DOMAIN down \cup {Len(down) + 1}
        /\ \A k \in DOMAIN down : down'[k] = down[k]
        /\ down'[Len(down) + 1] = e
    BY <1>c, <1>d, <2>1
  <2>3. CASE s = r
    <3>1. q = p /\ Blocking(p) # {}
      BY <1>f, <1>g, <2>3
    <3>2. e = Event(s, q, TRUE)
      BY <2>3, <3>1 DEF e, Event
    <3> QED
      BY <2>2, <3>2 DEF InFlight
  <2>4. CASE s # r
    <3>1. stage[s] = q
      BY <1>f, <2>4
    <3>2. InFlight(s, q) \/ Missed(s, q)
      BY <1>0, <1>a, <3>1 DEF PausedIsKnown
    <3> QED
      BY <1>a, <2>2, <3>2 DEF InFlight, Missed, Overwritten
  <2> QED
    BY <2>3, <2>4
<1>9. RegisteredIsGuarded'
  <2>1. replies \cup Rng(down) \subseteq replies' \cup Rng(down')
    BY <1>a, <1>c, <1>d
  <2> QED
    BY <1>0, <1>a, <2>1 DEF RegisteredIsGuarded
<1> QED
  BY <1>1, <1>2, <1>3, <1>4, <1>5, <1>6, <1>7, <1>8, <1>9 DEF IInv

(* What the browser does with a command, case by case. *)
LEMMA Executed ==
  ASSUME IInv, Execute
  PROVE  /\ up # <<>> /\ up' = Tail(up) /\ Head(up) \in Frames
         /\ UNCHANGED <<owner, guard, jobs, handler, replies, sent, next>>
         /\ LET f == Head(up) IN
            \/ /\ f.cmd = "subscribe" /\ subscribed' = TRUE /\ Answered("subscribe", None)
               /\ UNCHANGED <<fresh, active, stage, lost>>
            \/ \E i \in fresh :
                 /\ f.cmd \in {"add", "add, dropped"} /\ f.arg \in SUBSET Phases
                 /\ fresh' = fresh \ {i} /\ active' = [active EXCEPT ![i] = f.arg]
                 /\ \/ f.cmd = "add" /\ Answered("add", i) /\ lost' = lost
                    \/ f.cmd = "add, dropped" /\ lost' = lost \cup {i} /\ down' = down
                 /\ UNCHANGED <<subscribed, stage>>
            \/ /\ f.cmd \in {"remove", "remove, dropped"} /\ f.arg \in Intercepts
               /\ active' = [active EXCEPT ![f.arg] = {}]
               /\ Answered("remove", None) \/ down' = down
               /\ UNCHANGED <<subscribed, fresh, stage, lost>>
            \/ /\ f.cmd \in AnswerCmds /\ f.arg \in Requests
               /\ Resume(f.arg, f.cmd) /\ Answered("answer", None)
               /\ UNCHANGED <<subscribed, fresh, active, lost>>
<1> DEFINE f == Head(up)
<1>1. up # <<>> /\ up' = Tail(up) /\ UNCHANGED <<owner, guard, jobs, handler, replies, sent, next>>
  BY DEF Execute
<1>2. f \in Frames
  BY <1>1, Rest DEF IInv, Types
<1>3. CASE f.cmd = "subscribe"
  BY <1>1, <1>2, <1>3 DEF Execute, Answered
<1>4. CASE f.cmd \in {"add", "add, dropped"}
  <2>1. f.arg \in SUBSET Phases
    BY <1>2, <1>4 DEF Frames, AnswerCmds
  <2>2. PICK i \in fresh :
          /\ fresh' = fresh \ {i} /\ active' = [active EXCEPT ![i] = f.arg]
          /\ IF f.cmd = "add" THEN Answered("add", i) /\ UNCHANGED lost
                              ELSE lost' = lost \cup {i} /\ UNCHANGED down
          /\ UNCHANGED <<subscribed, stage>>
    BY <1>4 DEF Execute, Answered
  <2> QED
    BY <1>1, <1>2, <1>4, <2>1, <2>2
<1>5. CASE f.cmd \in {"remove", "remove, dropped"}
  <2>1. f.arg \in Intercepts
    BY <1>2, <1>5 DEF Frames, AnswerCmds
  <2> QED
    BY <1>1, <1>2, <1>5, <2>1 DEF Execute, Answered
<1>6. CASE f.cmd \notin {"subscribe", "add", "add, dropped", "remove", "remove, dropped"}
  <2>1. f.cmd \in AnswerCmds /\ f.arg \in Requests
    BY <1>2, <1>6 DEF Frames
  <2>2. Resume(f.arg, f.cmd) /\ Answered("answer", None) /\ UNCHANGED <<subscribed, fresh, active, lost>>
    BY <1>6 DEF Execute, Answered
  <2> QED
    BY <1>1, <1>2, <2>1, <2>2
<1> QED
  BY <1>3, <1>4, <1>5, <1>6

(* The parts of the invariant that every command keeps. *)
LEMMA ExecuteKeeps ==
  ASSUME IInv, up # <<>>, up' = Tail(up), UNCHANGED <<owner, guard, jobs, handler, replies, sent, next>>,
         NEW x \in Replies,
         down' = down \/ (down' = Append(down, x) /\ (x.reply \in {"add", "answer"} => Kind(Head(up)) = x.reply)),
         stage' \in [Requests -> {"new", "flying", "answered", "over"} \cup Phases],
         \A r \in Requests : Rank[stage[r]] <= Rank[stage'[r]],
         subscribed' \in BOOLEAN, fresh' \subseteq Intercepts, lost' \subseteq Intercepts,
         active' \in [Intercepts -> SUBSET Phases]
  PROVE  /\ Types' /\ OneCall("add", owner = "adding")' /\ OneCall("answer", Handling)' /\ EventsAreOnce'
         /\ Handling => (Reached(handler) => Reached(handler)') /\ (Past(handler) => Past(handler)')
         /\ Head(up) = up[1] /\ 1 \in DOMAIN up
         /\ \A k \in DOMAIN up' : k + 1 \in DOMAIN up /\ up'[k] = up[k + 1]
         /\ \A k \in DOMAIN up : k = 1 \/ (k - 1 \in DOMAIN up' /\ up'[k - 1] = up[k])
         /\ \A k \in DOMAIN down : k \in DOMAIN down' /\ down'[k] = down[k]
         /\ replies \cup Rng(down) \subseteq replies' \cup Rng(down')
         /\ down' = Append(down, x) => x \in Rng(down')
         /\ \A g \in replies' \cup Rng(down') : g \in replies \cup Rng(down) \/ (g = x /\ down' = Append(down, x))
<1>0. Types /\ OneCall("add", owner = "adding") /\ OneCall("answer", Handling) /\ EventsAreOnce
  BY DEF IInv
<1>a. up \in Seq(Frames) /\ down \in Down /\ down \in Seq(Replies \cup Events) /\ x \in Replies \cup Events
  BY <1>0 DEF Types, Down
<1>b. /\ Tail(up) \in Seq(Frames) /\ 1 \in DOMAIN up /\ Head(up) = up[1]
      /\ \A k \in DOMAIN Tail(up) : k + 1 \in DOMAIN up /\ Tail(up)[k] = up[k + 1] /\ k \in Nat
      /\ \A k \in DOMAIN up : k = 1 \/ (k - 1 \in DOMAIN Tail(up) /\ k \in Nat)
  BY <1>a, Rest
<1>c. \A k \in DOMAIN up : k = 1 \/ (k - 1 \in DOMAIN up' /\ up'[k - 1] = up[k])
  <2>1. \A k \in Nat : (k - 1) + 1 = k
    OBVIOUS
  <2>2. \A k \in DOMAIN up : k # 1 => k - 1 \in DOMAIN up' /\ up'[k - 1] = up[(k - 1) + 1] /\ k \in Nat
    BY <1>b, Zenon
  <2> QED
    BY <2>1, <2>2, Zenon
<1>d. /\ Append(down, x) \in Seq(Replies \cup Events)
      /\ DOMAIN Append(down, x) = DOMAIN down \cup {Len(down) + 1} /\ Len(down) + 1 \notin DOMAIN down
      /\ \A k \in DOMAIN down : Append(down, x)[k] = down[k]
      /\ Append(down, x)[Len(down) + 1] = x
      /\ Rng(Append(down, x)) = Rng(down) \cup {x}
  BY <1>a, Appended
<1>1. Types'
  <2>1. down' \in Seq(Replies \cup Events)
    BY <1>a, <1>d
  <2> QED
    BY <1>0, <1>b, <2>1 DEF Types
<1>e. \A e \in Events : (Reached(e) => Reached(e)') /\ (Past(e) => Past(e)')
  BY <1>0, <1>1, ReachedForGood
<1>f. \A k \in DOMAIN down : k \in DOMAIN down' /\ down'[k] = down[k]
  BY <1>d
<1>2. OneCall("add", owner = "adding")'
  <2>1. OneCallIn(Tail(up), down, replies, "add", owner = "adding")
    BY <1>0, <1>a, CallTaken DEF OneCall
  <2>2. CASE down' = down
    BY <2>1, <2>2 DEF OneCall
  <2>3. CASE down' = Append(down, x) /\ (x.reply \in {"add", "answer"} => Kind(Head(up)) = x.reply)
    <3>1. OneCallIn(Tail(up), Append(down, x), replies, "add", owner = "adding")
      BY <1>0, <1>a, <2>3, CallExecuted DEF OneCall
    <3> QED
      BY <2>3, <3>1 DEF OneCall
  <2> QED
    BY <2>2, <2>3
<1>3. OneCall("answer", Handling)'
  <2>0. (Handling' <=> Handling) /\ Handling \in BOOLEAN /\ Handling' \in BOOLEAN
    BY HandlingKept
  <2>1. OneCallIn(Tail(up), down, replies, "answer", Handling)
    BY <1>0, <1>a, <2>0, CallTaken DEF OneCall
  <2>2. CASE down' = down
    BY <2>0, <2>1, <2>2, CallKept DEF OneCall
  <2>3. CASE down' = Append(down, x) /\ (x.reply \in {"add", "answer"} => Kind(Head(up)) = x.reply)
    <3>1. OneCallIn(Tail(up), Append(down, x), replies, "answer", Handling)
      BY <1>0, <1>a, <2>0, <2>3, CallExecuted DEF OneCall
    <3>2. OneCallIn(Tail(up), Append(down, x), replies, "answer", Handling')
      BY <2>0, <3>1, CallKept
    <3> QED
      BY <2>3, <3>2 DEF OneCall
  <2> QED
    BY <2>2, <2>3
<1>4. EventsAreOnce'
  <2>1. \A k \in DOMAIN down' : down'[k] \in Events => k \in DOMAIN down /\ down'[k] = down[k]
    <3>1. x \notin Events
      BY FrameKinds
    <3> QED
      BY <1>d, <3>1
  <2>2. \A k \in DOMAIN down : down[k] \in Events => Rank[stage'[down[k].req]] >= Rank[down[k].phase]
    BY <1>0, <1>e DEF Reached, EventsAreOnce
  <2>3. \A k \in DOMAIN sent : Rank[stage'[sent[k].req]] >= Rank[sent[k].phase]
    <3>1. \A k \in DOMAIN sent : sent[k] \in Events
      BY <1>0 DEF Types
    <3> QED
      BY <1>0, <1>e, <3>1 DEF Reached, EventsAreOnce
  <2>4. /\ \A k, l \in DOMAIN down' : down'[k] \in Events /\ down'[l] \in Events /\ Same(down'[k], down'[l]) => k = l
        /\ \A k \in DOMAIN sent : \A l \in DOMAIN down' : down'[l] \in Events => ~Same(sent[k], down'[l])
    BY <1>0, <2>1, Zenon DEF EventsAreOnce
  <2>5. \A k \in DOMAIN down' : down'[k] \in Events => Rank[stage'[down'[k].req]] >= Rank[down'[k].phase]
    BY <2>1, <2>2
  <2> QED
    BY <1>0, <2>3, <2>4, <2>5 DEF EventsAreOnce, Reached, Same
<1>5. ASSUME Handling PROVE (Reached(handler) => Reached(handler)') /\ (Past(handler) => Past(handler)')
  <2>1. PICK e \in Events : e = handler
    BY <1>5 DEF Handling
  <2>2. (Reached(e) => Reached(e)') /\ (Past(e) => Past(e)')
    BY <1>e
  <2> QED
    BY <2>1, <2>2 DEF Reached, Past
<1>6. \A g \in replies' \cup Rng(down') : g \in replies \cup Rng(down) \/ (g = x /\ down' = Append(down, x))
  BY <1>d
<1>7. replies \cup Rng(down) \subseteq replies' \cup Rng(down') /\ (down' = Append(down, x) => x \in Rng(down'))
  BY <1>d
<1> QED
  BY <1>1, <1>2, <1>3, <1>4, <1>5, <1>6, <1>7, <1>b, <1>c, <1>f

(* A removal behind the head of the queue is still in its rest. *)
LEMMA RemovalsRest ==
  ASSUME NEW i, \A k \in DOMAIN up : k = 1 \/ (k - 1 \in DOMAIN up' /\ up'[k - 1] = up[k]),
         up[1] \notin Removals(i), \E k \in DOMAIN up : up[k] \in Removals(i)
  PROVE  \E k \in DOMAIN up' : up'[k] \in Removals(i)
  OBVIOUS

(* Requests that stay where they are have not gone back. *)
LEMMA StageKept ==
  ASSUME Types, stage' = stage
  PROVE  \A r \in Requests : Rank[stage[r]] <= Rank[stage'[r]]
<1>1. \A r \in Requests : Rank[stage[r]] \in Nat
  BY Ranked DEF Types
<1>2. \A r \in Requests : Rank[stage[r]] <= Rank[stage[r]]
  BY <1>1
<1> QED
  BY <1>2

(* The browser executes a subscription. *)
LEMMA ExecuteSubscribeOK ==
  ASSUME IInv, up # <<>>, up' = Tail(up), Head(up) \in Frames,
         UNCHANGED <<owner, guard, jobs, handler, replies, sent, next>>,
         Head(up).cmd = "subscribe", subscribed' = TRUE, Answered("subscribe", None),
         UNCHANGED <<fresh, active, stage, lost>>
  PROVE  IInv'
<1>0. Types /\ IdsAreOwned /\ AnswersAreHandlers /\ SubscribedFirst /\ PausedIsKnown /\ RegisteredIsGuarded
  BY DEF IInv
<1> DEFINE x == [reply |-> "subscribe", id |-> None]
<1>a. x \in Replies /\ x.reply = "subscribe" /\ down' = Append(down, x)
  BY DEF Replies, Answered
<1>b. \A r \in Requests : Rank[stage[r]] <= Rank[stage'[r]]
  BY <1>0, StageKept
<1>c. \A kind : IsReply(x, kind) => kind = "subscribe"
  BY <1>a, RepliesAre
<1>d. \A i : x # [reply |-> "add", id |-> i]
  OBVIOUS
<1> HIDE DEF x
<1>1. /\ Types' /\ OneCall("add", owner = "adding")' /\ OneCall("answer", Handling)' /\ EventsAreOnce'
      /\ Handling => (Reached(handler) => Reached(handler)') /\ (Past(handler) => Past(handler)')
      /\ Head(up) = up[1] /\ 1 \in DOMAIN up
      /\ \A k \in DOMAIN up' : k + 1 \in DOMAIN up /\ up'[k] = up[k + 1]
      /\ \A k \in DOMAIN up : k = 1 \/ (k - 1 \in DOMAIN up' /\ up'[k - 1] = up[k])
      /\ \A k \in DOMAIN down : k \in DOMAIN down' /\ down'[k] = down[k]
      /\ replies \cup Rng(down) \subseteq replies' \cup Rng(down')
      /\ \A g \in replies' \cup Rng(down') : g \in replies \cup Rng(down) \/ g = x
  BY <1>0, <1>a, <1>b, ExecuteKeeps DEF Types
<1>2. IdsAreOwned'
  <2>1. \A i : AddPending(i)' => AddPending(i)
    BY <1>1, <1>d DEF AddPending
  <2> QED
    BY <1>0, <2>1 DEF IdsAreOwned
<1>3. AnswersAreHandlers'
  <2>1. \A g \in replies' \cup Rng(down') : IsReply(g, "answer") => g \in replies \cup Rng(down)
    BY <1>1, <1>c
  <2>2. \A k \in DOMAIN up' : k + 1 \in DOMAIN up /\ up'[k] = up[k + 1]
    BY <1>1
  <2>3. Handling' <=> Handling
    BY HandlingKept
  <2> QED
    BY <1>0, <2>1, <2>2, <2>3 DEF AnswersAreHandlers, Reached, Past
<1>4. SubscribedFirst'
  BY <1>0, <1>1 DEF SubscribedFirst
<1>5. PausedIsKnown'
  BY <1>0, <1>1, KnownKept
<1>6. RegisteredIsGuarded'
  <2>1. \A i : up[1] \notin Removals(i)
    BY <1>1 DEF Removals
  <2>2. \A i \in Intercepts : (\E k \in DOMAIN up : up[k] \in Removals(i)) => \E k \in DOMAIN up' : up'[k] \in Removals(i)
    BY <1>1, <2>1, RemovalsRest
  <2> QED
    BY <1>0, <1>1, <2>2 DEF RegisteredIsGuarded, Removals
<1> QED
  BY <1>1, <1>2, <1>3, <1>4, <1>5, <1>6 DEF IInv

(* The browser registers an intercept. *)
LEMMA ExecuteAddOK ==
  ASSUME IInv, up # <<>>, up' = Tail(up), Head(up) \in Frames,
         UNCHANGED <<owner, guard, jobs, handler, replies, sent, next>>,
         NEW i \in fresh, Head(up).cmd \in {"add", "add, dropped"}, Head(up).arg \in SUBSET Phases,
         fresh' = fresh \ {i}, active' = [active EXCEPT ![i] = Head(up).arg],
         (Head(up).cmd = "add" /\ Answered("add", i) /\ lost' = lost)
           \/ (Head(up).cmd = "add, dropped" /\ lost' = lost \cup {i} /\ down' = down),
         UNCHANGED <<subscribed, stage>>
  PROVE  IInv'
<1>0. Types /\ IdsAreOwned /\ AnswersAreHandlers /\ SubscribedFirst /\ PausedIsKnown /\ RegisteredIsGuarded
  BY DEF IInv
<1> DEFINE x == [reply |-> "add", id |-> i]
<1>a. /\ x \in Replies /\ x.reply = "add" /\ i \in Intercepts
      /\ down' = down \/ (down' = Append(down, x) /\ Kind(Head(up)) = "add")
  BY <1>0 DEF Replies, Answered, Types, Kind, AnswerCmds
<1>b. \A r \in Requests : Rank[stage[r]] <= Rank[stage'[r]]
  BY <1>0, StageKept
<1>c. \A kind : IsReply(x, kind) => kind = "add"
  BY <1>a, RepliesAre
<1>d. \A j : x = [reply |-> "add", id |-> j] => j = i
  OBVIOUS
<1>e. \/ Head(up).cmd = "add" /\ down' = Append(down, x) /\ lost' = lost
      \/ lost' = lost \cup {i} /\ down' = down
  BY DEF Answered
<1> HIDE DEF x
<1>f. active' \in [Intercepts -> SUBSET Phases] /\ \A j \in Intercepts : j # i => active'[j] = active[j]
  BY <1>0 DEF Types
<1>1. /\ Types' /\ OneCall("add", owner = "adding")' /\ OneCall("answer", Handling)' /\ EventsAreOnce'
      /\ Handling => (Reached(handler) => Reached(handler)') /\ (Past(handler) => Past(handler)')
      /\ Head(up) = up[1] /\ 1 \in DOMAIN up
      /\ \A k \in DOMAIN up' : k + 1 \in DOMAIN up /\ up'[k] = up[k + 1]
      /\ \A k \in DOMAIN up : k = 1 \/ (k - 1 \in DOMAIN up' /\ up'[k - 1] = up[k])
      /\ \A k \in DOMAIN down : k \in DOMAIN down' /\ down'[k] = down[k]
      /\ replies \cup Rng(down) \subseteq replies' \cup Rng(down')
      /\ down' = Append(down, x) => x \in Rng(down')
      /\ \A g \in replies' \cup Rng(down') : g \in replies \cup Rng(down) \/ g = x
  <2>1. fresh' \subseteq Intercepts /\ lost' \subseteq Intercepts /\ subscribed' \in BOOLEAN
        /\ stage' \in [Requests -> {"new", "flying", "answered", "over"} \cup Phases]
    BY <1>0, <1>a DEF Types
  <2>2. down' = down \/ (down' = Append(down, x) /\ (x.reply \in {"add", "answer"} => Kind(Head(up)) = x.reply))
    BY <1>a
  <2> QED
    BY <1>a, <1>b, <1>f, <2>1, <2>2, ExecuteKeeps
<1>2. IdsAreOwned'
  <2>1. \A j : AddPending(j)' => j = i \/ AddPending(j)
    BY <1>1, <1>d DEF AddPending
  <2>2. i \notin jobs
    BY <1>0 DEF IdsAreOwned
  <2> QED
    BY <1>0, <2>1, <2>2 DEF IdsAreOwned
<1>3. AnswersAreHandlers'
  <2>1. \A g \in replies' \cup Rng(down') : IsReply(g, "answer") => g \in replies \cup Rng(down)
    BY <1>1, <1>c
  <2>2. \A k \in DOMAIN up' : k + 1 \in DOMAIN up /\ up'[k] = up[k + 1]
    BY <1>1
  <2>3. Handling' <=> Handling
    BY HandlingKept
  <2> QED
    BY <1>0, <2>1, <2>2, <2>3 DEF AnswersAreHandlers, Reached, Past
<1>4. SubscribedFirst'
  <2>1. owner \notin {"start", "subscribing"}
    BY <1>0, <1>1 DEF SubscribedFirst
  <2>2. \A g \in replies' \cup Rng(down') : IsReply(g, "subscribe") => g \in replies \cup Rng(down)
    BY <1>1, <1>c
  <2> QED
    BY <1>0, <2>1, <2>2 DEF SubscribedFirst
<1>5. PausedIsKnown'
  BY <1>0, <1>1, KnownKept
<1>6. RegisteredIsGuarded'
  <2>1. \A j : up[1] \notin Removals(j)
    BY <1>1 DEF Removals
  <2>2. \A j \in Intercepts : (\E k \in DOMAIN up : up[k] \in Removals(j)) => \E k \in DOMAIN up' : up'[k] \in Removals(j)
    BY <1>1, <2>1, RemovalsRest
  <2>3. i \in lost' \/ [reply |-> "add", id |-> i] \in replies' \cup Rng(down')
    BY <1>1, <1>e DEF x
  <2>4. lost \subseteq lost'
    BY <1>e
  <2> QED
    BY <1>0, <1>1, <1>f, <2>2, <2>3, <2>4 DEF RegisteredIsGuarded, Removals
<1> QED
  BY <1>1, <1>2, <1>3, <1>4, <1>5, <1>6 DEF IInv

(* The browser removes an intercept. *)
LEMMA ExecuteRemoveOK ==
  ASSUME IInv, up # <<>>, up' = Tail(up), Head(up) \in Frames,
         UNCHANGED <<owner, guard, jobs, handler, replies, sent, next>>,
         Head(up).cmd \in {"remove", "remove, dropped"}, Head(up).arg \in Intercepts,
         active' = [active EXCEPT ![Head(up).arg] = {}], Answered("remove", None) \/ down' = down,
         UNCHANGED <<subscribed, fresh, stage, lost>>
  PROVE  IInv'
<1>0. Types /\ IdsAreOwned /\ AnswersAreHandlers /\ SubscribedFirst /\ PausedIsKnown /\ RegisteredIsGuarded
  BY DEF IInv
<1> DEFINE x == [reply |-> "remove", id |-> None]
           i == Head(up).arg
<1>a. x \in Replies /\ x.reply = "remove" /\ (down' = down \/ down' = Append(down, x))
  BY DEF Replies, Answered
<1>b. \A r \in Requests : Rank[stage[r]] <= Rank[stage'[r]]
  BY <1>0, StageKept
<1>c. \A kind : IsReply(x, kind) => kind = "remove"
  BY <1>a, RepliesAre
<1>d. \A j : x # [reply |-> "add", id |-> j]
  OBVIOUS
<1> HIDE DEF x
<1>f. /\ active' \in [Intercepts -> SUBSET Phases] /\ active'[i] = {}
      /\ \A j \in Intercepts : j # i => active'[j] = active[j]
  BY <1>0 DEF Types
<1>g. \A j : Head(up) \in Removals(j) => j = i
  BY DEF Removals
<1> HIDE DEF i
<1>1. /\ Types' /\ OneCall("add", owner = "adding")' /\ OneCall("answer", Handling)' /\ EventsAreOnce'
      /\ Handling => (Reached(handler) => Reached(handler)') /\ (Past(handler) => Past(handler)')
      /\ Head(up) = up[1] /\ 1 \in DOMAIN up
      /\ \A k \in DOMAIN up' : k + 1 \in DOMAIN up /\ up'[k] = up[k + 1]
      /\ \A k \in DOMAIN up : k = 1 \/ (k - 1 \in DOMAIN up' /\ up'[k - 1] = up[k])
      /\ \A k \in DOMAIN down : k \in DOMAIN down' /\ down'[k] = down[k]
      /\ replies \cup Rng(down) \subseteq replies' \cup Rng(down')
      /\ \A g \in replies' \cup Rng(down') : g \in replies \cup Rng(down) \/ g = x
  BY <1>0, <1>a, <1>b, <1>f, ExecuteKeeps DEF Types
<1>2. IdsAreOwned'
  <2>1. \A j : AddPending(j)' => AddPending(j)
    BY <1>1, <1>d DEF AddPending
  <2> QED
    BY <1>0, <2>1 DEF IdsAreOwned
<1>3. AnswersAreHandlers'
  <2>1. \A g \in replies' \cup Rng(down') : IsReply(g, "answer") => g \in replies \cup Rng(down)
    BY <1>1, <1>c
  <2>2. \A k \in DOMAIN up' : k + 1 \in DOMAIN up /\ up'[k] = up[k + 1]
    BY <1>1
  <2>3. Handling' <=> Handling
    BY HandlingKept
  <2> QED
    BY <1>0, <2>1, <2>2, <2>3 DEF AnswersAreHandlers, Reached, Past
<1>4. SubscribedFirst'
  <2>1. \A g \in replies' \cup Rng(down') : IsReply(g, "subscribe") => g \in replies \cup Rng(down)
    BY <1>1, <1>c
  <2>2. \A j \in Intercepts : active[j] = {} => active'[j] = {}
    BY <1>f
  <2>3. \A k \in DOMAIN up' : k + 1 \in DOMAIN up /\ up'[k] = up[k + 1]
    BY <1>1
  <2> QED
    BY <1>0, <2>1, <2>2, <2>3 DEF SubscribedFirst
<1>5. PausedIsKnown'
  BY <1>0, <1>1, KnownKept
<1>6. RegisteredIsGuarded'
  <2>2. \A j \in Intercepts : j # i /\ (\E k \in DOMAIN up : up[k] \in Removals(j))
          => \E k \in DOMAIN up' : up'[k] \in Removals(j)
    BY <1>1, <1>g, RemovalsRest
  <2> QED
    BY <1>0, <1>1, <1>f, <2>2 DEF RegisteredIsGuarded, Removals
<1> QED
  BY <1>1, <1>2, <1>3, <1>4, <1>5, <1>6 DEF IInv

(* An answer to a phase lets a request in that phase go on. *)
LEMMA AnswersRelease ==
  /\ \A p \in Phases : \A a \in Answers(p) : p \in Releases(a)
  /\ \A a \in AnswerCmds : Releases(a) \subseteq Phases
<1>1. /\ Releases("continueRequest") = {"beforeRequestSent"}
      /\ Releases("continueResponse") = {"responseStarted", "authRequired"}
      /\ Releases("continueWithAuth") = {"authRequired"}
      /\ Releases("failRequest") = Phases /\ Releases("provideResponse") = Phases
  BY DEF Releases
<1>2. \A p \in Phases : \A a \in Answers(p) : p \in Releases(a)
  BY <1>1, AnswersAre DEF Phases
<1>3. \A a \in AnswerCmds : Releases(a) \subseteq Phases
  BY <1>1 DEF AnswerCmds, Phases
<1> QED
  BY <1>2, <1>3

(* No stage is at the place of a phase but the phase. *)
LEMMA RankApart ==
  \A s \in {"new", "flying", "answered", "over"} \cup Phases : \A p \in Phases : Rank[s] = Rank[p] => s = p
  BY RankIs DEF Phases

(* An answer lets its request go on or leaves it where it is. *)
LEMMA Resumed ==
  ASSUME Types, NEW r \in Requests, NEW cmd \in AnswerCmds, Resume(r, cmd)
  PROVE  /\ stage' \in [Requests -> {"new", "flying", "answered", "over"} \cup Phases]
         /\ \A s \in Requests \ {r} : stage'[s] = stage[s]
         /\ \/ stage'[r] = stage[r] /\ stage[r] \notin Releases(cmd)
            \/ stage'[r] \in {"flying", "answered", "over"} /\ Rank[stage[r]] < Rank[stage'[r]]
<1>1. /\ stage \in [Requests -> {"new", "flying", "answered", "over"} \cup Phases]
      /\ stage' = [stage EXCEPT ![r] = IF stage[r] \notin Releases(cmd) THEN stage[r]
                                       ELSE IF cmd \in {"failRequest", "provideResponse"} THEN "over" ELSE After(stage[r])]
  BY DEF Types, Resume
<1>2. \A s \in Requests \ {r} : stage'[s] = stage[s]
  BY <1>1
<1>3. CASE stage[r] \notin Releases(cmd)
  BY <1>1, <1>2, <1>3
<1>4. CASE stage[r] \in Releases(cmd)
  <2>1. stage[r] \in Phases
    BY <1>4, AnswersRelease
  <2>2. stage'[r] \in {"over", After(stage[r])}
    BY <1>1, <1>4
  <2>3. Rank[stage[r]] < Rank["over"]
    BY <2>1, RankIs DEF Phases
  <2>4. stage'[r] \in {"flying", "answered", "over"} /\ Rank[stage[r]] < Rank[stage'[r]]
    BY <2>1, <2>2, <2>3, PhasesInOrder
  <2> QED
    BY <1>1, <1>2, <2>4
<1> QED
  BY <1>3, <1>4

(* The browser executes an answer. *)
LEMMA ExecuteAnswerOK ==
  ASSUME IInv, up # <<>>, up' = Tail(up), Head(up) \in Frames,
         UNCHANGED <<owner, guard, jobs, handler, replies, sent, next>>,
         Head(up).cmd \in AnswerCmds, Head(up).arg \in Requests,
         Resume(Head(up).arg, Head(up).cmd), Answered("answer", None),
         UNCHANGED <<subscribed, fresh, active, lost>>
  PROVE  IInv'
<1>0. Types /\ IdsAreOwned /\ AnswersAreHandlers /\ SubscribedFirst /\ PausedIsKnown /\ RegisteredIsGuarded
  BY DEF IInv
<1> DEFINE x == [reply |-> "answer", id |-> None]
           r == Head(up).arg
           cmd == Head(up).cmd
<1>a. x \in Replies /\ x.reply = "answer" /\ down' = Append(down, x) /\ Kind(Head(up)) = "answer"
  BY DEF Replies, Answered, Kind
<1>c. \A kind : IsReply(x, kind) => kind = "answer"
  BY <1>a, RepliesAre
<1>d. \A j : x # [reply |-> "add", id |-> j]
  OBVIOUS
<1> HIDE DEF x
<1>e. /\ stage' \in [Requests -> {"new", "flying", "answered", "over"} \cup Phases]
      /\ \A s \in Requests \ {r} : stage'[s] = stage[s]
      /\ \/ stage'[r] = stage[r] /\ stage[r] \notin Releases(cmd)
         \/ stage'[r] \in {"flying", "answered", "over"} /\ Rank[stage[r]] < Rank[stage'[r]]
  BY <1>0, Resumed
<1>g. r \in Requests /\ cmd \in AnswerCmds /\ \A j : Head(up) \notin Removals(j)
  BY DEF AnswerCmds, Removals
<1>h. Handling /\ r = handler.req /\ cmd \in Answers(handler.phase) /\ Reached(handler)
  <2>1. 1 \in DOMAIN up /\ up[1] = Head(up)
    BY <1>0, Rest DEF Types
  <2> QED
    BY <1>0, <2>1 DEF AnswersAreHandlers
<1> HIDE DEF r, cmd
<1>i. \A s \in Requests : Rank[stage[s]] \in Nat /\ Rank[stage'[s]] \in Nat
  BY <1>0, <1>e, Ranked DEF Types
<1>b. \A s \in Requests : Rank[stage[s]] <= Rank[stage'[s]]
  BY <1>e, <1>i
<1>j. \A s \in Requests, q \in Phases : stage'[s] = q => stage[s] = q
  BY <1>e, NotAPhase
<1>1. /\ Types' /\ OneCall("add", owner = "adding")' /\ OneCall("answer", Handling)' /\ EventsAreOnce'
      /\ Handling => (Reached(handler) => Reached(handler)') /\ (Past(handler) => Past(handler)')
      /\ Head(up) = up[1] /\ 1 \in DOMAIN up
      /\ \A k \in DOMAIN up' : k + 1 \in DOMAIN up /\ up'[k] = up[k + 1]
      /\ \A k \in DOMAIN up : k = 1 \/ (k - 1 \in DOMAIN up' /\ up'[k - 1] = up[k])
      /\ \A k \in DOMAIN down : k \in DOMAIN down' /\ down'[k] = down[k]
      /\ replies \cup Rng(down) \subseteq replies' \cup Rng(down')
      /\ \A g \in replies' \cup Rng(down') : g \in replies \cup Rng(down) \/ g = x
  BY <1>0, <1>a, <1>b, <1>e, ExecuteKeeps DEF Types
<1>2. IdsAreOwned'
  <2>1. \A j : AddPending(j)' => AddPending(j)
    BY <1>1, <1>d DEF AddPending
  <2> QED
    BY <1>0, <2>1 DEF IdsAreOwned
<1>3. AnswersAreHandlers'
  <2>1. PICK e \in Events : e = handler
    BY <1>h DEF Handling
  <2>2. e.req = r /\ e.phase \in Phases /\ cmd \in Answers(e.phase) /\ Rank[stage[r]] >= Rank[e.phase]
    BY <1>h, <2>1 DEF Events, Reached
  <2>3. Rank[stage'[r]] > Rank[e.phase]
    <3>0. Rank[e.phase] \in Nat /\ Rank[stage[r]] \in Nat /\ Rank[stage'[r]] \in Nat
      BY <1>g, <1>i, <2>2, Ranked
    <3>1. CASE stage'[r] = stage[r] /\ stage[r] \notin Releases(cmd)
      <4>1. stage[r] # e.phase
        BY <2>2, <3>1, AnswersRelease
      <4>2. stage[r] \in {"new", "flying", "answered", "over"} \cup Phases
        BY <1>0, <1>g DEF Types
      <4>3. Rank[stage[r]] # Rank[e.phase]
        BY <2>2, <4>1, <4>2, RankApart
      <4> QED
        BY <2>2, <3>0, <3>1, <4>3
    <3>2. CASE Rank[stage[r]] < Rank[stage'[r]]
      BY <2>2, <3>0, <3>2
    <3> QED
      BY <1>e, <3>1, <3>2
  <2>4. Past(handler)'
    BY <2>1, <2>2, <2>3 DEF Past
  <2>5. (Handling' <=> Handling) /\ handler' = handler
    BY HandlingKept
  <2>6. Reached(handler)'
    BY <1>1, <1>h
  <2>7. \A k \in DOMAIN up' : k + 1 \in DOMAIN up /\ up'[k] = up[k + 1]
    BY <1>1
  <2> QED
    BY <1>0, <1>h, <2>4, <2>5, <2>6, <2>7 DEF AnswersAreHandlers
<1>4. SubscribedFirst'
  <2>1. \A g \in replies' \cup Rng(down') : IsReply(g, "subscribe") => g \in replies \cup Rng(down)
    BY <1>1, <1>c
  <2>2. handler # Off
    BY <1>h, NoneAssumption DEF Handling
  <2> QED
    BY <1>0, <2>1, <2>2 DEF SubscribedFirst
<1>5. PausedIsKnown'
  BY <1>0, <1>1, <1>j, KnownKept
<1>6. RegisteredIsGuarded'
  <2>2. \A j \in Intercepts : (\E k \in DOMAIN up : up[k] \in Removals(j)) => \E k \in DOMAIN up' : up'[k] \in Removals(j)
    BY <1>1, <1>g, RemovalsRest
  <2> QED
    BY <1>0, <1>1, <2>2 DEF RegisteredIsGuarded, Removals
<1> QED
  BY <1>1, <1>2, <1>3, <1>4, <1>5, <1>6 DEF IInv

(* The browser executes a command. *)
LEMMA ExecuteOK ==
  ASSUME IInv, Execute
  PROVE  IInv'
<1>1. /\ up # <<>> /\ up' = Tail(up) /\ Head(up) \in Frames
      /\ UNCHANGED <<owner, guard, jobs, handler, replies, sent, next>>
  BY Executed
<1> DEFINE f == Head(up)
<1>2. \/ /\ f.cmd = "subscribe" /\ subscribed' = TRUE /\ Answered("subscribe", None)
         /\ UNCHANGED <<fresh, active, stage, lost>>
      \/ \E i \in fresh :
           /\ f.cmd \in {"add", "add, dropped"} /\ f.arg \in SUBSET Phases
           /\ fresh' = fresh \ {i} /\ active' = [active EXCEPT ![i] = f.arg]
           /\ \/ f.cmd = "add" /\ Answered("add", i) /\ lost' = lost
              \/ f.cmd = "add, dropped" /\ lost' = lost \cup {i} /\ down' = down
           /\ UNCHANGED <<subscribed, stage>>
      \/ /\ f.cmd \in {"remove", "remove, dropped"} /\ f.arg \in Intercepts
         /\ active' = [active EXCEPT ![f.arg] = {}]
         /\ Answered("remove", None) \/ down' = down
         /\ UNCHANGED <<subscribed, fresh, stage, lost>>
      \/ /\ f.cmd \in AnswerCmds /\ f.arg \in Requests
         /\ Resume(f.arg, f.cmd) /\ Answered("answer", None)
         /\ UNCHANGED <<subscribed, fresh, active, lost>>
  BY Executed
<1> QED
  BY <1>1, <1>2, ExecuteSubscribeOK, ExecuteAddOK, ExecuteRemoveOK, ExecuteAnswerOK

(* Nothing happens. *)
LEMMA StutterOK ==
  ASSUME IInv, UNCHANGED vars
  PROVE  IInv'
<1> USE DEF vars, ownerVars, browserVars
<1>0. Types /\ OneCall("add", owner = "adding") /\ OneCall("answer", Handling) /\ IdsAreOwned
      /\ AnswersAreHandlers /\ EventsAreOnce /\ SubscribedFirst /\ PausedIsKnown /\ RegisteredIsGuarded
  BY DEF IInv
<1>1. Types'
  BY <1>0 DEF Types
<1>2. OneCall("add", owner = "adding")' /\ OneCall("answer", Handling)'
  BY <1>0 DEF OneCall, OneCallIn, Handling
<1>3. IdsAreOwned' /\ RegisteredIsGuarded'
  BY <1>0 DEF IdsAreOwned, AddPending, RegisteredIsGuarded
<1>4. AnswersAreHandlers'
  BY <1>0 DEF AnswersAreHandlers, Reached, Past, Handling
<1>5. EventsAreOnce' /\ SubscribedFirst'
  BY <1>0 DEF EventsAreOnce, Reached, Same, SubscribedFirst
<1>6. PausedIsKnown'
  BY <1>0, KnownKept
<1> QED
  BY <1>1, <1>2, <1>3, <1>4, <1>5, <1>6 DEF IInv

(* The events, calls, ids and stages fit together in every reachable state. *)
THEOREM Inductive == Spec => []IInv
<1>1. IInv /\ [Next]_vars => IInv'
  <2> SUFFICES ASSUME IInv, [Next]_vars PROVE IInv'
    OBVIOUS
  <2>1. ASSUME NEW ps \in PhaseSets, AddIntercept(ps) PROVE IInv'
    BY <2>1, AddInterceptOK
  <2>2. ASSUME NEW inRuntime \in BOOLEAN, DropGuard(inRuntime) PROVE IInv'
    BY <2>2, DropGuardOK
  <2>3. ASSUME NEW i \in Intercepts, RunJob(i) PROVE IInv'
    BY <2>3, RunJobOK
  <2>4. ASSUME NEW r \in Requests, NEW p \in Phases, Reach(r, p) PROVE IInv'
    BY <2>4, ReachOK
  <2>5. CASE Subscribe \/ Open \/ Added \/ CancelAdd
    BY <2>5, SubscribeOK, OpenOK, AddedOK, CancelAddOK
  <2>6. CASE RemoveIntercept \/ CancelRemove \/ Removed
    BY <2>6, RemoveOK, CancelRemoveOK, RemovedOK
  <2>7. CASE Poll \/ AnswerDone \/ DropStream
    BY <2>7, PollOK, AnswerDoneOK, DropStreamOK
  <2>8. CASE Dispatch \/ Execute
    BY <2>8, DispatchOK, ExecuteOK
  <2>9. CASE UNCHANGED vars
    BY <2>9, StutterOK
  <2> QED
    BY <2>1, <2>2, <2>3, <2>4, <2>5, <2>6, <2>7, <2>8, <2>9 DEF Next
<1> QED
  BY <1>1, InitOK, PTL DEF Spec

(* A request is in the ring once for each phase, so no more than three
   times. *)
LEMMA TypesGive == IInv => TypeOK
<1> SUFFICES ASSUME IInv PROVE TypeOK
  OBVIOUS
<1>0. Types /\ IdsAreOwned /\ EventsAreOnce
  BY DEF IInv
<1>1. guard # None => guard \notin jobs
  BY <1>0 DEF IdsAreOwned
<1>2. ASSUME NEW r \in Requests
      PROVE  Cardinality({i \in DOMAIN sent : sent[i].req = r}) <= Cardinality(Phases)
  <2> DEFINE S == {i \in DOMAIN sent : sent[i].req = r}
             g == [i \in S |-> sent[i].phase]
  <2>1. IsFiniteSet(Phases)
    <3>1. Phases = ({"beforeRequestSent"} \cup {"responseStarted"}) \cup {"authRequired"}
      BY DEF Phases
    <3> QED
      BY <3>1, FS_Singleton, FS_Union
  <2>2. \A i \in S : sent[i].phase \in Phases
    <3>1. \A i \in DOMAIN sent : sent[i] \in Events
      BY <1>0 DEF Types
    <3>2. \A e \in Events : e.phase \in Phases
      BY DEF Events
    <3> QED
      BY <3>1, <3>2
  <2>3. \A i, j \in S : g[i] = g[j] => i = j
    BY <1>0 DEF EventsAreOnce, Same
  <2>4. g \in Injection(S, Phases)
    BY <2>2, <2>3 DEF Injection, IsInjective
  <2> HIDE DEF S, g
  <2>5. Cardinality(S) <= Cardinality(Phases)
    BY <2>1, <2>4, FS_Injection
  <2> QED
    BY <2>5 DEF S
<1> QED
  BY <1>0, <1>1, <1>2 DEF TypeOK, Types

(* Every paused request is known to a program that still reads its stream, or
   a full ring has overwritten its event (events.md, the recipe for
   interception; bidi/mod.rs, the broadcast ring). *)
THEOREM PausedIsHeardOf == Spec => []RequestsAreKnown
<1>1. IInv => RequestsAreKnown
  BY TypesGive DEF RequestsAreKnown, IInv
<1> QED
  BY <1>1, Inductive, PTL

(* An intercept that is registered has its guard, a removal under way, or is
   one that the code gives up (network.rs:67-115, InterceptGuard). *)
THEOREM RegisteredHasGuard == Spec => []RegisteredIsGuarded
<1>1. IInv => RegisteredIsGuarded
  BY DEF IInv
<1> QED
  BY <1>1, Inductive, PTL

-----------------------------------------------------------------------------
(* Windows and frames *)

(* The session's windows. *)
WindowTypes ==
  /\ windows \subseteq Windows /\ current \in Windows /\ frame \in {"top", "child", "gone"}
  /\ doc \in [Windows -> Nat]
  /\ name \in [Windows -> Names \cup {NoName}]

(* The commands on windows keep the types, of whichever task they are. *)
LEMMA CommandTypes == WindowTypes /\ WindowCommand => WindowTypes'
<1> SUFFICES ASSUME WindowTypes, WindowCommand PROVE WindowTypes'
  OBVIOUS
<1>1. CASE \E w \in windows : SwitchTo(w) /\ UNCHANGED <<windows, doc, name>>
  BY <1>1 DEF WindowTypes, SwitchTo
<1>2. CASE \E w \in Windows : Opens(w) /\ UNCHANGED <<current, frame, doc>>
  BY <1>2 DEF WindowTypes, Opens
<1>3. CASE Closes /\ windows # {current} /\ UNCHANGED <<current, frame, name>>
  BY <1>3 DEF WindowTypes, Closes
<1>4. CASE (Loads \/ Revisits) /\ UNCHANGED <<windows, current, name>>
  BY <1>4 DEF WindowTypes, Loads, Revisits
<1>5. CASE (EntersFrame \/ LeavesFrame) /\ UNCHANGED <<windows, current, doc, name>>
  BY <1>5 DEF WindowTypes, EntersFrame, LeavesFrame
<1>6. CASE IsNamed /\ UNCHANGED <<windows, current, frame, doc>>
  BY <1>6 DEF WindowTypes, IsNamed
<1> QED BY <1>1, <1>2, <1>3, <1>4, <1>5, <1>6 DEF WindowCommand

(* And so do those of BiDi. *)
LEMMA ContextTypes == WindowTypes /\ (ContextCommand \/ \E w \in Windows : ContextLoads(w)) => WindowTypes'
<1> SUFFICES ASSUME WindowTypes, ContextCommand \/ \E w \in Windows : ContextLoads(w) PROVE WindowTypes'
  OBVIOUS
<1>1. ASSUME NEW w, NEW u, ContextCreate(w, u) PROVE WindowTypes'
  BY <1>1 DEF WindowTypes, ContextCreate
<1>2. ASSUME NEW ws, ContextsClose(ws) PROVE WindowTypes'
  BY <1>2 DEF WindowTypes, ContextsClose
<1>3. ASSUME NEW u, UserContext(u) PROVE WindowTypes'
  BY <1>2, <1>3 DEF WindowTypes, UserContext, remote
<1>4. ASSUME NEW w \in Windows, ContextLoads(w) PROVE WindowTypes'
  BY <1>4 DEF WindowTypes, ContextLoads
<1> QED BY <1>1, <1>2, <1>3, <1>4 DEF ContextCommand

(* Every step keeps them. *)
LEMMA WindowTypesStep == WindowTypes /\ [BrowserNext]_stateVars => WindowTypes'
<1> SUFFICES ASSUME WindowTypes, [BrowserNext]_stateVars PROVE WindowTypes'
  OBVIOUS
<1>0. UNCHANGED remote => WindowTypes'
  BY DEF WindowTypes, remote
<1>1. CASE Other
  BY <1>0, <1>1, CommandTypes, ContextTypes DEF Other
<1>2. ASSUME NEW t \in Tasks, Navigate(t) \/ Context(t) PROVE WindowTypes'
  BY <1>2, CommandTypes, ContextTypes DEF Navigate, Context
<1>3. ASSUME NEW t \in Tasks, Method(t) PROVE WindowTypes'
  <2>1. CASE TabBegin(t) \/ TabBody(t) \/ NamedBegin(t) \/ NamedList(t) \/ NamedAsk(t) \/ Fail(t) \/ Abandon(t)
    BY <1>0, <2>1 DEF TabBegin, TabBody, NamedBegin, NamedList, NamedAsk, Fail, Abandon
  <2>2. CASE TabOpen(t)
    BY <2>2 DEF WindowTypes, TabOpen, Opens
  <2>3. CASE TabEnter(t)
    BY <2>3 DEF WindowTypes, TabEnter, SwitchTo
  <2>4. CASE TabClose(t)
    BY <2>4 DEF WindowTypes, TabClose, Closes
  <2>5. CASE TabBack(t) \/ NamedBack(t)
    BY <2>5 DEF WindowTypes, TabBack, NamedBack, SwitchTo
  <2>6. CASE NamedVisit(t)
    BY <2>6 DEF WindowTypes, NamedVisit, SwitchTo
  <2> QED BY <1>3, <2>1, <2>2, <2>3, <2>4, <2>5, <2>6 DEF Method
<1>4. ASSUME NEW t \in Tasks, Pick(t) PROVE WindowTypes'
  BY <1>0, <1>4 DEF Pick, PickBegin, PickFind, PickCandidates, PickShows, PickLook, PickClick, PickEnd, Goes, Advance
<1>5. ASSUME NEW t \in Tasks, Chain(t) PROVE WindowTypes'
  BY <1>0, <1>5 DEF Chain, ChainBegin, ChainCall, Perform, Reset, ChainEnd
<1>6. ASSUME NEW t \in Tasks, Settle(t) PROVE WindowTypes'
  BY <1>0, <1>6 DEF Settle
<1>7. CASE UNCHANGED stateVars
  BY <1>0, <1>7 DEF stateVars
<1> QED BY <1>1, <1>2, <1>3, <1>4, <1>5, <1>6, <1>7 DEF BrowserNext

-----------------------------------------------------------------------------
(* The commands a method may have come to. *)
Places == {"idle", "open", "enter", "body", "close", "back", "list", "visit", "ask",
           "chain", "performed", "options", "candidates", "shows", "look", "click", "picked"}

(* The variables of the methods. *)
LocalTypes ==
  /\ pc \in [Tasks -> Places]
  /\ saved \in [Tasks -> Windows \cup {NoWindow}] /\ tab \in [Tasks -> Windows \cup {NoWindow}]
  /\ want \in [Tasks -> Names \cup {NoName}] /\ left \in [Tasks -> SUBSET Windows]
  /\ before \in [Tasks -> SUBSET Windows] /\ alone \in [Tasks -> BOOLEAN]

(* A method's variables are of their types when it returns. *)
LEMMA EndTypes ==
  ASSUME LocalTypes, NEW t \in Tasks, End(t), alone' \in [Tasks -> BOOLEAN]
  PROVE  LocalTypes'
BY DEF LocalTypes, End, Places

(* History keeps its type. *)
LEMMA DisturbTypes == ASSUME LocalTypes, NEW t \in Tasks, NEW b \in BOOLEAN, Disturb(t, b) PROVE alone' \in [Tasks -> BOOLEAN]
BY DEF LocalTypes, Disturb

(* Every step keeps them. *)
LEMMA LocalTypesStep == WindowTypes /\ LocalTypes /\ [BrowserNext]_stateVars => LocalTypes'
<1> SUFFICES ASSUME WindowTypes, LocalTypes, [BrowserNext]_stateVars PROVE LocalTypes'
  OBVIOUS
<1>0. UNCHANGED <<local, before>> /\ alone' \in [Tasks -> BOOLEAN] => LocalTypes'
  BY DEF LocalTypes, local
<1>1. CASE Other
  BY <1>0, <1>1 DEF Other
<1>2. ASSUME NEW t \in Tasks, Navigate(t) \/ Context(t) PROVE LocalTypes'
  <2>1. CASE Navigate(t)
    BY <1>0, <2>1, DisturbTypes DEF Navigate
  <2>2. CASE Context(t)
    BY <1>0, <2>2, DisturbTypes DEF Context
  <2> QED BY <1>2, <2>1, <2>2
<1>3. ASSUME NEW t \in Tasks, Method(t) PROVE LocalTypes'
  <2>1. CASE TabBegin(t)
    BY <2>1 DEF LocalTypes, Places, WindowTypes, TabBegin, Step
  <2>2. CASE TabOpen(t)
    <3>1. alone' \in [Tasks -> BOOLEAN]
      BY <2>2, DisturbTypes DEF TabOpen
    <3> QED BY <2>2, <3>1 DEF LocalTypes, Places, TabOpen, Step
  <2>3. CASE TabEnter(t)
    <3>1. alone' \in [Tasks -> BOOLEAN]
      BY <2>3, DisturbTypes DEF TabEnter
    <3> QED BY <2>3, <3>1 DEF LocalTypes, Places, TabEnter, Step
  <2>4. CASE TabBody(t)
    BY <2>4 DEF LocalTypes, Places, TabBody, Step
  <2>5. CASE TabClose(t)
    <3>1. alone' \in [Tasks -> BOOLEAN]
      BY <2>5, DisturbTypes DEF TabClose
    <3> QED BY <2>5, <3>1 DEF LocalTypes, Places, TabClose, Step
  <2>6. CASE TabBack(t)
    <3>1. alone' \in [Tasks -> BOOLEAN]
      BY <2>6, DisturbTypes DEF TabBack
    <3> QED BY <2>6, <3>1, EndTypes DEF TabBack
  <2>7. CASE NamedBegin(t)
    BY <2>7 DEF LocalTypes, Places, WindowTypes, NamedBegin, Step
  <2>8. CASE NamedList(t)
    BY <2>8 DEF LocalTypes, Places, WindowTypes, NamedList, Step
  <2>9. CASE NamedVisit(t)
    <3>1. alone' \in [Tasks -> BOOLEAN]
      BY <2>9, DisturbTypes DEF NamedVisit
    <3> QED BY <2>9, <3>1 DEF LocalTypes, Places, NamedVisit, Step
  <2>10. CASE NamedAsk(t)
    <3>1. alone' \in [Tasks -> BOOLEAN]
      BY <2>10 DEF NamedAsk, LocalTypes
    <3>2. CASE End(t)
      BY <3>1, <3>2, EndTypes
    <3>3. CASE Step(t, "ask", "visit") /\ UNCHANGED <<saved, tab, want, left, before>>
      BY <3>1, <3>3 DEF LocalTypes, Places, Step
    <3> QED BY <2>10, <3>2, <3>3 DEF NamedAsk
  <2>11. CASE NamedBack(t)
    <3>1. alone' \in [Tasks -> BOOLEAN]
      BY <2>11, DisturbTypes DEF NamedBack
    <3> QED BY <2>11, <3>1, EndTypes DEF NamedBack
  <2>12. CASE Fail(t) \/ Abandon(t)
    <3>1. alone' \in [Tasks -> BOOLEAN]
      BY <2>12 DEF Fail, Abandon, LocalTypes
    <3> QED BY <2>12, <3>1, EndTypes DEF Fail, Abandon
  <2> QED BY <1>3, <2>1, <2>2, <2>3, <2>4, <2>5, <2>6, <2>7, <2>8, <2>9, <2>10, <2>11, <2>12 DEF Method
<1>4. ASSUME NEW t \in Tasks, Pick(t) PROVE LocalTypes'
  <2>0. ASSUME NEW from, NEW to \in Places, NEW p, Goes(t, from, to, p) PROVE LocalTypes'
    BY <2>0 DEF LocalTypes, Goes, Step
  <2>1. CASE PickBegin(t)
    BY <2>1 DEF LocalTypes, Places, PickBegin, Step
  <2>2. ASSUME NEW from, NEW hit, Advance(t, from, hit) PROVE LocalTypes'
    BY <2>0, <2>2, Zenon DEF Advance, Places
  <2>3. CASE PickFind(t) \/ PickCandidates(t)
    BY <2>0, <2>3 DEF PickFind, PickCandidates, Places
  <2>4. CASE PickShows(t) \/ PickLook(t) \/ PickClick(t)
    BY <2>0, <2>2, <2>4 DEF PickShows, PickLook, PickClick, Places
  <2>5. CASE PickEnd(t)
    <3>1. alone' \in [Tasks -> BOOLEAN]
      BY <2>5 DEF PickEnd, LocalTypes
    <3> QED BY <2>5, <3>1, EndTypes DEF PickEnd
  <2> QED BY <1>4, <2>1, <2>3, <2>4, <2>5 DEF Pick
<1>5. ASSUME NEW t \in Tasks, Chain(t) PROVE LocalTypes'
  <2>1. CASE ChainBegin(t)
    BY <2>1 DEF LocalTypes, Places, ChainBegin, Step
  <2>2. CASE ChainCall(t) \/ Reset(t)
    BY <2>2 DEF LocalTypes, ChainCall, Reset, local
  <2>3. CASE Perform(t)
    BY <2>3 DEF LocalTypes, Places, Perform
  <2>4. CASE ChainEnd(t)
    <3>1. alone' \in [Tasks -> BOOLEAN]
      BY <2>4 DEF ChainEnd, LocalTypes
    <3> QED BY <2>4, <3>1, EndTypes DEF ChainEnd
  <2> QED BY <1>5, <2>1, <2>2, <2>3, <2>4 DEF Chain
<1>6. ASSUME NEW t \in Tasks, Settle(t) PROVE LocalTypes'
  BY <1>6 DEF Settle, LocalTypes, local
<1>7. CASE UNCHANGED stateVars
  BY <1>7 DEF stateVars, LocalTypes, local
<1> QED BY <1>1, <1>2, <1>3, <1>4, <1>5, <1>6, <1>7 DEF BrowserNext

-----------------------------------------------------------------------------
(* What a method that has been alone so far has come to: the windows there
   are are those that there were and the tab, which it is in; and of those
   that it has looked at none has the name. *)
InMethod == {"open", "enter", "body", "close", "back", "list", "visit", "ask"}
Restoring(t) ==
  /\ pc[t] \in InMethod => saved[t] \in before[t]
  /\ pc[t] \in {"open", "list"} => windows = before[t]
  /\ pc[t] \in {"enter", "body", "close"} => windows = before[t] \cup {tab[t]} /\ tab[t] \notin before[t]
  /\ pc[t] \in {"body", "close"} => current = tab[t]
  /\ pc[t] = "back" => windows = before[t] /\ tab[t] \notin windows
  /\ pc[t] \in {"visit", "ask"} => /\ windows = before[t] /\ left[t] \subseteq windows
                                   /\ \A w \in windows \ left[t] : name[w] # want[t] \/ (pc[t] = "ask" /\ w = current)
  /\ pc[t] = "ask" => current \in windows /\ frame = "top"

WindowsInv == \A t \in Tasks : alone[t] => Restoring(t)

(* A task that nothing happens to. *)
LEMMA SameRestoring ==
  ASSUME NEW s \in Tasks, WindowsInv, UNCHANGED <<windows, current, frame, name>>,
         UNCHANGED <<pc[s], saved[s], tab[s], want[s], left[s], before[s]>>, alone'[s] => alone[s]
  PROVE  alone'[s] => Restoring(s)'
BY DEF WindowsInv, Restoring, InMethod

(* Nothing is promised where no method is at work on windows. *)
LEMMA NotInMethod == ASSUME NEW s \in Tasks, pc'[s] \notin InMethod PROVE Restoring(s)'
BY DEF Restoring, InMethod

(* A task that has its variables to itself. *)
LEMMA OfOthers ==
  ASSUME LocalTypes, WindowsInv, NEW t \in Tasks, UNCHANGED remote, alone'[t] => Restoring(t)',
         \A s \in Tasks \ {t} : /\ UNCHANGED <<pc[s], saved[s], tab[s], want[s], left[s], before[s]>>
                                /\ alone'[s] => alone[s]
  PROVE  WindowsInv'
<1> SUFFICES ASSUME NEW s \in Tasks, alone'[s] PROVE Restoring(s)'
  BY DEF WindowsInv
<1>1. CASE s = t
  BY <1>1
<1>2. CASE s # t
  <2>1. UNCHANGED <<windows, current, frame, name>>
    BY DEF remote
  <2> QED BY <1>2, <2>1, SameRestoring
<1> QED BY <1>1, <1>2

(* A command on windows by one task. *)
LEMMA OfOne ==
  ASSUME LocalTypes, NEW t \in Tasks, NEW b \in BOOLEAN, Disturb(t, b), ~b /\ alone[t] => Restoring(t)'
  PROVE  WindowsInv'
BY DEF WindowsInv, Disturb, LocalTypes

(* A task that is not at work on windows goes on. *)
ElsewhereOnly(t) ==
  /\ UNCHANGED remote /\ pc'[t] \notin InMethod
  /\ \A s \in Tasks \ {t} : /\ UNCHANGED <<pc[s], saved[s], tab[s], want[s], left[s], before[s]>>
                            /\ alone'[s] => alone[s]

(* The methods keep it. *)
LEMMA TabsRestoring ==
  ASSUME WindowTypes, LocalTypes, WindowsInv, NEW t \in Tasks,
         TabBegin(t) \/ TabOpen(t) \/ TabEnter(t) \/ TabBody(t) \/ TabClose(t) \/ TabBack(t)
  PROVE  WindowsInv'
<1>0. alone[t] => Restoring(t)
  BY DEF WindowsInv
<1>1. CASE TabBegin(t)
  <2>1. Restoring(t)'
    BY <1>1 DEF TabBegin, Restoring, InMethod, Step, HasWindow, LocalTypes, remote
  <2> QED BY <1>1, <2>1, OfOthers DEF TabBegin, Step, LocalTypes
<1>2. CASE TabOpen(t)
  <2>1. alone[t] => Restoring(t)'
    BY <1>0, <1>2 DEF TabOpen, Restoring, InMethod, Step, Opens, LocalTypes
  <2> QED BY <1>2, <2>1, OfOne DEF TabOpen
<1>3. CASE TabEnter(t)
  <2>1. alone[t] => Restoring(t)'
    BY <1>0, <1>3 DEF TabEnter, Restoring, InMethod, Step, SwitchTo, LocalTypes
  <2> QED BY <1>3, <2>1, OfOne DEF TabEnter
<1>4. CASE TabBody(t)
  <2>1. alone[t] => Restoring(t)'
    BY <1>0, <1>4 DEF TabBody, Restoring, InMethod, Step, LocalTypes, remote
  <2> QED BY <1>4, <2>1, OfOthers DEF TabBody, Step, LocalTypes
<1>5. CASE TabClose(t)
  <2>1. alone[t] => Restoring(t)'
    BY <1>0, <1>5 DEF TabClose, Restoring, InMethod, Step, Closes, LocalTypes
  <2> QED BY <1>5, <2>1, OfOne DEF TabClose
<1>6. CASE TabBack(t)
  BY <1>6, OfOne DEF TabBack
<1> QED BY <1>1, <1>2, <1>3, <1>4, <1>5, <1>6

(* The same of a task that looks for a window by its name. *)
LEMMA NamedRestoring ==
  ASSUME WindowTypes, LocalTypes, WindowsInv, NEW t \in Tasks,
         NamedBegin(t) \/ NamedList(t) \/ NamedVisit(t) \/ NamedAsk(t) \/ NamedBack(t) \/ Fail(t) \/ Abandon(t)
  PROVE  WindowsInv'
<1>0. alone[t] => Restoring(t)
  BY DEF WindowsInv
<1>1. CASE NamedBegin(t)
  <2>1. Restoring(t)'
    BY <1>1 DEF NamedBegin, Restoring, InMethod, Step, HasWindow, LocalTypes, remote
  <2> QED BY <1>1, <2>1, OfOthers DEF NamedBegin, Step, LocalTypes
<1>2. CASE NamedList(t)
  <2>1. alone[t] => Restoring(t)'
    BY <1>0, <1>2 DEF NamedList, Restoring, InMethod, Step, LocalTypes, remote
  <2> QED BY <1>2, <2>1, OfOthers DEF NamedList, Step, LocalTypes
<1>3. CASE NamedVisit(t)
  <2>1. alone[t] => Restoring(t)'
    BY <1>0, <1>3 DEF NamedVisit, Restoring, InMethod, Step, SwitchTo, LocalTypes
  <2> QED BY <1>3, <2>1, OfOne DEF NamedVisit
<1>4. CASE NamedAsk(t)
  <2>0. pc[t] = "ask" /\ UNCHANGED remote
    BY <1>4 DEF NamedAsk
  <2>1. CASE End(t)
    <3>1. pc'[t] = "idle"
      BY <2>1 DEF End, LocalTypes
    <3>2. alone'[t] = FALSE
      BY <1>4, <3>1 DEF NamedAsk, LocalTypes
    <3> QED BY <1>4, <2>0, <2>1, <3>2, OfOthers DEF NamedAsk, End, LocalTypes
  <2>2. CASE name[current] # want[t] /\ Step(t, "ask", "visit") /\ UNCHANGED <<saved, tab, want, left, before>>
    <3>1. alone[t] => Restoring(t)'
      BY <1>0, <2>2, <2>0 DEF Restoring, InMethod, Step, LocalTypes, remote
    <3>2. alone'[t] => alone[t]
      BY <1>4 DEF NamedAsk, LocalTypes
    <3> QED BY <1>4, <2>0, <2>2, <3>1, <3>2, OfOthers DEF NamedAsk, Step, LocalTypes
  <2> QED BY <1>4, <2>1, <2>2 DEF NamedAsk
<1>5. CASE NamedBack(t)
  BY <1>5, OfOne DEF NamedBack
<1>6. CASE Fail(t) \/ Abandon(t)
  <2>1. alone'[t] = FALSE /\ UNCHANGED remote
    BY <1>6 DEF Fail, Abandon, LocalTypes
  <2> QED BY <1>6, <2>1, OfOthers DEF Fail, Abandon, End, LocalTypes
<1> QED BY <1>1, <1>2, <1>3, <1>4, <1>5, <1>6

(* Every step keeps it. *)
LEMMA WindowsInvStep ==
  WindowTypes /\ LocalTypes /\ LocalTypes' /\ WindowsInv /\ [BrowserNext]_stateVars => WindowsInv'
<1> SUFFICES ASSUME WindowTypes, LocalTypes, LocalTypes', WindowsInv, [BrowserNext]_stateVars PROVE WindowsInv'
  OBVIOUS
<1>1. CASE Other
  BY <1>1 DEF Other, WindowsInv
<1>2. ASSUME NEW t \in Tasks, Navigate(t) \/ Context(t) PROVE WindowsInv'
  <2>1. CASE Navigate(t)
    <3> DEFINE b == <<windows, current>> # <<windows, current>>'
    <3>1. ~b /\ alone[t] => Restoring(t)'
      BY <2>1 DEF Navigate, WindowsInv, Restoring, InMethod, local
    <3>2. Disturb(t, b) /\ b \in BOOLEAN
      BY <2>1 DEF Navigate
    <3> HIDE DEF b
    <3> QED BY <3>1, <3>2, OfOne
  <2>2. CASE Context(t)
    BY <2>2, OfOne DEF Context
  <2> QED BY <1>2, <2>1, <2>2
<1>3. ASSUME NEW t \in Tasks, Method(t) PROVE WindowsInv'
  BY <1>3, TabsRestoring, NamedRestoring DEF Method
<1>4. ASSUME NEW t \in Tasks, Pick(t) PROVE WindowsInv'
  <2>0. ElsewhereOnly(t)
    <3> USE DEF ElsewhereOnly
    <3>0. ASSUME NEW from, NEW to \in Places \ InMethod, NEW p, Goes(t, from, to, p) PROVE ElsewhereOnly(t)
      BY <3>0 DEF LocalTypes, Goes, Step
    <3>1. CASE PickBegin(t)
      BY <3>1 DEF LocalTypes, InMethod, PickBegin, Step
    <3>2. ASSUME NEW from, NEW hit, Advance(t, from, hit) PROVE ElsewhereOnly(t)
      <4> HIDE DEF ElsewhereOnly
      <4> QED BY <3>0, <3>2, Zenon DEF Advance, Places, InMethod
    <3>3. CASE PickFind(t) \/ PickCandidates(t)
      BY <3>0, <3>3 DEF PickFind, PickCandidates, Places, InMethod
    <3>4. CASE PickShows(t) \/ PickLook(t) \/ PickClick(t)
      BY <3>0, <3>2, <3>4 DEF PickShows, PickLook, PickClick, Places, InMethod
    <3>5. CASE PickEnd(t)
      BY <3>5 DEF PickEnd, End, LocalTypes, InMethod
    <3>6. \/ PickBegin(t) \/ (PickFind(t) \/ PickCandidates(t))
          \/ (PickShows(t) \/ PickLook(t) \/ PickClick(t)) \/ PickEnd(t)
      BY <1>4, Zenon DEF Pick
    <3> HIDE DEF ElsewhereOnly
    <3> QED BY <3>1, <3>3, <3>4, <3>5, <3>6, Zenon
  <2> QED BY <2>0, NotInMethod, OfOthers DEF ElsewhereOnly
<1>5. ASSUME NEW t \in Tasks, Chain(t) PROVE WindowsInv'
  <2>0. ElsewhereOnly(t)
    BY <1>5 DEF ElsewhereOnly, Chain, ChainBegin, ChainCall, Perform, Reset, ChainEnd, Step, End, LocalTypes, InMethod, local
  <2> QED BY <2>0, NotInMethod, OfOthers DEF ElsewhereOnly
<1>6. ASSUME NEW t \in Tasks, Settle(t) PROVE WindowsInv'
  BY <1>6, SameRestoring DEF Settle, WindowsInv, remote, local
<1>7. CASE UNCHANGED stateVars
  BY <1>7, SameRestoring DEF stateVars, WindowsInv, remote, local
<1> QED BY <1>1, <1>2, <1>3, <1>4, <1>5, <1>6, <1>7 DEF BrowserNext

-----------------------------------------------------------------------------
(* Who is at work on windows is a task for that. *)
RolesFit == \A t \in Tasks : pc[t] \in InMethod => role[t] = "windows"

(* What a SelectElement and a chain do to the other variables. *)
LEMMA PickElsewhere == ASSUME LocalTypes, NEW t \in Tasks, Pick(t) PROVE ElsewhereOnly(t) /\ role' = role
<1>0. ASSUME NEW from, NEW to \in Places \ InMethod, NEW p, Goes(t, from, to, p) PROVE ElsewhereOnly(t) /\ role' = role
  BY <1>0 DEF LocalTypes, Goes, Step, ElsewhereOnly
<1>1. CASE PickBegin(t)
  BY <1>1 DEF LocalTypes, InMethod, PickBegin, Step, ElsewhereOnly
<1>2. ASSUME NEW from, NEW hit, Advance(t, from, hit) PROVE ElsewhereOnly(t) /\ role' = role
  BY <1>0, <1>2, Zenon DEF Advance, Places, InMethod
<1>3. CASE PickFind(t) \/ PickCandidates(t)
  BY <1>0, <1>3 DEF PickFind, PickCandidates, Places, InMethod
<1>4. CASE PickShows(t) \/ PickLook(t) \/ PickClick(t)
  BY <1>0, <1>2, <1>4 DEF PickShows, PickLook, PickClick, Places, InMethod
<1>5. CASE PickEnd(t)
  BY <1>5 DEF PickEnd, End, LocalTypes, InMethod, ElsewhereOnly
<1> QED BY <1>1, <1>3, <1>4, <1>5 DEF Pick

(* A chain leaves the windows and the roles of the tasks alone. *)
LEMMA ChainElsewhere == ASSUME LocalTypes, NEW t \in Tasks, Chain(t) PROVE ElsewhereOnly(t) /\ role' = role
<1>1. CASE ChainBegin(t)
  BY <1>1 DEF ElsewhereOnly, ChainBegin, Step, LocalTypes, InMethod
<1>2. CASE ChainCall(t) \/ Reset(t)
  BY <1>2 DEF ElsewhereOnly, ChainCall, Reset, LocalTypes, InMethod, local
<1>3. CASE Perform(t)
  BY <1>3 DEF ElsewhereOnly, Perform, LocalTypes, InMethod
<1>4. CASE ChainEnd(t)
  BY <1>4 DEF ElsewhereOnly, ChainEnd, End, LocalTypes, InMethod
<1> QED BY <1>1, <1>2, <1>3, <1>4 DEF Chain

(* Roles are for good. *)
LEMMA RoleStays == ASSUME LocalTypes, [BrowserNext]_stateVars PROVE role' = role
<1>1. ASSUME NEW t \in Tasks, Method(t) PROVE role' = role
  BY <1>1 DEF Method, TabBegin, TabOpen, TabEnter, TabBody, TabClose, TabBack, NamedBegin, NamedList, NamedVisit,
              NamedAsk, NamedBack, Fail, Abandon, rest
<1> QED BY <1>1, PickElsewhere, ChainElsewhere DEF BrowserNext, Other, Navigate, Context, Settle, stateVars, rest

(* Every step keeps each task at work on windows one that is there for that. *)
LEMMA RolesFitStep == ASSUME LocalTypes, RolesFit, [BrowserNext]_stateVars PROVE RolesFit'
<1>0. role' = role
  BY RoleStays
<1>1. ASSUME NEW t \in Tasks, role[t] = "windows" \/ pc'[t] \notin InMethod \/ pc[t] \in InMethod,
             \A s \in Tasks \ {t} : pc'[s] = pc[s]
      PROVE RolesFit'
  BY <1>0, <1>1 DEF RolesFit
<1>2. pc' = pc => RolesFit'
  BY <1>0 DEF RolesFit
<1>3. ASSUME NEW t \in Tasks, Method(t) PROVE RolesFit'
  BY <1>1, <1>3 DEF Method, TabBegin, TabOpen, TabEnter, TabBody, TabClose, TabBack, NamedBegin, NamedList, NamedVisit,
                    NamedAsk, NamedBack, Fail, Abandon, Step, End, InMethod, LocalTypes
<1>4. ASSUME NEW t \in Tasks, Pick(t) \/ Chain(t) PROVE RolesFit'
  <2>1. ElsewhereOnly(t)
    BY <1>4, PickElsewhere, ChainElsewhere
  <2> QED BY <2>1, <1>1 DEF ElsewhereOnly
<1>5. Other \/ (\E t \in Tasks : Navigate(t) \/ Context(t) \/ Settle(t)) \/ UNCHANGED stateVars => pc' = pc
  BY DEF Other, Navigate, Context, Settle, stateVars, local
<1> QED BY <1>2, <1>3, <1>4, <1>5 DEF BrowserNext

(* The bounds. *)
CountTypes == faults \in 0..MaxFaults /\ others \in 0..MaxOthers

(* Every step keeps the counts within their bounds. *)
LEMMA CountTypesStep == CountTypes /\ [BrowserNext]_stateVars => CountTypes'
<1> SUFFICES ASSUME CountTypes, [BrowserNext]_stateVars PROVE CountTypes'
  OBVIOUS
<1>0. MaxFaults \in Nat /\ MaxOthers \in Nat
  BY BrowserAssumption
<1>1. UNCHANGED <<faults, others>> => CountTypes'
  BY DEF CountTypes
<1>2. faults < MaxFaults /\ faults' = faults + 1 /\ UNCHANGED others => CountTypes'
  BY <1>0 DEF CountTypes
<1>3. ASSUME NEW t \in Tasks, Method(t) PROVE CountTypes'
  BY <1>1, <1>2, <1>3 DEF Method, TabBegin, TabOpen, TabEnter, TabBody, TabClose, TabBack, NamedBegin, NamedList,
                          NamedVisit, NamedAsk, NamedBack, Fail, Abandon, rest
<1>4. ASSUME NEW t \in Tasks, Pick(t) PROVE CountTypes'
  <2>1. ASSUME NEW from, NEW to, NEW p, Goes(t, from, to, p) PROVE CountTypes'
    BY <1>1, <2>1 DEF Goes
  <2>2. ASSUME NEW from, NEW hit, Advance(t, from, hit) PROVE CountTypes'
    BY <2>1, <2>2, Zenon DEF Advance
  <2>3. CASE PickFind(t) \/ PickCandidates(t) \/ PickShows(t) \/ PickLook(t) \/ PickClick(t)
    BY <2>1, <2>2, <2>3 DEF PickFind, PickCandidates, PickShows, PickLook, PickClick
  <2>4. CASE PickBegin(t)
    BY <1>1, <2>4 DEF PickBegin
  <2>5. CASE PickEnd(t)
    BY <1>1, <1>2, <2>5 DEF PickEnd
  <2> QED BY <1>4, <2>3, <2>4, <2>5 DEF Pick
<1>5. ASSUME NEW t \in Tasks, Chain(t) PROVE CountTypes'
  BY <1>1, <1>5 DEF Chain, ChainBegin, ChainCall, Perform, Reset, ChainEnd
<1>6. CASE Other
  BY <1>0, <1>6 DEF Other, CountTypes
<1> QED BY <1>1, <1>3, <1>4, <1>5, <1>6 DEF BrowserNext, Navigate, Context, Settle, stateVars, rest

(* The invariant of windows and frames, and of the methods at work on them. *)
WindowsIInv == WindowTypes /\ LocalTypes /\ CountTypes /\ RolesFit /\ WindowsInv

(* The invariant of the windows holds at first. *)
LEMMA WindowsInit == BrowserInit => WindowsIInv
<1> SUFFICES ASSUME BrowserInit PROVE WindowsIInv
  OBVIOUS
<1>1. WindowTypes
  BY BrowserAssumption DEF BrowserInit, WindowTypes
<1>2. LocalTypes
  BY DEF BrowserInit, LocalTypes, Places
<1>3. RolesFit /\ WindowsInv
  BY DEF BrowserInit, RolesFit, WindowsInv, InMethod
<1>4. CountTypes
  BY BrowserAssumption DEF BrowserInit, CountTypes
<1> QED BY <1>1, <1>2, <1>3, <1>4 DEF WindowsIInv

(* The inductive invariant of the tasks that work their way through windows
   (session/handle.rs: in_new_tab() and switch_to_named_window()) holds in every state. *)
THEOREM WindowsInductive == BrowserSpec => []WindowsIInv
<1>1. WindowsIInv /\ [BrowserNext]_stateVars => WindowsIInv'
  BY WindowTypesStep, LocalTypesStep, WindowsInvStep, RolesFitStep, CountTypesStep DEF WindowsIInv
<1> QED BY WindowsInit, <1>1, PTL DEF BrowserSpec

(* A method that ends by itself ends as it should. *)
LEMMA EndsRestored == ASSUME WindowsIInv, [BrowserNext]_stateVars, NEW s \in Tasks PROVE TabEnds(s) /\ NamedEnds(s)
<1> USE DEF WindowsIInv
<1> SUFFICES ASSUME pc[s] \in {"back", "visit", "ask"}, pc'[s] = "idle", faults' = faults, alone[s]
             PROVE  TabEnds(s) /\ NamedEnds(s)
  BY DEF TabEnds, NamedEnds
<1>0. Restoring(s) /\ role[s] = "windows"
  BY DEF WindowsInv, RolesFit, InMethod
<1>1. TabBack(s) \/ NamedAsk(s) \/ NamedBack(s) \/ Fail(s)
  <2>1. ASSUME NEW t \in Tasks, Method(t) PROVE TabBack(s) \/ NamedAsk(s) \/ NamedBack(s) \/ Fail(s)
    <3>1. CASE t = s
      <4>1. ~Abandon(s)
        BY DEF Abandon, CountTypes
      <4> QED BY <2>1, <3>1, <4>1 DEF Method, TabBegin, TabOpen, TabEnter, TabBody, TabClose, NamedBegin, NamedList,
                                      NamedVisit, Step, LocalTypes
    <3>2. CASE t # s
      BY <2>1, <3>2 DEF Method, TabBegin, TabOpen, TabEnter, TabBody, TabClose, TabBack, NamedBegin, NamedList,
                        NamedVisit, NamedAsk, NamedBack, Fail, Abandon, Step, End, LocalTypes
    <3> QED BY <3>1, <3>2
  <2>2. ASSUME NEW t \in Tasks, Pick(t) PROVE FALSE
    <3>1. t = s
      BY <2>2, PickElsewhere DEF ElsewhereOnly
    <3>2. ~PickEnd(s) /\ ~PickBegin(s)
      BY <1>0 DEF PickEnd, PickBegin
    <3>6. ~PickFind(s) /\ ~PickCandidates(s) /\ ~PickShows(s) /\ ~PickLook(s) /\ ~PickClick(s)
      BY DEF PickFind, PickCandidates, PickShows, PickLook, PickClick
    <3> QED BY <2>2, <3>1, <3>2, <3>6 DEF Pick
  <2>3. ASSUME NEW t \in Tasks, Chain(t) PROVE FALSE
    <3>1. t = s
      BY <2>3, ChainElsewhere DEF ElsewhereOnly
    <3> QED BY <2>3, <3>1, <1>0 DEF Chain, ChainBegin, ChainCall, Perform, Reset, ChainEnd
  <2> QED BY <2>1, <2>2, <2>3 DEF BrowserNext, Other, Navigate, Context, Settle, stateVars, local
<1>2. CASE TabBack(s)
  BY <1>0, <1>2 DEF TabBack, SwitchTo, Restoring, TabEnds, NamedEnds
<1>3. CASE NamedAsk(s)
  BY <1>0, <1>3 DEF NamedAsk, Live, HasWindow, remote, TabEnds, NamedEnds, Step, LocalTypes
<1>4. CASE NamedBack(s)
  BY <1>0, <1>4 DEF NamedBack, SwitchTo, Restoring, TabEnds, NamedEnds
<1>5. CASE Fail(s)
  BY <1>0, <1>5 DEF Fail, Impossible, Live, HasWindow, Restoring, InMethod
<1> QED BY <1>1, <1>2, <1>3, <1>4, <1>5

(* In_new_tab() (session/handle.rs:1183) ends in the window it was called in, with no
   window more or less, and switch_to_named_window() in a window of that name or, when there is
   none, where it was called, unless a command of its own failed or another task gave commands
   on windows and frames in the meantime. *)
THEOREM WindowsAreAlwaysRestored == BrowserSpec => WindowsAreRestored
<1>1. WindowsIInv /\ [BrowserNext]_stateVars => [\A t \in Tasks : TabEnds(t)]_stateVars /\ [\A t \in Tasks : NamedEnds(t)]_stateVars
  BY EndsRestored
<1> QED BY WindowsInductive, <1>1, PTL DEF BrowserSpec, WindowsAreRestored, TabIsRestored, NamedIsFound

-----------------------------------------------------------------------------
(* Settings *)

(* The user contexts, and what is set. *)
Calls == [value : Values \cup {Unset}, contexts : SUBSET Windows, users : SUBSET Users]
Scopes == Windows \cup Users \cup {Everyone}

SettingTypes ==
  /\ users \in [Users -> {"new", "exists", "removed"}] /\ partition \in [Windows -> Users \cup {Default}]
  /\ setting \in Settings /\ Len(calls) \in 0..MaxCalls /\ calls \in Seq(Calls)
  /\ settings \in [Scopes -> Values \cup {Unset}]

(* The value of the last of some of the calls. *)
LastValue(cs, I) == IF I = {} THEN Unset ELSE cs[Max(I)].value

ForContext(cs, w) == {i \in 1 .. Len(cs) : w \in cs[i].contexts}
ForUser(cs, u) == {i \in 1 .. Len(cs) : u \in cs[i].users}
ForAll(cs) == {i \in 1 .. Len(cs) : cs[i].contexts \cup cs[i].users = {}}

(* The reference in these words. *)
LEMMA LastForIs ==
  ASSUME NEW cs \in Seq(Calls)
  PROVE  /\ \A w : LastFor(cs, LAMBDA x : w \in x.contexts) = LastValue(cs, ForContext(cs, w))
         /\ \A u : LastFor(cs, LAMBDA x : u \in x.users) = LastValue(cs, ForUser(cs, u))
         /\ LastFor(cs, LAMBDA x : x.contexts \cup x.users = {}) = LastValue(cs, ForAll(cs))
<1>1. ASSUME NEW I \in SUBSET (1 .. Len(cs)) 
      PROVE  LastValue(cs, I) = LET i == IF I # {} THEN Max(I) ELSE 0 IN IF i = 0 THEN Unset ELSE cs[i].value
  <2>0. Len(cs) \in Nat
    OBVIOUS
  <2>1. CASE I # {}
    <3>1. Max(I) \in I
      BY <2>0, <2>1, MaxOK
    <3>2. Max(I) # 0
      BY <3>1
    <3> QED BY <2>1, <3>2 DEF LastValue
  <2>2. CASE I = {}
    BY <2>2 DEF LastValue
  <2> QED BY <2>1, <2>2
<1>2. ASSUME NEW w PROVE LastFor(cs, LAMBDA x : w \in x.contexts) = LastValue(cs, ForContext(cs, w))
  <2>1. ForContext(cs, w) \in SUBSET (1 .. Len(cs))
    BY DEF ForContext
  <2> QED BY <2>1, <1>1 DEF ForContext, LastFor, SelectLastInSeq
<1>3. ASSUME NEW u PROVE LastFor(cs, LAMBDA x : u \in x.users) = LastValue(cs, ForUser(cs, u))
  <2>1. ForUser(cs, u) \in SUBSET (1 .. Len(cs))
    BY DEF ForUser
  <2> QED BY <2>1, <1>1 DEF ForUser, LastFor, SelectLastInSeq
<1>4. LastFor(cs, LAMBDA x : x.contexts \cup x.users = {}) = LastValue(cs, ForAll(cs))
  <2>1. ForAll(cs) \in SUBSET (1 .. Len(cs))
    BY DEF ForAll
  <2> QED BY <2>1, <1>1 DEF ForAll, LastFor, SelectLastInSeq
<1> QED BY <1>2, <1>3, <1>4

(* After one more call it is that call's value, if it is one of them. *)
LEMMA LastAppended ==
  ASSUME NEW cs \in Seq(Calls), NEW c \in Calls, NEW I \in SUBSET (1 .. Len(cs))
  PROVE  /\ LastValue(Append(cs, c), I) = LastValue(cs, I)
         /\ LastValue(Append(cs, c), I \cup {Len(cs) + 1}) = c.value
<1> DEFINE n == Len(cs) + 1
           J == I \cup {n}
<1>0. Len(cs) \in Nat /\ n \in Nat
  OBVIOUS
<1>1. LastValue(Append(cs, c), I) = LastValue(cs, I)
  <2>1. I # {} => Max(I) \in 1 .. Len(cs)
    BY <1>0, MaxOK
  <2> QED BY <2>1 DEF LastValue
<1>2. LastValue(Append(cs, c), J) = c.value
  <2>0. 1 .. Len(cs) \subseteq 1 .. n /\ n \in 1 .. n
    BY <1>0
  <2>1. J \in SUBSET (1 .. n) /\ n \in J
    <3> HIDE DEF n
    <3> QED BY <2>0
  <2>2. Max(J) = n
    BY <1>0, <2>1, MaxIs
  <2>3. Append(cs, c)[n] = c
    OBVIOUS
  <2> QED BY <1>0, <2>1, <2>2, <2>3 DEF LastValue
<1> QED BY <1>1, <1>2

(* What each command is on the wire: its scope is what it was asked for, and
   its value what was asked for, or what is left out of a viewport. *)
LEMMA RequestIs ==
  ASSUME NEW s \in Settings, NEW v \in Values \cup {Unset}, NEW c, NEW u,
         Asks(s, v, c, u), Accepted(s, Request(s, v, c, u))
  PROVE  LET cmd == Request(s, v, c, u)
         IN  /\ cmd.contexts = c /\ cmd.users = u
             /\ \/ s = "viewport" /\ v = Unset /\ cmd.value = "absent"
                \/ cmd.value # "absent" /\ (IF cmd.value = "null" THEN Unset ELSE cmd.value) = Meant(s, v)
<1> DEFINE cmd == Request(s, v, c, u)
<1>0. v \in {"on", "off", Unset} /\ Unset \notin {"on", "off", "null", "absent"}
  BY UnsetAssumption DEF Values
<1>1. CASE s \in {"theme", "locale", "network", "screen", "orientation", "user_agent", "scrollbar", "timezone", "touch", "download"}
  <2>1. cmd = [value |-> Nullable(v), contexts |-> c, users |-> u]
    BY <1>1 DEF Asks, Request, Params, SetForcedColorsModeThemeOverride, SetLocaleOverride, SetNetworkConditions,
                SetScreenSettingsOverride, SetScreenOrientationOverride, SetUserAgentOverride,
                SetScrollbarTypeOverride, SetTimezoneOverride, SetTouchOverride, SetDownloadBehavior
  <2>2. Meant(s, v) = v
    BY <1>1 DEF Meant
  <2> HIDE DEF cmd
  <2>3. Nullable(v) # "absent" /\ (IF Nullable(v) = "null" THEN Unset ELSE Nullable(v)) = v
    BY <1>0 DEF Nullable
  <2>4. cmd.value # "absent" /\ (IF cmd.value = "null" THEN Unset ELSE cmd.value) = Meant(s, v)
    BY <2>1, <2>2, <2>3
  <2> QED BY <2>1, <2>4 DEF cmd
<1>2. CASE s = "scripting"
  <2>1. cmd = [value |-> IF v = "off" THEN "off" ELSE "null", contexts |-> c, users |-> u]
    BY <1>2 DEF Request, Params, SetScriptingEnabled
  <2> HIDE DEF cmd
  <2>2. Meant(s, v) = IF v = "on" THEN Unset ELSE v
    BY <1>2 DEF Meant
  <2>3. cmd.value # "absent" /\ (IF cmd.value = "null" THEN Unset ELSE cmd.value) = Meant(s, v)
    BY <1>0, <2>1, <2>2
  <2> QED BY <2>1, <2>3 DEF cmd
<1>3. CASE s = "csp"
  <2>1. cmd = [value |-> IF v = "on" THEN "on" ELSE "null", contexts |-> c, users |-> u]
    BY <1>3 DEF Request, Params, SetBypassCsp
  <2> HIDE DEF cmd
  <2>2. Meant(s, v) = IF v = "off" THEN Unset ELSE v
    BY <1>3 DEF Meant
  <2>3. cmd.value # "absent" /\ (IF cmd.value = "null" THEN Unset ELSE cmd.value) = Meant(s, v)
    BY <1>0, <2>1, <2>2
  <2> QED BY <2>1, <2>3 DEF cmd
<1>4. CASE s \in {"cache", "headers"}
  <2>1. cmd = [value |-> v, contexts |-> c, users |-> u]
    BY <1>4 DEF Request, Params, SetCacheBehavior, SetExtraHeaders
  <2> HIDE DEF cmd
  <2>2. Meant(s, v) = v /\ v # Unset
    BY <1>4 DEF Meant, Asks
  <2>3. cmd.value # "absent" /\ (IF cmd.value = "null" THEN Unset ELSE cmd.value) = Meant(s, v)
    BY <1>0, <2>1, <2>2
  <2> QED BY <2>1, <2>3 DEF cmd
<1>5. CASE s \in {"geolocation", "viewport"}
  <2>1. cmd = [value |-> Skippable(v), contexts |-> c, users |-> u]
    BY <1>5 DEF Asks, Request, Params, SetGeolocationOverride, SetViewport
  <2>2. cmd.value = "absent" => s = "viewport"
    BY DEF Accepted
  <2> HIDE DEF cmd
  <2>3. Meant(s, v) = v
    BY <1>5 DEF Meant
  <2>4. CASE v = Unset
    <3>1. cmd.value = "absent"
      BY <2>1, <2>4 DEF Skippable
    <3> QED BY <2>1, <2>2, <2>4, <3>1 DEF cmd
  <2>5. CASE v # Unset
    <3>1. cmd.value = v
      BY <2>1, <2>5 DEF Skippable
    <3> QED BY <1>0, <2>1, <2>3, <2>5, <3>1 DEF cmd
  <2> QED BY <2>4, <2>5
<1> QED BY <1>1, <1>2, <1>3, <1>4, <1>5 DEF Settings

(* What is set in each scope is the value of the last call for it. *)
Agree ==
  /\ \A w \in Windows : settings[w] = LastValue(calls, ForContext(calls, w))
  /\ \A u \in Users : settings[u] = LastValue(calls, ForUser(calls, u))
  /\ settings[Everyone] = LastValue(calls, ForAll(calls))

SettingInv == (setting = "viewport" /\ \E i \in DOMAIN calls : calls[i].value = Unset) \/ Agree

(* Which calls are for a scope, after one more. *)
LEMMA CoversAppended ==
  ASSUME NEW cs \in Seq(Calls), NEW c \in Calls
  PROVE  /\ \A w : /\ ForContext(cs, w) \in SUBSET (1 .. Len(cs))
                   /\ w \in c.contexts => ForContext(Append(cs, c), w) = ForContext(cs, w) \cup {Len(cs) + 1}
                   /\ w \notin c.contexts => ForContext(Append(cs, c), w) = ForContext(cs, w)
         /\ \A u : /\ ForUser(cs, u) \in SUBSET (1 .. Len(cs))
                   /\ u \in c.users => ForUser(Append(cs, c), u) = ForUser(cs, u) \cup {Len(cs) + 1}
                   /\ u \notin c.users => ForUser(Append(cs, c), u) = ForUser(cs, u)
         /\ ForAll(cs) \in SUBSET (1 .. Len(cs))
         /\ c.contexts \cup c.users = {} => ForAll(Append(cs, c)) = ForAll(cs) \cup {Len(cs) + 1}
         /\ c.contexts \cup c.users # {} => ForAll(Append(cs, c)) = ForAll(cs)
<1> DEFINE n == Len(cs) + 1
           new == Append(cs, c)
<1>1. Len(cs) \in Nat /\ Len(new) = n /\ n \in 1 .. n /\ 1 .. n = (1 .. Len(cs)) \cup {n} /\ n \notin 1 .. Len(cs)
  OBVIOUS
<1>2. new[n] = c /\ \A i \in 1 .. Len(cs) : new[i] = cs[i]
  OBVIOUS
<1> HIDE DEF n, new
<1>3. ASSUME NEW w
      PROVE  /\ ForContext(cs, w) \in SUBSET (1 .. Len(cs))
             /\ w \in c.contexts => ForContext(new, w) = ForContext(cs, w) \cup {n}
             /\ w \notin c.contexts => ForContext(new, w) = ForContext(cs, w)
  BY <1>1, <1>2 DEF ForContext
<1>4. ASSUME NEW u
      PROVE  /\ ForUser(cs, u) \in SUBSET (1 .. Len(cs))
             /\ u \in c.users => ForUser(new, u) = ForUser(cs, u) \cup {n}
             /\ u \notin c.users => ForUser(new, u) = ForUser(cs, u)
  BY <1>1, <1>2 DEF ForUser
<1>5. /\ ForAll(cs) \in SUBSET (1 .. Len(cs))
      /\ c.contexts \cup c.users = {} => ForAll(new) = ForAll(cs) \cup {n}
      /\ c.contexts \cup c.users # {} => ForAll(new) = ForAll(cs)
  BY <1>1, <1>2 DEF ForAll
<1> QED BY <1>3, <1>4, <1>5 DEF n, new

(* So the last value for each scope after one more call. *)
LEMMA LastFollows ==
  ASSUME NEW cs \in Seq(Calls), NEW c \in Calls
  PROVE  /\ \A w : LastValue(Append(cs, c), ForContext(Append(cs, c), w))
                     = IF w \in c.contexts THEN c.value ELSE LastValue(cs, ForContext(cs, w))
         /\ \A u : LastValue(Append(cs, c), ForUser(Append(cs, c), u))
                     = IF u \in c.users THEN c.value ELSE LastValue(cs, ForUser(cs, u))
         /\ LastValue(Append(cs, c), ForAll(Append(cs, c)))
              = IF c.contexts \cup c.users = {} THEN c.value ELSE LastValue(cs, ForAll(cs))
<1>2. ASSUME NEW w PROVE LastValue(Append(cs, c), ForContext(Append(cs, c), w)) = IF w \in c.contexts THEN c.value ELSE LastValue(cs, ForContext(cs, w))
  <2>1. ForContext(cs, w) \in SUBSET (1 .. Len(cs))
    BY CoversAppended
  <2>2. /\ LastValue(Append(cs, c), ForContext(cs, w)) = LastValue(cs, ForContext(cs, w))
        /\ LastValue(Append(cs, c), ForContext(cs, w) \cup {Len(cs) + 1}) = c.value
    BY <2>1, LastAppended
  <2> QED BY <2>2, CoversAppended
<1>3. ASSUME NEW u PROVE LastValue(Append(cs, c), ForUser(Append(cs, c), u)) = IF u \in c.users THEN c.value ELSE LastValue(cs, ForUser(cs, u))
  <2>1. ForUser(cs, u) \in SUBSET (1 .. Len(cs))
    BY CoversAppended
  <2>2. /\ LastValue(Append(cs, c), ForUser(cs, u)) = LastValue(cs, ForUser(cs, u))
        /\ LastValue(Append(cs, c), ForUser(cs, u) \cup {Len(cs) + 1}) = c.value
    BY <2>1, LastAppended
  <2> QED BY <2>2, CoversAppended
<1>4. LastValue(Append(cs, c), ForAll(Append(cs, c))) = IF c.contexts \cup c.users = {} THEN c.value ELSE LastValue(cs, ForAll(cs))
  <2>1. ForAll(cs) \in SUBSET (1 .. Len(cs))
    BY CoversAppended
  <2>2. /\ LastValue(Append(cs, c), ForAll(cs)) = LastValue(cs, ForAll(cs))
        /\ LastValue(Append(cs, c), ForAll(cs) \cup {Len(cs) + 1}) = c.value
    BY <2>1, LastAppended
  <2> QED BY <2>2, CoversAppended
<1> QED BY <1>2, <1>3, <1>4

(* A command that is accepted sets what was asked for, where it was. *)
LEMMA SettleAgrees ==
  ASSUME WindowTypes, SettingTypes, SettingInv, NEW t \in Tasks, Settle(t)
  PROVE  SettingTypes' /\ SettingInv'
<1>1. PICK v \in Values \cup {Unset}, c \in {{}} \cup {{w} : w \in windows}, u \in {{}} \cup {{x} : x \in Existing} :
        LET cmd == IF c \cup u = {} THEN Everywhere(setting, v) ELSE Request(setting, v, c, u)
        IN  /\ Asks(setting, v, c, u) /\ Accepted(setting, cmd)
            /\ settings' = Stored(settings, cmd)
            /\ calls' = Append(calls, [value |-> Meant(setting, v), contexts |-> c, users |-> u])
  BY DEF Settle
<1> DEFINE cmd == Request(setting, v, c, u)
           call == [value |-> Meant(setting, v), contexts |-> c, users |-> u]
<1>2. c \in SUBSET Windows /\ u \in SUBSET Users
  BY DEF WindowTypes, Existing
<1>3. /\ Asks(setting, v, c, u) /\ Accepted(setting, cmd)
      /\ settings' = Stored(settings, cmd) /\ calls' = Append(calls, call)
  <2>1. c \cup u = {} => c = {} /\ u = {} /\ Everywhere(setting, v) = cmd
    BY DEF Everywhere
  <2> QED BY <1>1, <2>1
<1>4. /\ cmd.contexts = c /\ cmd.users = u
      /\ \/ setting = "viewport" /\ v = Unset /\ cmd.value = "absent"
         \/ cmd.value # "absent" /\ (IF cmd.value = "null" THEN Unset ELSE cmd.value) = Meant(setting, v)
  BY <1>3, RequestIs DEF SettingTypes
<1>5. Meant(setting, v) \in Values \cup {Unset} /\ call \in Calls
  BY <1>2 DEF Meant, Calls
<1>6. Scope(cmd) = IF c \cup u = {} THEN {Everyone} ELSE c \cup u
  BY <1>4 DEF Scope
<1>7. c = {} \/ u = {}
  BY <1>3, <1>4 DEF Accepted
<1> HIDE DEF cmd
<1>8. settings' = [s \in Scopes |-> IF s \notin Scope(cmd) \/ cmd.value = "absent" THEN settings[s]
                                    ELSE IF cmd.value = "null" THEN Unset ELSE cmd.value]
  BY <1>3 DEF Stored, SettingTypes
<1>9. UNCHANGED <<users, partition, setting>> /\ Len(calls) < MaxCalls
  BY DEF Settle
<1>10. SettingTypes'
  <2>1. settings' \in [Scopes -> Values \cup {Unset}]
    <3>1. ASSUME NEW s \in Scopes
          PROVE  (IF s \notin Scope(cmd) \/ cmd.value = "absent" THEN settings[s]
                    ELSE IF cmd.value = "null" THEN Unset ELSE cmd.value) \in Values \cup {Unset}
      BY <1>4, <1>5 DEF SettingTypes
    <3> QED BY <1>8, <3>1
  <2>2. calls' \in Seq(Calls) /\ Len(calls') = Len(calls) + 1
    BY <1>3, <1>5 DEF SettingTypes
  <2>3. Len(calls') \in 0 .. MaxCalls
    BY <1>9, <2>2, BrowserAssumption DEF SettingTypes
  <2> QED BY <1>9, <2>1, <2>2, <2>3 DEF SettingTypes
<1>11. calls \in Seq(Calls)
  BY DEF SettingTypes
<1>12. CASE setting = "viewport" /\ \E i \in DOMAIN calls : calls[i].value = Unset
  <2>1. PICK i \in DOMAIN calls : calls[i].value = Unset
    BY <1>12
  <2>2. i \in DOMAIN calls' /\ calls'[i] = calls[i]
    BY <1>3, <1>11
  <2> QED BY <1>9, <1>10, <1>12, <2>1, <2>2 DEF SettingInv
<1>13. CASE setting = "viewport" /\ v = Unset
  <2>1. call.value = Unset
    BY <1>13 DEF Meant
  <2>2. Len(calls) + 1 \in DOMAIN calls' /\ calls'[Len(calls) + 1] = call
    BY <1>3, <1>11
  <2> QED BY <1>9, <1>10, <1>13, <2>1, <2>2 DEF SettingInv
<1>14. CASE Agree /\ cmd.value # "absent" /\ (IF cmd.value = "null" THEN Unset ELSE cmd.value) = Meant(setting, v)
  <2>1. settings' = [s \in Scopes |-> IF s \in Scope(cmd) THEN Meant(setting, v) ELSE settings[s]]
    BY <1>8, <1>14
  <2>2. Windows \cap Users = {} /\ Everyone \notin Windows \cup Users
    BY ScopesAssumption
  <2>3. call.contexts = c /\ call.users = u /\ call.value = Meant(setting, v)
    OBVIOUS
  <2> HIDE DEF call
  <2>4. /\ \A w : LastValue(calls', ForContext(calls', w)) = IF w \in c THEN Meant(setting, v) ELSE LastValue(calls, ForContext(calls, w))
        /\ \A x : LastValue(calls', ForUser(calls', x)) = IF x \in u THEN Meant(setting, v) ELSE LastValue(calls, ForUser(calls, x))
        /\ LastValue(calls', ForAll(calls')) = IF c \cup u = {} THEN Meant(setting, v) ELSE LastValue(calls, ForAll(calls))
    BY <1>3, <1>5, <1>11, <2>3, LastFollows
  <2>5. ASSUME NEW w \in Windows PROVE settings'[w] = LastValue(calls', ForContext(calls', w))
    <3>1. w \in Scopes /\ (w \in Scope(cmd) <=> w \in c)
      BY <1>2, <1>6, <2>2 DEF Scopes
    <3> QED BY <1>14, <2>1, <2>4, <3>1 DEF Agree
  <2>6. ASSUME NEW x \in Users PROVE settings'[x] = LastValue(calls', ForUser(calls', x))
    <3>1. x \in Scopes /\ (x \in Scope(cmd) <=> x \in u)
      BY <1>2, <1>6, <2>2 DEF Scopes
    <3> QED BY <1>14, <2>1, <2>4, <3>1 DEF Agree
  <2>7. settings'[Everyone] = LastValue(calls', ForAll(calls'))
    <3>1. Everyone \in Scopes /\ (Everyone \in Scope(cmd) <=> c \cup u = {})
      BY <1>2, <1>6, <2>2 DEF Scopes
    <3> QED BY <1>14, <2>1, <2>4, <3>1 DEF Agree
  <2>8. Agree'
    BY <2>5, <2>6, <2>7 DEF Agree
  <2> QED BY <1>10, <2>8 DEF SettingInv
<1> QED BY <1>4, <1>12, <1>13, <1>14 DEF SettingInv

(* Every step keeps what is set as it was asked for. *)
LEMMA SettingStep ==
  WindowTypes /\ SettingTypes /\ SettingInv /\ [BrowserNext]_stateVars => SettingTypes' /\ SettingInv'
<1> SUFFICES ASSUME WindowTypes, SettingTypes, SettingInv, [BrowserNext]_stateVars PROVE SettingTypes' /\ SettingInv'
  OBVIOUS
<1>0. UNCHANGED <<setting, settings, calls>> => SettingInv'
  BY DEF SettingInv, Agree
<1>1. UNCHANGED bidi => SettingTypes' /\ SettingInv'
  BY <1>0 DEF SettingTypes, bidi
<1>2. UNCHANGED <<users, partition, setting, settings, calls>> => SettingTypes' /\ SettingInv'
  BY <1>1 DEF bidi
<1>3. (ContextCommand \/ \E w \in Windows : ContextLoads(w)) /\ UNCHANGED <<setting, settings, calls>> => SettingTypes' /\ SettingInv'
  <2> SUFFICES ASSUME ContextCommand \/ \E w \in Windows : ContextLoads(w), UNCHANGED <<setting, settings, calls>>
               PROVE  SettingTypes'
    BY <1>0
  <2>1. users' \in [Users -> {"new", "exists", "removed"}] /\ partition' \in [Windows -> Users \cup {Default}]
    BY DEF ContextCommand, ContextLoads, ContextCreate, ContextsClose, UserContext, Existing, SettingTypes
  <2> QED BY <2>1 DEF SettingTypes
<1>4. CASE Other
  BY <1>1, <1>2, <1>3, <1>4 DEF Other
<1>5. ASSUME NEW t \in Tasks, Context(t) PROVE SettingTypes' /\ SettingInv'
  BY <1>3, <1>5 DEF Context
<1>6. ASSUME NEW t \in Tasks, Settle(t) PROVE SettingTypes' /\ SettingInv'
  BY <1>6, SettleAgrees
<1>7. ASSUME NEW t \in Tasks, Navigate(t) PROVE SettingTypes' /\ SettingInv'
  BY <1>1, <1>7 DEF Navigate, rest
<1>8. ASSUME NEW t \in Tasks, Method(t) PROVE SettingTypes' /\ SettingInv'
  BY <1>1, <1>8 DEF Method, TabBegin, TabOpen, TabEnter, TabBody, TabClose, TabBack, NamedBegin, NamedList,
                    NamedVisit, NamedAsk, NamedBack, Fail, Abandon, rest
<1>9. ASSUME NEW t \in Tasks, Pick(t) PROVE SettingTypes' /\ SettingInv'
  <2>1. bidi' = bidi
    <3>1. ASSUME NEW from, NEW to, NEW p, Goes(t, from, to, p) PROVE bidi' = bidi
      BY <3>1 DEF Goes
    <3>2. ASSUME NEW from, NEW hit, Advance(t, from, hit) PROVE bidi' = bidi
      BY <3>1, <3>2, Zenon DEF Advance
    <3>3. CASE PickFind(t) \/ PickCandidates(t) \/ PickShows(t) \/ PickLook(t) \/ PickClick(t)
      BY <3>1, <3>2, <3>3 DEF PickFind, PickCandidates, PickShows, PickLook, PickClick
    <3>4. CASE PickBegin(t) \/ PickEnd(t)
      BY <3>4 DEF PickBegin, PickEnd
    <3> QED BY <1>9, <3>3, <3>4 DEF Pick
  <2> QED BY <1>1, <2>1
<1>10. ASSUME NEW t \in Tasks, Chain(t) PROVE SettingTypes' /\ SettingInv'
  BY <1>1, <1>10 DEF Chain, ChainBegin, ChainCall, Perform, Reset, ChainEnd
<1>11. CASE UNCHANGED stateVars
  BY <1>1, <1>11 DEF stateVars, rest
<1> QED BY <1>4, <1>5, <1>6, <1>7, <1>8, <1>9, <1>10, <1>11 DEF BrowserNext

(* The invariant of the settings holds at first. *)
LEMMA SettingBegins == BrowserInit => SettingTypes /\ SettingInv
<1> SUFFICES ASSUME BrowserInit PROVE SettingTypes /\ SettingInv
  OBVIOUS
<1>1. calls = <<>> /\ settings = [s \in Scopes |-> Unset]
  BY DEF BrowserInit, Scopes
<1>2. setting \in Settings
  BY DEF BrowserInit, Settings
<1>3. Len(calls) = 0 /\ calls \in Seq(Calls) /\ 1 .. Len(calls) = {}
  BY <1>1
<1>4. SettingTypes
  BY <1>1, <1>2, <1>3, BrowserAssumption DEF BrowserInit, SettingTypes
<1>5. \A x : ForContext(calls, x) = {} /\ ForUser(calls, x) = {} /\ ForAll(calls) = {}
  BY <1>3 DEF ForContext, ForUser, ForAll
<1>6. Agree
  BY <1>1, <1>5 DEF Agree, LastValue, Scopes
<1> QED BY <1>4, <1>6 DEF SettingInv

(* What a context has is what was asked for it, of the three scopes it is in. *)
LEMMA SettingFits == WindowTypes /\ SettingTypes /\ SettingInv => SettingIsAsAsked
<1> SUFFICES ASSUME WindowTypes, SettingTypes, Agree PROVE SettingIsAsAsked
  BY DEF SettingInv, SettingIsAsAsked
<1>1. ASSUME NEW w \in windows
      PROVE  FirstSet(<<settings[w], IF partition[w] = Default THEN Unset ELSE settings[partition[w]], settings[Everyone]>>)
               = Wanted(calls, w, partition[w])
  <2>1. w \in Windows /\ partition[w] \in Users \cup {Default} /\ calls \in Seq(Calls)
    BY DEF WindowTypes, SettingTypes
  <2>2. Wanted(calls, w, partition[w]) =
          FirstSet(<<LastValue(calls, ForContext(calls, w)), LastValue(calls, ForUser(calls, partition[w])), LastValue(calls, ForAll(calls))>>)
    <3>1. /\ LastFor(calls, LAMBDA x : w \in x.contexts) = LastValue(calls, ForContext(calls, w))
          /\ LastFor(calls, LAMBDA x : partition[w] \in x.users) = LastValue(calls, ForUser(calls, partition[w]))
          /\ LastFor(calls, LAMBDA x : x.contexts \cup x.users = {}) = LastValue(calls, ForAll(calls))
      BY <2>1, LastForIs
    <3> QED BY <3>1 DEF Wanted
  <2>3. (IF partition[w] = Default THEN Unset ELSE settings[partition[w]]) = LastValue(calls, ForUser(calls, partition[w]))
    <3>1. CASE partition[w] = Default
      <4>1. ForUser(calls, Default) = {}
        <5>1. ASSUME NEW i \in 1 .. Len(calls) PROVE Default \notin calls[i].users
          <6>1. calls[i] \in Calls
            BY <2>1
          <6> QED BY <6>1, BrowserAssumption DEF Calls
        <5> QED BY <5>1 DEF ForUser
      <4> QED BY <3>1, <4>1 DEF LastValue
    <3>2. CASE partition[w] # Default
      BY <2>1, <3>2 DEF Agree
    <3> QED BY <3>1, <3>2
  <2>4. settings[w] = LastValue(calls, ForContext(calls, w)) /\ settings[Everyone] = LastValue(calls, ForAll(calls))
    BY <2>1 DEF Agree
  <2> QED BY <2>2, <2>3, <2>4
<1> QED BY <1>1 DEF SettingIsAsAsked

(* The inductive invariant of the BiDi settings (bidi/modules/emulation.rs, network.rs,
   browsing_context.rs, browser.rs) holds in every state: for each context, user context and for
   all of them the remote end holds what the last call for it asked for. *)
THEOREM SettingsInductive == BrowserSpec => [](WindowsIInv /\ SettingTypes /\ SettingInv)
<1>1. WindowsIInv /\ SettingTypes /\ SettingInv /\ [BrowserNext]_stateVars => (SettingTypes /\ SettingInv)'
  BY SettingStep DEF WindowsIInv
<1> QED BY WindowsInductive, SettingBegins, <1>1, PTL DEF BrowserSpec

(* Each browsing context has the settings that were asked for: what was set for it
   counts, then what was set for its user context, then what was set for all, each until it is
   cleared, as the structs of the BiDi commands go on the wire. *)
THEOREM SettingsAreAsAsked == BrowserSpec => []SettingIsAsAsked
<1>1. WindowsIInv /\ SettingTypes /\ SettingInv => SettingIsAsAsked
  BY SettingFits DEF WindowsIInv
<1> QED BY SettingsInductive, <1>1, PTL

-----------------------------------------------------------------------------
(* Action chains: one sequence after the other *)

(* f[i] is the first i of the sequences in ss, one after the other. *)
Flattens(f, ss, n, V) == f \in [1 .. n -> Seq(V)] /\ \A i \in 1 .. n : f[i] = IF i = 1 THEN ss[i] ELSE f[i - 1] \o ss[i]

(* There is such a function. *)
LEMMA FlattensExist ==
  ASSUME NEW V, NEW ss \in Seq(Seq(V)) PROVE \A n \in Nat : n <= Len(ss) => \E f : Flattens(f, ss, n, V)
<1> DEFINE S == {n \in Nat : n <= Len(ss) => \E f : Flattens(f, ss, n, V)}
<1>1. 0 \in S
  <2>1. Flattens(<<>>, ss, 0, V)
    BY DEF Flattens
  <2> QED BY <2>1
<1>2. ASSUME NEW n \in Nat, n \in S PROVE n + 1 \in S
  <2> SUFFICES ASSUME n + 1 <= Len(ss) PROVE \E f : Flattens(f, ss, n + 1, V)
    OBVIOUS
  <2>1. PICK f : Flattens(f, ss, n, V)
    BY <1>2
  <2> DEFINE g == [i \in 1 .. n + 1 |-> IF i = n + 1 THEN (IF n = 0 THEN ss[1] ELSE f[n] \o ss[n + 1]) ELSE f[i]]
  <2>2. n + 1 \in 1 .. Len(ss) /\ ss[n + 1] \in Seq(V)
    OBVIOUS
  <2>3. (IF n = 0 THEN ss[1] ELSE f[n] \o ss[n + 1]) \in Seq(V)
    <3>1. CASE n = 0
      BY <2>2, <3>1
    <3>2. CASE n # 0
      <4>1. f[n] \in Seq(V)
        BY <2>1, <3>2 DEF Flattens
      <4> QED BY <2>2, <3>2, <4>1
    <3> QED BY <3>1, <3>2
  <2>4. g \in [1 .. n + 1 -> Seq(V)]
    BY <2>1, <2>3 DEF Flattens
  <2>5. ASSUME NEW i \in 1 .. n + 1 PROVE g[i] = IF i = 1 THEN ss[i] ELSE g[i - 1] \o ss[i]
    <3>1. CASE i = n + 1
      <4>1. CASE n = 0
        BY <3>1, <4>1
      <4>2. CASE n # 0
        <5>1. n \in 1 .. n + 1 /\ n # n + 1 /\ i # 1 /\ i - 1 = n
          BY <3>1, <4>2
        <5>2. g[n] = f[n]
          BY <5>1
        <5> QED BY <3>1, <4>2, <5>1, <5>2
      <4> QED BY <4>1, <4>2
    <3>2. CASE i # n + 1
      <4>1. i \in 1 .. n /\ (i # 1 => i - 1 \in 1 .. n)
        BY <3>2
      <4>2. f[i] = IF i = 1 THEN ss[i] ELSE f[i - 1] \o ss[i]
        BY <2>1, <4>1 DEF Flattens
      <4> QED BY <4>1, <4>2
    <3> QED BY <3>1, <3>2
  <2> HIDE DEF g
  <2> QED BY <2>4, <2>5 DEF Flattens
<1>3. Nat \subseteq S
  <2> HIDE DEF S
  <2> QED BY <1>1, <1>2, AllNumbers
<1> QED BY <1>3

(* And but one. *)
LEMMA FlattensAgree ==
  ASSUME NEW V, NEW ss, NEW n \in Nat, NEW f, NEW g, Flattens(f, ss, n, V), Flattens(g, ss, n, V)
  PROVE  \A i \in 1 .. n : f[i] = g[i]
<1> DEFINE S == {i \in Nat : i \in 1 .. n => f[i] = g[i]}
<1>1. 0 \in S
  OBVIOUS
<1>2. ASSUME NEW i \in Nat, i \in S PROVE i + 1 \in S
  <2> SUFFICES ASSUME i + 1 \in 1 .. n PROVE f[i + 1] = g[i + 1]
    OBVIOUS
  <2>1. f[i + 1] = (IF i + 1 = 1 THEN ss[i + 1] ELSE f[(i + 1) - 1] \o ss[i + 1])
    BY DEF Flattens
  <2>2. g[i + 1] = (IF i + 1 = 1 THEN ss[i + 1] ELSE g[(i + 1) - 1] \o ss[i + 1])
    BY DEF Flattens
  <2>3. (i + 1) - 1 = i /\ (i + 1 # 1 => i \in 1 .. n)
    OBVIOUS
  <2> QED BY <1>2, <2>1, <2>2, <2>3
<1>3. Nat \subseteq S
  <2> HIDE DEF S
  <2> QED BY <1>1, <1>2, AllNumbers
<1> QED BY <1>3

(* FlattenSeq is the last of them. *)
LEMMA FlattenIs ==
  ASSUME NEW V, NEW ss \in Seq(Seq(V)), NEW f, Flattens(f, ss, Len(ss), V)
  PROVE  FlattenSeq(ss) = IF Len(ss) = 0 THEN <<>> ELSE f[Len(ss)]
<1> DEFINE n == Len(ss)
           Is(g) == g = [i \in 1 .. n |-> IF i = 1 THEN ss[i] ELSE g[i - 1] \o ss[i]]
<1>0. n \in Nat
  OBVIOUS
<1>1. CASE n = 0
  BY <1>1 DEF FlattenSeq
<1>2. CASE n # 0
  <2>1. FlattenSeq(ss) = (CHOOSE g : Is(g))[n]
    BY <1>2, Zenon DEF FlattenSeq
  <2>2. Is(f)
    BY DEF Flattens
  <2> DEFINE g == CHOOSE g : Is(g)
  <2>3. Is(g)
    BY <2>2, Zenon
  <2> HIDE DEF g
  <2>4. \A i \in 1 .. n : g[i] = IF i = 1 THEN ss[i] ELSE g[i - 1] \o ss[i]
    BY <2>3
  <2> DEFINE S == {i \in Nat : i \in 1 .. n => g[i] = f[i]}
  <2>5. 0 \in S
    OBVIOUS
  <2>6. ASSUME NEW i \in Nat, i \in S PROVE i + 1 \in S
    <3> SUFFICES ASSUME i + 1 \in 1 .. n PROVE g[i + 1] = f[i + 1]
      OBVIOUS
    <3>1. f[i + 1] = (IF i + 1 = 1 THEN ss[i + 1] ELSE f[(i + 1) - 1] \o ss[i + 1])
      BY DEF Flattens
    <3>2. g[i + 1] = (IF i + 1 = 1 THEN ss[i + 1] ELSE g[(i + 1) - 1] \o ss[i + 1])
      BY <2>4
    <3>3. (i + 1) - 1 = i /\ (i + 1 # 1 => i \in 1 .. n)
      OBVIOUS
    <3> QED BY <2>6, <3>1, <3>2, <3>3
  <2>7. Nat \subseteq S
    <3> HIDE DEF S
    <3> QED BY <2>5, <2>6, AllNumbers
  <2>8. n \in 1 .. n /\ n \in Nat
    BY <1>0, <1>2
  <2>9. g[n] = f[n]
    BY <2>7, <2>8
  <2> QED BY <1>2, <2>1, <2>9 DEF g
<1> QED BY <1>1, <1>2

(* With one more sequence, it comes last. *)
LEMMA FlattenAppend ==
  ASSUME NEW V, NEW ss \in Seq(Seq(V)), NEW s \in Seq(V)
  PROVE  FlattenSeq(Append(ss, s)) = FlattenSeq(ss) \o s /\ FlattenSeq(ss) \in Seq(V)
<1> DEFINE n == Len(ss)
           ts == Append(ss, s)
<1>0. n \in Nat /\ ts \in Seq(Seq(V)) /\ Len(ts) = n + 1 /\ ts[n + 1] = s /\ \A i \in 1 .. n : ts[i] = ss[i]
  OBVIOUS
<1> HIDE DEF ts
<1>1. PICK g : Flattens(g, ts, n + 1, V)
  BY <1>0, FlattensExist
<1> DEFINE f == [i \in 1 .. n |-> g[i]]
<1>2. Flattens(f, ss, n, V)
  <2>1. f \in [1 .. n -> Seq(V)]
    BY <1>0, <1>1 DEF Flattens
  <2>2. ASSUME NEW i \in 1 .. n PROVE f[i] = IF i = 1 THEN ss[i] ELSE f[i - 1] \o ss[i]
    <3>1. i \in 1 .. n + 1 /\ (i # 1 => i - 1 \in 1 .. n)
      BY <1>0
    <3>2. g[i] = IF i = 1 THEN ts[i] ELSE g[i - 1] \o ts[i]
      BY <1>1, <3>1 DEF Flattens
    <3> QED BY <1>0, <3>1, <3>2
  <2> HIDE DEF f
  <2> QED BY <2>1, <2>2 DEF Flattens
<1>3. FlattenSeq(ss) = IF n = 0 THEN <<>> ELSE f[n]
  <2> HIDE DEF f
  <2> QED BY <1>2, FlattenIs
<1>4. FlattenSeq(ts) = g[n + 1]
  BY <1>0, <1>1, FlattenIs
<1>5. g[n + 1] = IF n = 0 THEN s ELSE g[n] \o s
  <2>1. n + 1 \in 1 .. n + 1 /\ (n + 1) - 1 = n /\ (n + 1 = 1 <=> n = 0)
    BY <1>0
  <2>2. g[n + 1] = IF n + 1 = 1 THEN ts[n + 1] ELSE g[(n + 1) - 1] \o ts[n + 1]
    BY <1>1, <2>1 DEF Flattens
  <2> QED BY <1>0, <2>1, <2>2
<1>6. CASE n = 0
  BY <1>3, <1>4, <1>5, <1>6 DEF ts
<1>7. CASE n # 0
  <2>0. n \in 1 .. n
    BY <1>0, <1>7
  <2>1. f[n] = g[n]
    BY <2>0
  <2>2. f[n] \in Seq(V)
    <3> HIDE DEF f
    <3> QED BY <1>2, <2>0 DEF Flattens
  <2> QED BY <1>3, <1>4, <1>5, <1>7, <2>1, <2>2 DEF ts
<1> QED BY <1>6, <1>7

(* Nothing to join. *)
LEMMA FlattenNone == FlattenSeq(<<>>) = <<>>
BY DEF FlattenSeq

-----------------------------------------------------------------------------
(* The actions that do something. *)
Acts == {KeyDown(k) : k \in Chars} \cup {KeyUp(k) : k \in Chars}
          \cup {ButtonDown(b) : b \in {"left", "right"}} \cup {ButtonUp(b) : b \in {"left", "right"}}
          \cup {Move(o) : o \in {"viewport", "pointer", Source, Target}}

(* They are none of them the pause. *)
LEMMA ActsDo == ASSUME NEW a \in Acts PROVE Does(a) = <<a>>
<1>1. \A n, x : <<n, x>> # <<"pause">>
  <2> SUFFICES ASSUME NEW n, NEW x, <<n, x>> = <<"pause">> PROVE FALSE
    OBVIOUS
  <2>1. Len(<<n, x>>) = 2 /\ Len(<<"pause">>) = 1
    OBVIOUS
  <2> QED BY <2>1
<1> QED BY <1>1 DEF Acts, KeyDown, KeyUp, ButtonDown, ButtonUp, Move, Does, Pause

(* A pause does nothing. *)
LEMMA PauseDoesNot == Does(Pause) = <<>>
BY DEF Does

(* What an entry of a list does is no action or one. *)
LEMMA DoesOK == ASSUME NEW a \in Acts \cup {Pause} PROVE Does(a) \in Seq(Acts)
<1>1. CASE a = Pause
  BY <1>1, PauseDoesNot
<1>2. CASE a \in Acts
  <2>1. Does(a) = <<a>>
    BY <1>2, ActsDo
  <2>2. <<a>> \in Seq(Acts)
    BY <1>2
  <2> QED BY <2>1, <2>2
<1> QED BY <1>1, <1>2

(* Two lists in step. *)
InStep == {c \in [keys : Seq(Acts \cup {Pause}), pointer : Seq(Acts \cup {Pause})] : Len(c.keys) = Len(c.pointer)}

Tick(c, k, p) == [keys |-> Append(c.keys, k), pointer |-> Append(c.pointer, p)]

(* What the remote end does tick by tick. *)
Ticks(c) == [i \in 1..Longer(c) |-> Does(At(c.keys, i)) \o Does(At(c.pointer, i))]

(* There is a tick for every entry of the lists. *)
LEMMA TicksOK == ASSUME NEW c \in InStep PROVE Ticks(c) \in Seq(Seq(Acts)) /\ Len(Ticks(c)) = Len(c.keys)
<1>1. Longer(c) = Len(c.keys) /\ Len(c.keys) = Len(c.pointer) /\ Len(c.keys) \in Nat
  BY DEF InStep, Longer
<1>2. ASSUME NEW i \in 1 .. Len(c.keys) PROVE Does(At(c.keys, i)) \o Does(At(c.pointer, i)) \in Seq(Acts)
  <2>1. At(c.keys, i) \in Acts \cup {Pause} /\ At(c.pointer, i) \in Acts \cup {Pause}
    BY <1>1 DEF InStep, At
  <2>2. Does(At(c.keys, i)) \in Seq(Acts) /\ Does(At(c.pointer, i)) \in Seq(Acts)
    BY <2>1, DoesOK
  <2> QED BY <2>2
<1>3. Ticks(c) \in [1 .. Len(c.keys) -> Seq(Acts)]
  BY <1>1, <1>2 DEF Ticks
<1> QED BY <1>1, <1>3

(* With one more tick, its actions come last. *)
LEMMA TickPerformed ==
  ASSUME NEW c \in InStep, NEW k \in Acts \cup {Pause}, NEW p \in Acts \cup {Pause}
  PROVE  /\ Tick(c, k, p) \in InStep
         /\ Performed(c) \in Seq(Acts)
         /\ Performed(Tick(c, k, p)) = Performed(c) \o (Does(k) \o Does(p))
<1> DEFINE d == Tick(c, k, p)
           n == Len(c.keys)
           s == Does(k) \o Does(p)
<1>1. d \in InStep
  BY DEF InStep, Tick
<1>2. n \in Nat /\ Len(c.pointer) = n /\ Longer(c) = n /\ Longer(d) = n + 1
  BY DEF InStep, Tick, Longer
<1>3. s \in Seq(Acts)
  <2>1. Does(k) \in Seq(Acts) /\ Does(p) \in Seq(Acts)
    BY DoesOK
  <2> QED BY <2>1
<1>4. ASSUME NEW i \in 1 .. n + 1
      PROVE  Does(At(d.keys, i)) \o Does(At(d.pointer, i)) = Append(Ticks(c), s)[i]
  <2>0. Ticks(c) \in Seq(Seq(Acts)) /\ Len(Ticks(c)) = n
    BY TicksOK
  <2>1. CASE i = n + 1
    <3>1. At(d.keys, i) = k /\ At(d.pointer, i) = p
      BY <1>2, <2>1 DEF InStep, Tick, At
    <3>2. Append(Ticks(c), s)[i] = s
      BY <2>0, <2>1, <1>3
    <3> QED BY <3>1, <3>2
  <2>2. CASE i # n + 1
    <3>0. i \in 1 .. n
      BY <1>2, <2>2
    <3>1. At(d.keys, i) = At(c.keys, i) /\ At(d.pointer, i) = At(c.pointer, i)
      BY <1>2, <3>0 DEF InStep, Tick, At
    <3>2. Append(Ticks(c), s)[i] = Ticks(c)[i]
      BY <2>0, <3>0, <1>2, <1>3
    <3>3. Ticks(c)[i] = Does(At(c.keys, i)) \o Does(At(c.pointer, i))
      BY <3>0, <1>2 DEF Ticks
    <3> QED BY <3>1, <3>2, <3>3
  <2> QED BY <2>1, <2>2
<1>5. Ticks(d) = Append(Ticks(c), s)
  <2>0. Ticks(c) \in Seq(Seq(Acts)) /\ Len(Ticks(c)) = n
    BY TicksOK
  <2>1. Append(Ticks(c), s) \in [1 .. n + 1 -> Seq(Acts)]
    <3> DEFINE q == Append(Ticks(c), s)
    <3> HIDE DEF s, n
    <3>1. q \in Seq(Seq(Acts)) /\ Len(q) = n + 1
      BY <2>0, <1>2, <1>3
    <3> HIDE DEF q
    <3>2. q \in [1 .. n + 1 -> Seq(Acts)]
      BY <3>1
    <3> QED BY <3>2 DEF q
  <2>2. Ticks(d) = [i \in 1 .. n + 1 |-> Does(At(d.keys, i)) \o Does(At(d.pointer, i))]
    BY <1>2 DEF Ticks
  <2> HIDE DEF d, s, n
  <2> QED BY <1>4, <2>1, <2>2
<1>6. FlattenSeq(Append(Ticks(c), s)) = FlattenSeq(Ticks(c)) \o s /\ FlattenSeq(Ticks(c)) \in Seq(Acts)
  <2> HIDE DEF s
  <2> QED BY TicksOK, <1>3, FlattenAppend
<1>7. Performed(d) = FlattenSeq(Ticks(d)) /\ Performed(c) = FlattenSeq(Ticks(c))
  BY DEF Performed, Ticks
<1> QED BY <1>1, <1>5, <1>6, <1>7

-----------------------------------------------------------------------------
(* d is c and then s. *)
Adds(c, d, s) == d \in InStep /\ Performed(d) = Performed(c) \o s

(* Concatenation is associative. *)
LEMMA ConcatOK == ASSUME NEW S, NEW x \in Seq(S), NEW y \in Seq(S), NEW z \in Seq(S) PROVE x \o (y \o z) = (x \o y) \o z
OBVIOUS

(* A sequence over a set is one over a larger set. *)
LEMMA SeqWider == ASSUME NEW S, NEW T, NEW x \in Seq(S) PROVE x \in Seq(S \cup T)
<1>1. x \in [1 .. Len(x) -> S] /\ Len(x) \in Nat
  OBVIOUS
<1>2. x \in [1 .. Len(x) -> S \cup T]
  BY <1>1
<1> QED BY <1>1, <1>2

(* Two sequences of one element make one of two. *)
LEMMA PairOK == ASSUME NEW a, NEW b PROVE <<a>> \o <<b>> = <<a, b>>
<1>1. <<a>> \in Seq({a, b}) /\ <<b>> \in Seq({a, b}) /\ <<a, b>> \in Seq({a, b})
  OBVIOUS
<1>2. Len(<<a>> \o <<b>>) = 2 /\ (<<a>> \o <<b>>)[1] = a /\ (<<a>> \o <<b>>)[2] = b
  BY <1>1
<1>3. Len(<<a, b>>) = 2 /\ <<a, b>>[1] = a /\ <<a, b>>[2] = b
  OBVIOUS
<1>4. <<a>> \o <<b>> \in Seq({a, b})
  BY <1>1
<1> DEFINE p == <<a>> \o <<b>>
           q == <<a, b>>
<1>5. p = [i \in 1 .. 2 |-> p[i]] /\ q = [i \in 1 .. 2 |-> q[i]]
  BY <1>1, <1>2, <1>3, <1>4
<1>6. \A i \in 1 .. 2 : i = 1 \/ i = 2
  OBVIOUS
<1>7. \A i \in 1 .. 2 : p[i] = q[i]
  BY <1>2, <1>3, <1>6
<1> HIDE DEF p, q
<1>8. p = q
  BY <1>5, <1>7
<1> QED BY <1>8 DEF p, q

(* What is performed is a sequence of actions. *)
LEMMA PerformedOK == ASSUME NEW c \in InStep PROVE Performed(c) \in Seq(Acts)
<1>1. Pause \in Acts \cup {Pause}
  OBVIOUS
<1> QED BY <1>1, TickPerformed

(* Two additions make one. *)
LEMMA AddsThen ==
  ASSUME NEW c \in InStep, NEW d, NEW e, NEW s \in Seq(Acts), NEW r \in Seq(Acts), Adds(c, d, s), Adds(d, e, r)
  PROVE  Adds(c, e, s \o r)
<1>1. Performed(c) \in Seq(Acts)
  BY PerformedOK
<1>2. Performed(e) = (Performed(c) \o s) \o r
  BY DEF Adds
<1>3. \A x \in Seq(Acts) : (x \o s) \o r = x \o (s \o r)
  OBVIOUS
<1> QED BY <1>1, <1>2, <1>3 DEF Adds

(* One action of the pointer, with its pause for the keys. *)
LEMMA AddsPoint == ASSUME NEW c \in InStep, NEW a \in Acts PROVE Adds(c, Point(c, <<a>>, 1), <<a>>)
<1>1. Point(c, <<a>>, 1) = Tick(c, Pause, a)
  <2>1. c.keys \in Seq(Acts \cup {Pause}) /\ c.pointer \in Seq(Acts \cup {Pause})
    BY DEF InStep
  <2>2. Pauses(1) = <<Pause>>
    BY DEF Pauses
  <2>3. \A x \in Seq(Acts \cup {Pause}), y \in Acts \cup {Pause} : x \o <<y>> = Append(x, y)
    OBVIOUS
  <2> QED BY <2>1, <2>2, <2>3 DEF Point, Tick
<1>2. Does(Pause) \o Does(a) = <<a>>
  <2>1. <<>> \o <<a>> = <<a>>
    OBVIOUS
  <2> QED BY <2>1, ActsDo, PauseDoesNot
<1> QED BY <1>1, <1>2, TickPerformed DEF Adds

(* One action of the keys, with its pause for the pointer. *)
LEMMA AddsKey == ASSUME NEW c \in InStep, NEW a \in Acts PROVE Adds(c, Key(c, a), <<a>>)
<1>1. Key(c, a) = Tick(c, a, Pause)
  BY DEF Key, Tick
<1>2. Does(a) \o Does(Pause) = <<a>>
  <2>1. <<a>> \o <<>> = <<a>>
    OBVIOUS
  <2> QED BY <2>1, ActsDo, PauseDoesNot
<1> QED BY <1>1, <1>2, TickPerformed DEF Adds

(* Pointer actions may be added one after the other. *)
LEMMA PointBoth ==
  ASSUME NEW c \in InStep, NEW as \in Seq(Acts), NEW bs \in Seq(Acts), NEW m \in Nat, NEW n \in Nat
  PROVE  Point(c, as \o bs, m + n) = Point(Point(c, as, m), bs, n)
<1> DEFINE W == Acts \cup {Pause}
<1>1. Pauses(m + n) = Pauses(m) \o Pauses(n)
  BY DEF Pauses
<1>2. c.keys \in Seq(W) /\ c.pointer \in Seq(W)
  BY DEF InStep
<1>4. Pauses(m) \in Seq(W) /\ Pauses(n) \in Seq(W)
  BY DEF Pauses
<1>5. as \in Seq(W) /\ bs \in Seq(W)
  BY SeqWider
<1> HIDE DEF W
<1>3. \A x, y, z \in Seq(W) : x \o (y \o z) = (x \o y) \o z
  BY ConcatOK
<1>6. c.keys \o Pauses(m + n) = (c.keys \o Pauses(m)) \o Pauses(n)
  <2>1. c.keys \o (Pauses(m) \o Pauses(n)) = (c.keys \o Pauses(m)) \o Pauses(n)
    BY <1>2, <1>3, <1>4, Zenon
  <2> QED BY <1>1, <2>1
<1>7. c.pointer \o (as \o bs) = (c.pointer \o as) \o bs
  BY <1>2, <1>3, <1>5, Zenon
<1> QED BY <1>6, <1>7 DEF Point

(* Actions of the pointer one after another. *)
LEMMA AddsPoints ==
  ASSUME NEW c \in InStep, NEW as \in Seq(Acts), NEW bs \in Seq(Acts), NEW m \in Nat, NEW n \in Nat,
         Adds(c, Point(c, as, m), as), \A d \in InStep : Adds(d, Point(d, bs, n), bs)
  PROVE  Adds(c, Point(c, as \o bs, m + n), as \o bs)
<1>1. Point(c, as, m) \in InStep
  BY DEF Adds
<1>2. Adds(Point(c, as, m), Point(Point(c, as, m), bs, n), bs)
  BY <1>1
<1>3. Adds(c, Point(Point(c, as, m), bs, n), as \o bs)
  BY <1>1, <1>2, AddsThen
<1> QED BY <1>3, PointBoth

(* The buttons and the moves. *)
LEMMA ActsAre ==
  /\ ButtonDown("left") \in Acts /\ ButtonUp("left") \in Acts /\ ButtonDown("right") \in Acts /\ ButtonUp("right") \in Acts
  /\ \A o \in {"viewport", "pointer", Source, Target} : Move(o) \in Acts
  /\ \A k \in Chars : KeyDown(k) \in Acts /\ KeyUp(k) \in Acts
BY DEF Acts

(* Two actions of the pointer. *)
LEMMA AddsTwo == ASSUME NEW c \in InStep, NEW a \in Acts, NEW b \in Acts PROVE Adds(c, Point(c, <<a, b>>, 2), <<a, b>>)
<1>1. <<a>> \in Seq(Acts) /\ <<b>> \in Seq(Acts)
  OBVIOUS
<1>2. Adds(c, Point(c, <<a>> \o <<b>>, 1 + 1), <<a>> \o <<b>>)
  BY <1>1, AddsPoint, AddsPoints
<1>3. 1 + 1 = 2
  OBVIOUS
<1> QED BY <1>2, <1>3, PairOK

(* A click is a sequence of actions. *)
LEMMA ClickedOK == Clicked("left") \in Seq(Acts) /\ Clicked("right") \in Seq(Acts)
BY ActsAre DEF Clicked

(* click() adds a click. *)
LEMMA AddsClick == ASSUME NEW c \in InStep PROVE Adds(c, Click(c), Clicked("left"))
BY AddsTwo, ActsAre DEF Click, PointerClick, Clicked

(* context_click() adds a click of the right button. *)
LEMMA AddsContextClick == ASSUME NEW c \in InStep PROVE Adds(c, ContextClick(c), Clicked("right"))
BY AddsTwo, ActsAre DEF ContextClick, PointerContextClick, Clicked

(* double_click() adds two clicks. *)
LEMMA AddsDoubleClick == ASSUME NEW c \in InStep PROVE Adds(c, DoubleClick(c), Clicked("left") \o Clicked("left"))
<1>1. \A d \in InStep : Adds(d, Point(d, Clicked("left"), 2), Clicked("left"))
  BY AddsTwo, ActsAre DEF Clicked
<1>2. Adds(c, Point(c, Clicked("left") \o Clicked("left"), 2 + 2), Clicked("left") \o Clicked("left"))
  BY <1>1, ClickedOK, AddsPoints
<1> QED BY <1>2 DEF DoubleClick, PointerDoubleClick, PointerClick, Clicked

(* click_and_hold() adds a press. *)
LEMMA AddsHold == ASSUME NEW c \in InStep PROVE Adds(c, ClickAndHold(c), <<ButtonDown("left")>>)
BY AddsPoint, ActsAre DEF ClickAndHold

(* release() adds a release. *)
LEMMA AddsRelease == ASSUME NEW c \in InStep PROVE Adds(c, Release(c), <<ButtonUp("left")>>)
BY AddsPoint, ActsAre DEF Release

(* Every move of the pointer adds itself. *)
LEMMA AddsMoves ==
  ASSUME NEW c \in InStep
  PROVE  /\ Adds(c, MoveTo(c), <<Move("viewport")>>)
         /\ Adds(c, MoveByOffset(c), <<Move("pointer")>>)
         /\ \A e \in {Source, Target} : /\ Adds(c, MoveToElementCenter(c, e), <<Move(e)>>)
                                        /\ Adds(c, MoveToElementWithOffset(c, e), <<Move(e)>>)
BY AddsPoint, ActsAre DEF MoveTo, MoveByOffset, MoveToElementCenter, MoveToElementWithOffset

(* key_down() and key_up() add themselves. *)
LEMMA AddsKeys ==
  ASSUME NEW c \in InStep, NEW k \in Chars
  PROVE  Adds(c, PressKey(c, k), <<KeyDown(k)>>) /\ Adds(c, LiftKey(c, k), <<KeyUp(k)>>)
BY AddsKey, ActsAre DEF PressKey, LiftKey

-----------------------------------------------------------------------------
(* One character of a text. *)
Stroke(d, k) == LiftKey(PressKey(d, k), k)
Strokes(k) == <<KeyDown(k), KeyUp(k)>>

(* The stroke of a key is a sequence of actions. *)
LEMMA StrokesOK == ASSUME NEW k \in Chars PROVE Strokes(k) \in Seq(Acts)
<1>1. KeyDown(k) \in Acts /\ KeyUp(k) \in Acts
  BY ActsAre
<1> QED BY <1>1 DEF Strokes

(* A stroke adds the press and the release of its key. *)
LEMMA AddsStroke == ASSUME NEW c \in InStep, NEW k \in Chars PROVE Adds(c, Stroke(c, k), Strokes(k))
<1>1. Adds(c, PressKey(c, k), <<KeyDown(k)>>)
  BY AddsKeys
<1>2. PressKey(c, k) \in InStep
  BY <1>1 DEF Adds
<1>3. Adds(PressKey(c, k), Stroke(c, k), <<KeyUp(k)>>)
  BY <1>2, AddsKeys DEF Stroke
<1>4. <<KeyDown(k)>> \in Seq(Acts) /\ <<KeyUp(k)>> \in Seq(Acts)
  <2>1. KeyDown(k) \in Acts /\ KeyUp(k) \in Acts
    BY ActsAre
  <2> QED BY <2>1
<1>5. Adds(c, Stroke(c, k), <<KeyDown(k)>> \o <<KeyUp(k)>>)
  BY <1>1, <1>3, <1>4, AddsThen
<1> QED BY <1>5, PairOK DEF Strokes

(* it is what SendKeys makes of the characters at each set of places. *)
IsTypist(it, c, s) ==
  it = [x \in SUBSET DOMAIN s |-> IF x = {} THEN c ELSE Stroke(it[x \ {Max(x)}], s[Max(x)])]

(* send_keys() is a value of the recursive function over its text. *)
LEMMA TypistUnfold ==
  ASSUME NEW c, NEW s PROVE SendKeys(c, s) = (CHOOSE it : IsTypist(it, c, s))[DOMAIN s]
BY DEF SendKeys, FoldLeft, MapThenFoldSet, IsTypist, Stroke

(* The chain after each of the characters, b[n] after n of them. *)
LEMMA TypistFold ==
  ASSUME NEW c \in InStep, NEW s \in Seq(Chars)
  PROVE  \E b : /\ b[0] = c
                /\ \A n \in 1 .. Len(s) : b[n] = Stroke(b[n - 1], s[n])
                /\ SendKeys(c, s) = b[Len(s)]
<1> DEFINE f == [p \in InStep \X Nat |-> IF p[2] \in 1 .. Len(s) THEN Stroke(p[1], s[p[2]]) ELSE p[1]]
<1>1. DOMAIN s = 1 .. Len(s) /\ Len(s) \in Nat /\ \A n \in 1 .. Len(s) : s[n] \in Chars
  OBVIOUS
<1>2. f \in [InStep \X Nat -> InStep]
  <2>1. ASSUME NEW d \in InStep, NEW n \in 1 .. Len(s) PROVE Stroke(d, s[n]) \in InStep
    BY <1>1, AddsStroke DEF Adds
  <2> QED BY <2>1
<1>4. ASSUME NEW a \in InStep, NEW n \in 1 .. Len(s) PROVE f[a, n] = Stroke(a, s[n])
  <2>1. <<a, n>> \in InStep \X Nat /\ <<a, n>>[1] = a /\ <<a, n>>[2] = n
    OBVIOUS
  <2> QED BY <2>1
<1> HIDE DEF f
<1>5. PICK it \in [SUBSET (1 .. Len(s)) -> InStep] : Iterates(it, f, c, Len(s))
  BY <1>1, <1>2, FoldExists
<1>6. IsTypist(it, c, s)
  <2>1. ASSUME NEW x \in SUBSET (1 .. Len(s))
        PROVE  it[x] = IF x = {} THEN c ELSE Stroke(it[x \ {Max(x)}], s[Max(x)])
    <3>1. CASE x # {}
      <4>1. Max(x) \in x
        BY <1>1, <3>1, MaxOK
      <4>2. x \ {Max(x)} \in SUBSET (1 .. Len(s)) /\ Max(x) \in 1 .. Len(s)
        BY <4>1
      <4>3. it[x \ {Max(x)}] \in InStep
        BY <4>2
      <4>4. f[it[x \ {Max(x)}], Max(x)] = Stroke(it[x \ {Max(x)}], s[Max(x)])
        BY <4>2, <4>3, <1>4
      <4> QED BY <3>1, <4>4, <1>5 DEF Iterates
    <3>2. CASE x = {}
      BY <3>2, <1>5 DEF Iterates
    <3> QED BY <3>1, <3>2
  <2>2. it = [x \in SUBSET (1 .. Len(s)) |-> it[x]]
    OBVIOUS
  <2> QED BY <2>1, <2>2, <1>1 DEF IsTypist
<1> DEFINE i == CHOOSE g : IsTypist(g, c, s)
<1>7. IsTypist(i, c, s)
  BY <1>6
<1>8. SendKeys(c, s) = i[1 .. Len(s)]
  BY <1>1, TypistUnfold
<1> HIDE DEF i
<1>9. \A x \in SUBSET (1 .. Len(s)) : i[x] = IF x = {} THEN c ELSE Stroke(i[x \ {Max(x)}], s[Max(x)])
  BY <1>7, <1>1 DEF IsTypist
<1> DEFINE b == [n \in 0 .. Len(s) |-> i[1 .. n]]
<1>10. b[0] = c
  <2>1. 1 .. 0 = {} /\ 0 \in 0 .. Len(s)
    BY <1>1
  <2> QED BY <2>1, <1>9
<1>11. ASSUME NEW n \in 1 .. Len(s) PROVE b[n] = Stroke(b[n - 1], s[n])
  <2>1. /\ 1 .. n \in SUBSET (1 .. Len(s)) /\ 1 .. n # {} /\ n \in 0 .. Len(s) /\ n - 1 \in 0 .. Len(s)
        /\ Max(1 .. n) = n /\ (1 .. n) \ {n} = 1 .. n - 1
    BY <1>1, UpTo
  <2>2. i[1 .. n] = Stroke(i[(1 .. n) \ {Max(1 .. n)}], s[Max(1 .. n)])
    BY <2>1, <1>9
  <2> QED BY <2>1, <2>2
<1>12. SendKeys(c, s) = b[Len(s)]
  BY <1>1, <1>8
<1> HIDE DEF b
<1> QED BY <1>10, <1>11, <1>12

(* A text is typed character by character. *)
LEMMA AddsTyped ==
  ASSUME NEW c \in InStep, NEW s \in Seq(Chars) PROVE Adds(c, SendKeys(c, s), Typed(s)) /\ Typed(s) \in Seq(Acts)
<1> DEFINE N == Len(s)
           w == [i \in DOMAIN s |-> Strokes(s[i])]
<1>0. N \in Nat /\ \A n \in 1 .. N : s[n] \in Chars
  OBVIOUS
<1>1. w \in Seq(Seq(Acts)) /\ Len(w) = N /\ \A n \in 1 .. N : w[n] = Strokes(s[n])
  <2>1. w \in [1 .. N -> Seq(Acts)]
    BY StrokesOK
  <2> QED BY <2>1
<1>2. Typed(s) = FlattenSeq(w)
  BY DEF Typed, Strokes
<1> HIDE DEF w
<1>3. PICK f : Flattens(f, w, N, Acts)
  BY <1>0, <1>1, FlattensExist
<1>4. Typed(s) = IF N = 0 THEN <<>> ELSE f[N]
  BY <1>1, <1>2, <1>3, FlattenIs
<1>5. PICK b : /\ b[0] = c
               /\ \A n \in 1 .. N : b[n] = Stroke(b[n - 1], s[n])
               /\ SendKeys(c, s) = b[N]
  BY TypistFold
<1> HIDE DEF N
<1> DEFINE g(n) == IF n = 0 THEN <<>> ELSE f[n]
           S == {n \in Nat : n <= N => Adds(c, b[n], g(n)) /\ g(n) \in Seq(Acts)}
<1>6. 0 \in S
  <2>1. Performed(c) \in Seq(Acts)
    BY PerformedOK
  <2>2. Performed(c) \o <<>> = Performed(c)
    BY <2>1
  <2>3. Adds(c, b[0], <<>>)
    BY <1>5, <2>2 DEF Adds
  <2>4. <<>> \in Seq(Acts)
    OBVIOUS
  <2> QED BY <2>3, <2>4
<1>7. ASSUME NEW n \in Nat, n \in S PROVE n + 1 \in S
  <2> SUFFICES ASSUME n + 1 <= N PROVE Adds(c, b[n + 1], g(n + 1)) /\ g(n + 1) \in Seq(Acts)
    OBVIOUS
  <2>1. n + 1 \in 1 .. N /\ (n + 1) - 1 = n /\ n <= N /\ n + 1 # 0
    BY <1>0
  <2>2. Adds(c, b[n], g(n)) /\ g(n) \in Seq(Acts)
    BY <1>7, <2>1
  <2>3. b[n] \in InStep /\ s[n + 1] \in Chars
    BY <2>1, <2>2, <1>0 DEF Adds
  <2>4. b[n + 1] = Stroke(b[n], s[n + 1])
    BY <1>5, <2>1
  <2>5. Adds(b[n], b[n + 1], Strokes(s[n + 1])) /\ Strokes(s[n + 1]) \in Seq(Acts)
    BY <2>3, <2>4, AddsStroke, StrokesOK
  <2>6. g(n + 1) = g(n) \o Strokes(s[n + 1])
    <3>1. f[n + 1] = IF n + 1 = 1 THEN w[n + 1] ELSE f[(n + 1) - 1] \o w[n + 1]
      BY <1>3, <2>1 DEF Flattens
    <3>2. w[n + 1] = Strokes(s[n + 1])
      BY <1>1, <2>1
    <3>3. <<>> \o Strokes(s[n + 1]) = Strokes(s[n + 1])
      BY <2>5
    <3>4. CASE n = 0
      BY <3>1, <3>2, <3>3, <3>4, <2>1
    <3>5. CASE n # 0
      <4>1. n + 1 # 1
        BY <3>5
      <4>2. f[n + 1] = f[n] \o Strokes(s[n + 1])
        BY <3>1, <3>2, <4>1, <2>1
      <4> QED BY <4>2, <3>5, <2>1
    <3> QED BY <3>4, <3>5
  <2>7. g(n) \o Strokes(s[n + 1]) \in Seq(Acts)
    BY <2>2, <2>5
  <2> HIDE DEF g
  <2>8. Adds(c, b[n + 1], g(n) \o Strokes(s[n + 1]))
    BY <2>2, <2>5, AddsThen
  <2> QED BY <2>6, <2>7, <2>8
<1>8. Nat \subseteq S
  <2> HIDE DEF S
  <2> QED BY <1>6, <1>7, AllNumbers
<1>9. Adds(c, b[N], g(N)) /\ g(N) \in Seq(Acts)
  BY <1>0, <1>8
<1> QED BY <1>4, <1>5, <1>9

-----------------------------------------------------------------------------
(* Adds, of actions only. *)
Gives(c, d, s) == Adds(c, d, s) /\ s \in Seq(Acts)

(* Two additions of actions make one. *)
LEMMA GivesThen ==
  ASSUME NEW c \in InStep, NEW d, NEW e, NEW s, NEW r, Gives(c, d, s), Gives(d, e, r) PROVE Gives(c, e, s \o r)
<1>1. s \o r \in Seq(Acts)
  BY DEF Gives
<1> QED BY <1>1, AddsThen DEF Gives

(* After an addition the lists are in step. *)
LEMMA GivesInStep == ASSUME NEW c, NEW d, NEW s, Gives(c, d, s) PROVE d \in InStep
BY DEF Gives, Adds

(* One action is a sequence of actions. *)
LEMMA OneOK == ASSUME NEW a \in Acts PROVE <<a>> \in Seq(Acts)
OBVIOUS

(* Two actions and two actions. *)
LEMMA TwoTwoOK ==
  ASSUME NEW a \in Acts, NEW b \in Acts, NEW c \in Acts, NEW d \in Acts
  PROVE  <<a, b>> \o <<c, d>> = <<a, b, c, d>>
<1> DEFINE p == <<a, b>> \o <<c, d>>
           q == <<a, b, c, d>>
<1>1. p \in Seq(Acts) /\ Len(p) = 4 /\ p[1] = a /\ p[2] = b /\ p[3] = c /\ p[4] = d
  OBVIOUS
<1>2. q \in Seq(Acts) /\ Len(q) = 4 /\ q[1] = a /\ q[2] = b /\ q[3] = c /\ q[4] = d
  OBVIOUS
<1> HIDE DEF p, q
<1>3. p = [i \in 1 .. 4 |-> p[i]] /\ q = [i \in 1 .. 4 |-> q[i]]
  BY <1>1, <1>2
<1>4. \A i \in 1 .. 4 : i = 1 \/ i = 2 \/ i = 3 \/ i = 4
  OBVIOUS
<1>5. \A i \in 1 .. 4 : p[i] = q[i]
  BY <1>1, <1>2, <1>4
<1>6. p = q
  BY <1>3, <1>5
<1> QED BY <1>6 DEF p, q

(* Two actions and one. *)
LEMMA TwoOneOK ==
  ASSUME NEW a \in Acts, NEW b \in Acts, NEW c \in Acts PROVE  <<a, b>> \o <<c>> = <<a, b, c>>
<1> DEFINE p == <<a, b>> \o <<c>>
           q == <<a, b, c>>
<1>1. p \in Seq(Acts) /\ Len(p) = 3 /\ p[1] = a /\ p[2] = b /\ p[3] = c
  OBVIOUS
<1>2. q \in Seq(Acts) /\ Len(q) = 3 /\ q[1] = a /\ q[2] = b /\ q[3] = c
  OBVIOUS
<1> HIDE DEF p, q
<1>3. p = [i \in 1 .. 3 |-> p[i]] /\ q = [i \in 1 .. 3 |-> q[i]]
  BY <1>1, <1>2
<1>4. \A i \in 1 .. 3 : i = 1 \/ i = 2 \/ i = 3
  OBVIOUS
<1>5. \A i \in 1 .. 3 : p[i] = q[i]
  BY <1>1, <1>2, <1>4
<1>6. p = q
  BY <1>3, <1>5
<1> QED BY <1>6 DEF p, q

(* What the methods without an element do. *)
LEMMA GivesPlain ==
  ASSUME NEW c \in InStep
  PROVE  /\ Gives(c, Click(c), Clicked("left"))
         /\ Gives(c, ClickAndHold(c), <<ButtonDown("left")>>)
         /\ Gives(c, ContextClick(c), Clicked("right"))
         /\ Gives(c, DoubleClick(c), Clicked("left") \o Clicked("left"))
         /\ Gives(c, MoveTo(c), <<Move("viewport")>>)
         /\ Gives(c, MoveByOffset(c), <<Move("pointer")>>)
         /\ Gives(c, Release(c), <<ButtonUp("left")>>)
<1>1. Clicked("left") \in Seq(Acts) /\ Clicked("right") \in Seq(Acts)
  BY ClickedOK
<1>2. Clicked("left") \o Clicked("left") \in Seq(Acts)
  BY <1>1
<1>3. /\ <<ButtonDown("left")>> \in Seq(Acts) /\ <<ButtonUp("left")>> \in Seq(Acts)
      /\ <<Move("viewport")>> \in Seq(Acts) /\ <<Move("pointer")>> \in Seq(Acts)
  BY OneOK, ActsAre
<1> QED BY <1>1, <1>2, <1>3, AddsClick, AddsHold, AddsContextClick, AddsDoubleClick, AddsMoves, AddsRelease DEF Gives

(* A move to an element gives a move. *)
LEMMA GivesMove ==
  ASSUME NEW c \in InStep, NEW e \in {Source, Target}
  PROVE  /\ Gives(c, MoveToElementCenter(c, e), <<Move(e)>>)
         /\ Gives(c, MoveToElementWithOffset(c, e), <<Move(e)>>)
<1>1. <<Move(e)>> \in Seq(Acts)
  BY OneOK, ActsAre
<1> QED BY <1>1, AddsMoves DEF Gives

(* key_down() and key_up() give a press and a release. *)
LEMMA GivesKeys ==
  ASSUME NEW c \in InStep, NEW k \in Chars
  PROVE  Gives(c, PressKey(c, k), <<KeyDown(k)>>) /\ Gives(c, LiftKey(c, k), <<KeyUp(k)>>)
<1>1. <<KeyDown(k)>> \in Seq(Acts) /\ <<KeyUp(k)>> \in Seq(Acts)
  BY OneOK, ActsAre
<1> QED BY <1>1, AddsKeys DEF Gives

(* send_keys() gives the strokes of its text. *)
LEMMA GivesTyped == ASSUME NEW c \in InStep, NEW s \in Seq(Chars) PROVE Gives(c, SendKeys(c, s), Typed(s))
BY AddsTyped DEF Gives

(* And what those on an element do: it is moved to first. *)
LEMMA GivesOnElement ==
  ASSUME NEW c \in InStep, NEW e \in {Source, Target}
  PROVE  /\ Gives(c, ClickElement(c, e), <<Move(e)>> \o Clicked("left"))
         /\ Gives(c, ClickAndHoldElement(c, e), <<Move(e), ButtonDown("left")>>)
         /\ Gives(c, ContextClickElement(c, e), <<Move(e)>> \o Clicked("right"))
         /\ Gives(c, DoubleClickElement(c, e), <<Move(e)>> \o Clicked("left") \o Clicked("left"))
         /\ Gives(c, ReleaseOnElement(c, e), <<Move(e), ButtonUp("left")>>)
<1> DEFINE d == MoveToElementCenter(c, e)
<1>1. Gives(c, d, <<Move(e)>>)
  BY GivesMove
<1> HIDE DEF d
<1>2. d \in InStep
  BY <1>1, GivesInStep
<1>3. /\ Gives(c, Click(d), <<Move(e)>> \o Clicked("left"))
      /\ Gives(c, ContextClick(d), <<Move(e)>> \o Clicked("right"))
  BY <1>1, <1>2, GivesPlain, GivesThen
<1>4. Gives(c, ClickAndHold(d), <<Move(e)>> \o <<ButtonDown("left")>>)
  BY <1>1, <1>2, GivesPlain, GivesThen
<1>5. Gives(c, Release(d), <<Move(e)>> \o <<ButtonUp("left")>>)
  BY <1>1, <1>2, GivesPlain, GivesThen
<1>6. Gives(c, DoubleClick(d), <<Move(e)>> \o (Clicked("left") \o Clicked("left")))
  BY <1>1, <1>2, GivesPlain, GivesThen
<1>7. <<Move(e)>> \o (Clicked("left") \o Clicked("left")) = (<<Move(e)>> \o Clicked("left")) \o Clicked("left")
  <2>1. <<Move(e)>> \in Seq(Acts) /\ Clicked("left") \in Seq(Acts)
    BY <1>1, ClickedOK DEF Gives
  <2> QED BY <2>1, ConcatOK
<1>8. /\ <<Move(e)>> \o <<ButtonDown("left")>> = <<Move(e), ButtonDown("left")>>
      /\ <<Move(e)>> \o <<ButtonUp("left")>> = <<Move(e), ButtonUp("left")>>
  BY PairOK
<1> QED BY <1>3, <1>4, <1>5, <1>6, <1>7, <1>8
        DEF d, ClickElement, ClickAndHoldElement, ContextClickElement, DoubleClickElement, ReleaseOnElement

(* The three drags give what they are written to do. *)
LEMMA GivesDragged ==
  ASSUME NEW c \in InStep, NEW e \in {Source, Target}, NEW to \in {Source, Target}
  PROVE  /\ Gives(c, DragAndDropElement(c, e, to), <<Move(e), ButtonDown("left"), Move(to), ButtonUp("left")>>)
         /\ Gives(c, DragAndDropByOffset(c), <<ButtonDown("left"), Move("pointer")>>)
         /\ Gives(c, DragAndDropElementByOffset(c, e), <<Move(e), ButtonDown("left"), Move("pointer")>>)
<1>0. Move(e) \in Acts /\ Move(to) \in Acts /\ Move("pointer") \in Acts /\ ButtonDown("left") \in Acts /\ ButtonUp("left") \in Acts
  BY ActsAre
<1>1. Gives(c, ClickAndHoldElement(c, e), <<Move(e), ButtonDown("left")>>)
  BY GivesOnElement
<1>2. Gives(c, ClickAndHold(c), <<ButtonDown("left")>>)
  BY GivesPlain
<1>3. Gives(c, DragAndDropElement(c, e, to), <<Move(e), ButtonDown("left")>> \o <<Move(to), ButtonUp("left")>>)
  <2>1. ClickAndHoldElement(c, e) \in InStep
    BY <1>1, GivesInStep
  <2>2. Gives(ClickAndHoldElement(c, e), DragAndDropElement(c, e, to), <<Move(to), ButtonUp("left")>>)
    BY <2>1, GivesOnElement DEF DragAndDropElement
  <2> QED BY <1>1, <2>2, GivesThen
<1>4. Gives(c, DragAndDropByOffset(c), <<ButtonDown("left")>> \o <<Move("pointer")>>)
  <2>1. ClickAndHold(c) \in InStep
    BY <1>2, GivesInStep
  <2>2. Gives(ClickAndHold(c), DragAndDropByOffset(c), <<Move("pointer")>>)
    BY <2>1, GivesPlain DEF DragAndDropByOffset
  <2> QED BY <1>2, <2>2, GivesThen
<1>5. Gives(c, DragAndDropElementByOffset(c, e), <<Move(e), ButtonDown("left")>> \o <<Move("pointer")>>)
  <2>1. ClickAndHoldElement(c, e) \in InStep
    BY <1>1, GivesInStep
  <2>2. Gives(ClickAndHoldElement(c, e), DragAndDropElementByOffset(c, e), <<Move("pointer")>>)
    BY <2>1, GivesPlain DEF DragAndDropElementByOffset
  <2> QED BY <1>1, <2>2, GivesThen
<1>6. /\ <<Move(e), ButtonDown("left")>> \o <<Move(to), ButtonUp("left")>>
           = <<Move(e), ButtonDown("left"), Move(to), ButtonUp("left")>>
      /\ <<Move(e), ButtonDown("left")>> \o <<Move("pointer")>> = <<Move(e), ButtonDown("left"), Move("pointer")>>
      /\ <<ButtonDown("left")>> \o <<Move("pointer")>> = <<ButtonDown("left"), Move("pointer")>>
  BY <1>0, TwoTwoOK, TwoOneOK, PairOK
<1> QED BY <1>3, <1>4, <1>5, <1>6

(* The methods that first click an element give the click and then the keys. *)
LEMMA GivesTypedOn ==
  ASSUME NEW c \in InStep, NEW e \in {Source, Target}
  PROVE  /\ \A k \in Chars : /\ Gives(c, PressKeyOnElement(c, e, k), <<Move(e)>> \o Clicked("left") \o <<KeyDown(k)>>)
                             /\ Gives(c, LiftKeyOnElement(c, e, k), <<Move(e)>> \o Clicked("left") \o <<KeyUp(k)>>)
         /\ \A s \in Seq(Chars) : Gives(c, SendKeysToElement(c, e, s), <<Move(e)>> \o Clicked("left") \o Typed(s))
<1> DEFINE d == ClickElement(c, e)
           r == <<Move(e)>> \o Clicked("left")
<1>1. Gives(c, d, r)
  BY GivesOnElement
<1> HIDE DEF d, r
<1>2. d \in InStep
  BY <1>1, GivesInStep
<1>3. ASSUME NEW k \in Chars PROVE Gives(c, PressKey(d, k), r \o <<KeyDown(k)>>) /\ Gives(c, LiftKey(d, k), r \o <<KeyUp(k)>>)
  BY <1>1, <1>2, GivesKeys, GivesThen
<1>4. ASSUME NEW s \in Seq(Chars) PROVE Gives(c, SendKeys(d, s), r \o Typed(s))
  BY <1>1, <1>2, GivesTyped, GivesThen
<1> QED BY <1>3, <1>4 DEF d, r, PressKeyOnElement, LiftKeyOnElement, SendKeysToElement

-----------------------------------------------------------------------------
(* What each call is. *)
LEMMA CallPlain ==
  ASSUME NEW c
  PROVE  /\ Call(c, <<"click">>) = Click(c) /\ Means(<<"click">>) = Clicked("left")
         /\ Call(c, <<"click_and_hold">>) = ClickAndHold(c) /\ Means(<<"click_and_hold">>) = <<ButtonDown("left")>>
         /\ Call(c, <<"context_click">>) = ContextClick(c) /\ Means(<<"context_click">>) = Clicked("right")
         /\ Call(c, <<"double_click">>) = DoubleClick(c) /\ Means(<<"double_click">>) = Clicked("left") \o Clicked("left")
         /\ Call(c, <<"move_to">>) = MoveTo(c) /\ Means(<<"move_to">>) = <<Move("viewport")>>
         /\ Call(c, <<"move_by_offset">>) = MoveByOffset(c) /\ Means(<<"move_by_offset">>) = <<Move("pointer")>>
         /\ Call(c, <<"release">>) = Release(c) /\ Means(<<"release">>) = <<ButtonUp("left")>>
         /\ Call(c, <<"drag_and_drop_by_offset">>) = DragAndDropByOffset(c) /\ Means(<<"drag_and_drop_by_offset">>) = <<ButtonDown("left"), Move("pointer")>>
<1>1. Call(c, <<"click">>) = Click(c) /\ Means(<<"click">>) = Clicked("left")
  <2> DEFINE m == <<"click">>
  <2>1. m[1] = "click"
    OBVIOUS
  <2> HIDE DEF m
  <2>2. Call(c, m) = Click(c) /\ Means(m) = Clicked("left")
    BY <2>1 DEF Call, Means
  <2> QED BY <2>2 DEF m
<1>2. Call(c, <<"click_and_hold">>) = ClickAndHold(c) /\ Means(<<"click_and_hold">>) = <<ButtonDown("left")>>
  <2> DEFINE m == <<"click_and_hold">>
  <2>1. m[1] = "click_and_hold"
    OBVIOUS
  <2> HIDE DEF m
  <2>2. Call(c, m) = ClickAndHold(c) /\ Means(m) = <<ButtonDown("left")>>
    BY <2>1 DEF Call, Means
  <2> QED BY <2>2 DEF m
<1>3. Call(c, <<"context_click">>) = ContextClick(c) /\ Means(<<"context_click">>) = Clicked("right")
  <2> DEFINE m == <<"context_click">>
  <2>1. m[1] = "context_click"
    OBVIOUS
  <2> HIDE DEF m
  <2>2. Call(c, m) = ContextClick(c) /\ Means(m) = Clicked("right")
    BY <2>1 DEF Call, Means
  <2> QED BY <2>2 DEF m
<1>4. Call(c, <<"double_click">>) = DoubleClick(c) /\ Means(<<"double_click">>) = Clicked("left") \o Clicked("left")
  <2> DEFINE m == <<"double_click">>
  <2>1. m[1] = "double_click"
    OBVIOUS
  <2> HIDE DEF m
  <2>2. Call(c, m) = DoubleClick(c) /\ Means(m) = Clicked("left") \o Clicked("left")
    BY <2>1 DEF Call, Means
  <2> QED BY <2>2 DEF m
<1>5. Call(c, <<"move_to">>) = MoveTo(c) /\ Means(<<"move_to">>) = <<Move("viewport")>>
  <2> DEFINE m == <<"move_to">>
  <2>1. m[1] = "move_to"
    OBVIOUS
  <2> HIDE DEF m
  <2>2. Call(c, m) = MoveTo(c) /\ Means(m) = <<Move("viewport")>>
    BY <2>1 DEF Call, Means
  <2> QED BY <2>2 DEF m
<1>6. Call(c, <<"move_by_offset">>) = MoveByOffset(c) /\ Means(<<"move_by_offset">>) = <<Move("pointer")>>
  <2> DEFINE m == <<"move_by_offset">>
  <2>1. m[1] = "move_by_offset"
    OBVIOUS
  <2> HIDE DEF m
  <2>2. Call(c, m) = MoveByOffset(c) /\ Means(m) = <<Move("pointer")>>
    BY <2>1 DEF Call, Means
  <2> QED BY <2>2 DEF m
<1>7. Call(c, <<"release">>) = Release(c) /\ Means(<<"release">>) = <<ButtonUp("left")>>
  <2> DEFINE m == <<"release">>
  <2>1. m[1] = "release"
    OBVIOUS
  <2> HIDE DEF m
  <2>2. Call(c, m) = Release(c) /\ Means(m) = <<ButtonUp("left")>>
    BY <2>1 DEF Call, Means
  <2> QED BY <2>2 DEF m
<1>8. Call(c, <<"drag_and_drop_by_offset">>) = DragAndDropByOffset(c) /\ Means(<<"drag_and_drop_by_offset">>) = <<ButtonDown("left"), Move("pointer")>>
  <2> DEFINE m == <<"drag_and_drop_by_offset">>
  <2>1. m[1] = "drag_and_drop_by_offset"
    OBVIOUS
  <2> HIDE DEF m
  <2>2. Call(c, m) = DragAndDropByOffset(c) /\ Means(m) = <<ButtonDown("left"), Move("pointer")>>
    BY <2>1 DEF Call, Means
  <2> QED BY <2>2 DEF m
<1> QED BY <1>1, <1>2, <1>3, <1>4, <1>5, <1>6, <1>7, <1>8

(* And of those on an element. *)
LEMMA CallOnElement ==
  ASSUME NEW c, NEW e
  PROVE  /\ Call(c, <<"click_element", e>>) = ClickElement(c, e) /\ Means(<<"click_element", e>>) = <<Move(e)>> \o Clicked("left")
         /\ Call(c, <<"click_and_hold_element", e>>) = ClickAndHoldElement(c, e) /\ Means(<<"click_and_hold_element", e>>) = <<Move(e), ButtonDown("left")>>
         /\ Call(c, <<"context_click_element", e>>) = ContextClickElement(c, e) /\ Means(<<"context_click_element", e>>) = <<Move(e)>> \o Clicked("right")
         /\ Call(c, <<"double_click_element", e>>) = DoubleClickElement(c, e) /\ Means(<<"double_click_element", e>>) = <<Move(e)>> \o Clicked("left") \o Clicked("left")
         /\ Call(c, <<"release_on_element", e>>) = ReleaseOnElement(c, e) /\ Means(<<"release_on_element", e>>) = <<Move(e), ButtonUp("left")>>
         /\ Call(c, <<"move_to_element_center", e>>) = MoveToElementCenter(c, e) /\ Means(<<"move_to_element_center", e>>) = <<Move(e)>>
         /\ Call(c, <<"move_to_element_with_offset", e>>) = MoveToElementWithOffset(c, e) /\ Means(<<"move_to_element_with_offset", e>>) = <<Move(e)>>
         /\ Call(c, <<"drag_and_drop_element_by_offset", e>>) = DragAndDropElementByOffset(c, e) /\ Means(<<"drag_and_drop_element_by_offset", e>>) = <<Move(e), ButtonDown("left"), Move("pointer")>>
<1>1. Call(c, <<"click_element", e>>) = ClickElement(c, e) /\ Means(<<"click_element", e>>) = <<Move(e)>> \o Clicked("left")
  <2> DEFINE m == <<"click_element", e>>
  <2>1. m[1] = "click_element" /\ m[2] = e
    OBVIOUS
  <2> HIDE DEF m
  <2>2. Call(c, m) = ClickElement(c, e) /\ Means(m) = <<Move(e)>> \o Clicked("left")
    BY <2>1 DEF Call, Means
  <2> QED BY <2>2 DEF m
<1>2. Call(c, <<"click_and_hold_element", e>>) = ClickAndHoldElement(c, e) /\ Means(<<"click_and_hold_element", e>>) = <<Move(e), ButtonDown("left")>>
  <2> DEFINE m == <<"click_and_hold_element", e>>
  <2>1. m[1] = "click_and_hold_element" /\ m[2] = e
    OBVIOUS
  <2> HIDE DEF m
  <2>2. Call(c, m) = ClickAndHoldElement(c, e) /\ Means(m) = <<Move(e), ButtonDown("left")>>
    BY <2>1 DEF Call, Means
  <2> QED BY <2>2 DEF m
<1>3. Call(c, <<"context_click_element", e>>) = ContextClickElement(c, e) /\ Means(<<"context_click_element", e>>) = <<Move(e)>> \o Clicked("right")
  <2> DEFINE m == <<"context_click_element", e>>
  <2>1. m[1] = "context_click_element" /\ m[2] = e
    OBVIOUS
  <2> HIDE DEF m
  <2>2. Call(c, m) = ContextClickElement(c, e) /\ Means(m) = <<Move(e)>> \o Clicked("right")
    BY <2>1 DEF Call, Means
  <2> QED BY <2>2 DEF m
<1>4. Call(c, <<"double_click_element", e>>) = DoubleClickElement(c, e) /\ Means(<<"double_click_element", e>>) = <<Move(e)>> \o Clicked("left") \o Clicked("left")
  <2> DEFINE m == <<"double_click_element", e>>
  <2>1. m[1] = "double_click_element" /\ m[2] = e
    OBVIOUS
  <2> HIDE DEF m
  <2>2. Call(c, m) = DoubleClickElement(c, e) /\ Means(m) = <<Move(e)>> \o Clicked("left") \o Clicked("left")
    BY <2>1 DEF Call, Means
  <2> QED BY <2>2 DEF m
<1>5. Call(c, <<"release_on_element", e>>) = ReleaseOnElement(c, e) /\ Means(<<"release_on_element", e>>) = <<Move(e), ButtonUp("left")>>
  <2> DEFINE m == <<"release_on_element", e>>
  <2>1. m[1] = "release_on_element" /\ m[2] = e
    OBVIOUS
  <2> HIDE DEF m
  <2>2. Call(c, m) = ReleaseOnElement(c, e) /\ Means(m) = <<Move(e), ButtonUp("left")>>
    BY <2>1 DEF Call, Means
  <2> QED BY <2>2 DEF m
<1>6. Call(c, <<"move_to_element_center", e>>) = MoveToElementCenter(c, e) /\ Means(<<"move_to_element_center", e>>) = <<Move(e)>>
  <2> DEFINE m == <<"move_to_element_center", e>>
  <2>1. m[1] = "move_to_element_center" /\ m[2] = e
    OBVIOUS
  <2> HIDE DEF m
  <2>2. Call(c, m) = MoveToElementCenter(c, e) /\ Means(m) = <<Move(e)>>
    BY <2>1 DEF Call, Means
  <2> QED BY <2>2 DEF m
<1>7. Call(c, <<"move_to_element_with_offset", e>>) = MoveToElementWithOffset(c, e) /\ Means(<<"move_to_element_with_offset", e>>) = <<Move(e)>>
  <2> DEFINE m == <<"move_to_element_with_offset", e>>
  <2>1. m[1] = "move_to_element_with_offset" /\ m[2] = e
    OBVIOUS
  <2> HIDE DEF m
  <2>2. Call(c, m) = MoveToElementWithOffset(c, e) /\ Means(m) = <<Move(e)>>
    BY <2>1 DEF Call, Means
  <2> QED BY <2>2 DEF m
<1>8. Call(c, <<"drag_and_drop_element_by_offset", e>>) = DragAndDropElementByOffset(c, e) /\ Means(<<"drag_and_drop_element_by_offset", e>>) = <<Move(e), ButtonDown("left"), Move("pointer")>>
  <2> DEFINE m == <<"drag_and_drop_element_by_offset", e>>
  <2>1. m[1] = "drag_and_drop_element_by_offset" /\ m[2] = e
    OBVIOUS
  <2> HIDE DEF m
  <2>2. Call(c, m) = DragAndDropElementByOffset(c, e) /\ Means(m) = <<Move(e), ButtonDown("left"), Move("pointer")>>
    BY <2>1 DEF Call, Means
  <2> QED BY <2>2 DEF m
<1> QED BY <1>1, <1>2, <1>3, <1>4, <1>5, <1>6, <1>7, <1>8

(* Of one on two. *)
LEMMA CallDragged ==
  ASSUME NEW c, NEW e, NEW to
  PROVE  /\ Call(c, <<"drag_and_drop_element", e, to>>) = DragAndDropElement(c, e, to) /\ Means(<<"drag_and_drop_element", e, to>>) = <<Move(e), ButtonDown("left"), Move(to), ButtonUp("left")>>
<1>1. Call(c, <<"drag_and_drop_element", e, to>>) = DragAndDropElement(c, e, to) /\ Means(<<"drag_and_drop_element", e, to>>) = <<Move(e), ButtonDown("left"), Move(to), ButtonUp("left")>>
  <2> DEFINE m == <<"drag_and_drop_element", e, to>>
  <2>1. m[1] = "drag_and_drop_element" /\ m[2] = e /\ m[3] = to
    OBVIOUS
  <2> HIDE DEF m
  <2>2. Call(c, m) = DragAndDropElement(c, e, to) /\ Means(m) = <<Move(e), ButtonDown("left"), Move(to), ButtonUp("left")>>
    BY <2>1 DEF Call, Means
  <2> QED BY <2>2 DEF m
<1> QED BY <1>1

(* Of those with keys. *)
LEMMA CallOfKeys ==
  ASSUME NEW c, NEW k
  PROVE  /\ Call(c, <<"key_down", k>>) = PressKey(c, k) /\ Means(<<"key_down", k>>) = <<KeyDown(k)>>
         /\ Call(c, <<"key_up", k>>) = LiftKey(c, k) /\ Means(<<"key_up", k>>) = <<KeyUp(k)>>
         /\ Call(c, <<"send_keys", k>>) = SendKeys(c, k) /\ Means(<<"send_keys", k>>) = Typed(k)
<1>1. Call(c, <<"key_down", k>>) = PressKey(c, k) /\ Means(<<"key_down", k>>) = <<KeyDown(k)>>
  <2> DEFINE m == <<"key_down", k>>
  <2>1. m[1] = "key_down" /\ m[2] = k
    OBVIOUS
  <2> HIDE DEF m
  <2>2. Call(c, m) = PressKey(c, k) /\ Means(m) = <<KeyDown(k)>>
    BY <2>1 DEF Call, Means
  <2> QED BY <2>2 DEF m
<1>2. Call(c, <<"key_up", k>>) = LiftKey(c, k) /\ Means(<<"key_up", k>>) = <<KeyUp(k)>>
  <2> DEFINE m == <<"key_up", k>>
  <2>1. m[1] = "key_up" /\ m[2] = k
    OBVIOUS
  <2> HIDE DEF m
  <2>2. Call(c, m) = LiftKey(c, k) /\ Means(m) = <<KeyUp(k)>>
    BY <2>1 DEF Call, Means
  <2> QED BY <2>2 DEF m
<1>3. Call(c, <<"send_keys", k>>) = SendKeys(c, k) /\ Means(<<"send_keys", k>>) = Typed(k)
  <2> DEFINE m == <<"send_keys", k>>
  <2>1. m[1] = "send_keys" /\ m[2] = k
    OBVIOUS
  <2> HIDE DEF m
  <2>2. Call(c, m) = SendKeys(c, k) /\ Means(m) = Typed(k)
    BY <2>1 DEF Call, Means
  <2> QED BY <2>2 DEF m
<1> QED BY <1>1, <1>2, <1>3

(* Of those with both. *)
LEMMA CallOfKeysOn ==
  ASSUME NEW c, NEW e, NEW k
  PROVE  /\ Call(c, <<"key_down_on_element", e, k>>) = PressKeyOnElement(c, e, k) /\ Means(<<"key_down_on_element", e, k>>) = <<Move(e)>> \o Clicked("left") \o <<KeyDown(k)>>
         /\ Call(c, <<"key_up_on_element", e, k>>) = LiftKeyOnElement(c, e, k) /\ Means(<<"key_up_on_element", e, k>>) = <<Move(e)>> \o Clicked("left") \o <<KeyUp(k)>>
         /\ Call(c, <<"send_keys_to_element", e, k>>) = SendKeysToElement(c, e, k) /\ Means(<<"send_keys_to_element", e, k>>) = <<Move(e)>> \o Clicked("left") \o Typed(k)
<1>1. Call(c, <<"key_down_on_element", e, k>>) = PressKeyOnElement(c, e, k) /\ Means(<<"key_down_on_element", e, k>>) = <<Move(e)>> \o Clicked("left") \o <<KeyDown(k)>>
  <2> DEFINE m == <<"key_down_on_element", e, k>>
  <2>1. m[1] = "key_down_on_element" /\ m[2] = e /\ m[3] = k
    OBVIOUS
  <2> HIDE DEF m
  <2>2. Call(c, m) = PressKeyOnElement(c, e, k) /\ Means(m) = <<Move(e)>> \o Clicked("left") \o <<KeyDown(k)>>
    BY <2>1 DEF Call, Means
  <2> QED BY <2>2 DEF m
<1>2. Call(c, <<"key_up_on_element", e, k>>) = LiftKeyOnElement(c, e, k) /\ Means(<<"key_up_on_element", e, k>>) = <<Move(e)>> \o Clicked("left") \o <<KeyUp(k)>>
  <2> DEFINE m == <<"key_up_on_element", e, k>>
  <2>1. m[1] = "key_up_on_element" /\ m[2] = e /\ m[3] = k
    OBVIOUS
  <2> HIDE DEF m
  <2>2. Call(c, m) = LiftKeyOnElement(c, e, k) /\ Means(m) = <<Move(e)>> \o Clicked("left") \o <<KeyUp(k)>>
    BY <2>1 DEF Call, Means
  <2> QED BY <2>2 DEF m
<1>3. Call(c, <<"send_keys_to_element", e, k>>) = SendKeysToElement(c, e, k) /\ Means(<<"send_keys_to_element", e, k>>) = <<Move(e)>> \o Clicked("left") \o Typed(k)
  <2> DEFINE m == <<"send_keys_to_element", e, k>>
  <2>1. m[1] = "send_keys_to_element" /\ m[2] = e /\ m[3] = k
    OBVIOUS
  <2> HIDE DEF m
  <2>2. Call(c, m) = SendKeysToElement(c, e, k) /\ Means(m) = <<Move(e)>> \o Clicked("left") \o Typed(k)
    BY <2>1 DEF Call, Means
  <2> QED BY <2>2 DEF m
<1> QED BY <1>1, <1>2, <1>3

(* Each call adds to a chain what it stands for. *)
LEMMA CallGives == ASSUME NEW c \in InStep, NEW m \in Methods PROVE Gives(c, Call(c, m), Means(m))
<1>0. Source \in {Source, Target} /\ Target \in {Source, Target}
  OBVIOUS
<1>1. CASE m \in {<<n>> : n \in {"click", "click_and_hold", "context_click", "double_click", "move_to",
                                 "move_by_offset", "release", "drag_and_drop_by_offset"}}
  BY <1>0, <1>1, CallPlain, GivesPlain, GivesDragged
<1>2. ASSUME NEW e \in {Source, Target},
             m \in {<<n, e>> : n \in {"click_element", "click_and_hold_element", "context_click_element",
                                    "double_click_element", "release_on_element", "move_to_element_center",
                                    "move_to_element_with_offset", "drag_and_drop_element_by_offset"}}
      PROVE  Gives(c, Call(c, m), Means(m))
  <2>1. CASE m = <<"click_element", e>>
    BY <2>1, CallOnElement, GivesOnElement
  <2>2. CASE m = <<"click_and_hold_element", e>>
    BY <2>2, CallOnElement, GivesOnElement
  <2>3. CASE m = <<"context_click_element", e>>
    BY <2>3, CallOnElement, GivesOnElement
  <2>4. CASE m = <<"double_click_element", e>>
    BY <2>4, CallOnElement, GivesOnElement
  <2>5. CASE m = <<"release_on_element", e>>
    BY <2>5, CallOnElement, GivesOnElement
  <2>6. CASE m = <<"move_to_element_center", e>>
    BY <2>6, CallOnElement, GivesMove
  <2>7. CASE m = <<"move_to_element_with_offset", e>>
    BY <2>7, CallOnElement, GivesMove
  <2>8. CASE m = <<"drag_and_drop_element_by_offset", e>>
    BY <2>8, CallOnElement, GivesDragged
  <2> QED BY <1>2, <2>1, <2>2, <2>3, <2>4, <2>5, <2>6, <2>7, <2>8
<1>3. CASE m = <<"drag_and_drop_element", Source, Target>>
  BY <1>0, <1>3, CallDragged, GivesDragged
<1>4. ASSUME NEW k \in Chars, m = <<"key_down", k>> \/ m = <<"key_up", k>> PROVE Gives(c, Call(c, m), Means(m))
  BY <1>4, CallOfKeys, GivesKeys
<1>5. ASSUME NEW e \in {Source, Target}, NEW k \in Chars,
             m = <<"key_down_on_element", e, k>> \/ m = <<"key_up_on_element", e, k>>
      PROVE  Gives(c, Call(c, m), Means(m))
  <2>1. CASE m = <<"key_down_on_element", e, k>>
    <3>1. Call(c, m) = PressKeyOnElement(c, e, k) /\ Means(m) = <<Move(e)>> \o Clicked("left") \o <<KeyDown(k)>>
      BY <2>1, CallOfKeysOn, Zenon
    <3> QED BY <3>1, GivesTypedOn
  <2>2. CASE m = <<"key_up_on_element", e, k>>
    <3>1. Call(c, m) = LiftKeyOnElement(c, e, k) /\ Means(m) = <<Move(e)>> \o Clicked("left") \o <<KeyUp(k)>>
      BY <2>2, CallOfKeysOn, Zenon
    <3> QED BY <3>1, GivesTypedOn
  <2> QED BY <1>5, <2>1, <2>2
<1>6. ASSUME NEW k \in Chars, NEW l \in Chars, m = <<"send_keys", <<k, l>>>> PROVE Gives(c, Call(c, m), Means(m))
  <2>1. <<k, l>> \in Seq(Chars)
    OBVIOUS
  <2> QED BY <1>6, <2>1, CallOfKeys, GivesTyped
<1>7. ASSUME NEW e \in {Source, Target}, NEW s \in Seq(Chars), m = <<"send_keys_to_element", e, s>>
      PROVE  Gives(c, Call(c, m), Means(m))
  <2>1. Call(c, m) = SendKeysToElement(c, e, s) /\ Means(m) = <<Move(e)>> \o Clicked("left") \o Typed(s)
    BY <1>7, CallOfKeysOn, Zenon
  <2> QED BY <2>1, GivesTypedOn
<1>8. ASSUME NEW k \in Chars PROVE <<k>> \in Seq(Chars)
  OBVIOUS
<1>9. CASE m \in {<<n, Source>> : n \in {"click_element", "click_and_hold_element", "context_click_element",
                                         "double_click_element", "release_on_element", "move_to_element_center",
                                         "move_to_element_with_offset", "drag_and_drop_element_by_offset"}}
  BY <1>0, <1>2, <1>9
<1>10. CASE m \in {<<n, k>> : n \in {"key_down", "key_up"}, k \in Chars}
  BY <1>4, <1>10
<1>11. CASE m \in {<<n, Source, k>> : n \in {"key_down_on_element", "key_up_on_element"}, k \in Chars}
  BY <1>0, <1>5, <1>11
<1>12. CASE m \in {<<"send_keys", <<k, l>>>> : k \in Chars, l \in Chars}
  BY <1>6, <1>12
<1>13. CASE m \in {<<"send_keys_to_element", Source, <<k>>>> : k \in Chars}
  BY <1>0, <1>7, <1>8, <1>13
<1> QED BY <1>1, <1>3, <1>9, <1>10, <1>11, <1>12, <1>13 DEF Methods

-----------------------------------------------------------------------------
(* What the calls of a script stand for, one after the other. *)
Spelled(s) == FlattenSeq([i \in DOMAIN s |-> Means(s[i])])

(* What a method means is a sequence of actions. *)
LEMMA MeansOK == ASSUME NEW m \in Methods PROVE Means(m) \in Seq(Acts)
<1>1. New \in InStep
  BY DEF New, InStep
<1> QED BY <1>1, CallGives DEF Gives

(* A script of no methods spells nothing. *)
LEMMA SpelledNone == Spelled(<<>>) = <<>>
BY DEF Spelled, FlattenSeq

(* A method more in a script spells what it means at the end. *)
LEMMA SpelledAppend ==
  ASSUME NEW s \in Seq(Methods), NEW m \in Methods
  PROVE  Spelled(Append(s, m)) = Spelled(s) \o Means(m) /\ Spelled(s) \in Seq(Acts)
<1> DEFINE n == Len(s)
           w == [i \in DOMAIN s |-> Means(s[i])]
           v == [i \in DOMAIN Append(s, m) |-> Means(Append(s, m)[i])]
<1>1. n \in Nat /\ DOMAIN s = 1 .. n /\ \A i \in 1 .. n : s[i] \in Methods
  OBVIOUS
<1>2. DOMAIN Append(s, m) = 1 .. n + 1 /\ Append(s, m)[n + 1] = m /\ \A i \in 1 .. n : Append(s, m)[i] = s[i]
  OBVIOUS
<1>3. w \in Seq(Seq(Acts)) /\ Len(w) = n /\ \A i \in 1 .. n : w[i] = Means(s[i])
  <2>1. w \in [1 .. n -> Seq(Acts)]
    BY <1>1, MeansOK
  <2> QED BY <1>1, <2>1
<1>4. Means(m) \in Seq(Acts)
  BY MeansOK
<1>5. \A i \in 1 .. n + 1 : v[i] = Append(w, Means(m))[i]
  <2> SUFFICES ASSUME NEW i \in 1 .. n + 1 PROVE v[i] = Append(w, Means(m))[i]
    OBVIOUS
  <2>1. v[i] = Means(Append(s, m)[i])
    BY <1>2
  <2> HIDE DEF v, w, n
  <2>2. CASE i = n + 1
    BY <1>2, <1>3, <1>4, <2>1, <2>2
  <2>3. CASE i # n + 1
    <3>1. i \in 1 .. n
      BY <1>1, <2>3
    <3>2. Append(w, Means(m))[i] = w[i]
      BY <1>3, <1>4, <3>1
    <3> QED BY <1>2, <1>3, <2>1, <3>1, <3>2
  <2> QED BY <2>2, <2>3
<1>6. v = [i \in 1 .. n + 1 |-> v[i]]
  BY <1>2
<1> HIDE DEF v, w, n
<1>7. Append(w, Means(m)) = [i \in 1 .. n + 1 |-> Append(w, Means(m))[i]]
  <2> DEFINE q == Append(w, Means(m))
  <2>1. q \in Seq(Seq(Acts)) /\ Len(q) = n + 1
    BY <1>1, <1>3, <1>4
  <2> HIDE DEF q
  <2>2. q = [i \in 1 .. n + 1 |-> q[i]]
    BY <2>1
  <2> QED BY <2>2 DEF q
<1>8. v = Append(w, Means(m))
  BY <1>5, <1>6, <1>7
<1>9. FlattenSeq(Append(w, Means(m))) = FlattenSeq(w) \o Means(m) /\ FlattenSeq(w) \in Seq(Acts)
  BY <1>3, <1>4, FlattenAppend
<1> QED BY <1>8, <1>9 DEF Spelled, v, w

(* What a script spells is a sequence of actions. *)
LEMMA SpelledOK == ASSUME NEW s \in Seq(Methods) PROVE Spelled(s) \in Seq(Acts)
<1>1. <<"click">> \in Methods
  BY DEF Methods
<1> QED BY <1>1, SpelledAppend

(* A new chain performs nothing. *)
LEMMA NothingPerformed == New \in InStep /\ Performed(New) = <<>>
<1>1. New \in InStep
  BY DEF New, InStep
<1>2. Longer(New) = 0
  BY DEF New, Longer
<1> QED BY <1>1, <1>2 DEF Performed, FlattenSeq

(* The first of some numbers, if any. *)
LEMMA FirstOf == ASSUME NEW n \in Nat, NEW T \in SUBSET (1 .. n) PROVE (IF T # {} THEN Min(T) ELSE 0) \in 0 .. n
<1>1. CASE T # {}
  <2>1. T \in SUBSET Nat
    OBVIOUS
  <2>2. \E k \in T : \A m \in T : k <= m
    BY <1>1, <2>1, LeastOK
  <2>3. Min(T) \in T
    BY <2>2 DEF Min
  <2>4. Min(T) \in 1 .. n
    BY <2>3
  <2> HIDE DEF Min
  <2> QED BY <1>1, <2>4
<1> QED BY <1>1

-----------------------------------------------------------------------------
(* What perform() answers. *)
ChainAnswers == [result : {"none", "ok", "error"}, done : Seq(Acts)]

AnswerFits(t) == IsPrefix(answer[t].done, Spelled(script[t])) /\ (answer[t].result = "ok" => answer[t].done = Spelled(script[t]))

ChainTypes ==
  /\ chain \in [Tasks -> InStep]
  /\ script \in [Tasks -> Seq(Methods)] /\ \A t \in Tasks : Len(script[t]) \in 0 .. MaxCalls
  /\ DOMAIN found = Tasks
  /\ answer \in [Tasks -> ChainAnswers]
  /\ held \subseteq Chars \cup {"left", "right"}

ChainInv ==
  \A t \in Tasks : Performed(chain[t]) = Spelled(script[t]) /\ (pc[t] = "performed" => AnswerFits(t))

-----------------------------------------------------------------------------
(* A part from the start on, and all of it. *)
LEMMA PartIsPrefix ==
  ASSUME NEW s \in Seq(Acts), NEW n \in 0 .. Len(s)
  PROVE  SubSeq(s, 1, n) \in Seq(Acts) /\ IsPrefix(SubSeq(s, 1, n), s) /\ IsPrefix(s, s)
<1> DEFINE N == Len(s)
           p == SubSeq(s, 1, n)
<1>0. N \in Nat /\ n \in Nat /\ n <= N /\ \A i \in 1 .. N : s[i] \in Acts
  OBVIOUS
<1>1. p \in Seq(Acts) /\ Len(p) = n
  BY <1>0
<1>2. SubSeq(p, 1, n) = p
  BY <1>0
<1>3. SubSeq(s, 1, Len(s)) = SubSeq(s, 1, Len(s))
  OBVIOUS
<1> QED BY <1>0, <1>1, <1>2 DEF IsPrefix

(* What perform() answers fits the script. *)
LEMMA PerformFits ==
  ASSUME ChainTypes, ChainInv, NEW t \in Tasks, Perform(t)
  PROVE  /\ answer' \in [Tasks -> ChainAnswers] /\ AnswerFits(t)' /\ held' \subseteq Chars \cup {"left", "right"}
         /\ \A s \in Tasks \ {t} : answer'[s] = answer[s]
<1> DEFINE all == Performed(chain[t])
           T == {i \in 1 .. Len(all) : all[i][1] = "move" /\ all[i][2] \in {Source, Target} /\ found[t] # Here}
           stop == IF ~Live THEN 1 ELSE IF T # {} THEN Min(T) ELSE 0
           done == IF stop = 0 THEN all ELSE SubSeq(all, 1, stop - 1)
<1>1. /\ answer' = [answer EXCEPT ![t] = [result |-> IF stop = 0 THEN "ok" ELSE "error", done |-> done]]
      /\ held' = Holding(held, done) /\ script' = script
  BY DEF Perform, SelectInSeq
<1>2. all \in Seq(Acts) /\ all = Spelled(script[t])
  <2>1. chain[t] \in InStep
    BY DEF ChainTypes
  <2> QED BY <2>1, PerformedOK DEF ChainInv
<1> HIDE DEF all
<1>3. Len(all) \in Nat
  BY <1>2
<1>4. (IF T # {} THEN Min(T) ELSE 0) \in 0 .. Len(all)
  <2>1. T \in SUBSET (1 .. Len(all))
    OBVIOUS
  <2> HIDE DEF T
  <2> QED BY <1>3, <2>1, FirstOf
<1> HIDE DEF T
<1>5. stop = 0 \/ stop - 1 \in 0 .. Len(all)
  BY <1>3, <1>4
<1> HIDE DEF stop
<1>6. done \in Seq(Acts) /\ IsPrefix(done, all) /\ (stop = 0 => done = all)
  <2>1. CASE stop = 0
    <3>1. 0 \in 0 .. Len(all)
      BY <1>3
    <3> QED BY <1>2, <2>1, <3>1, PartIsPrefix
  <2>2. CASE stop # 0
    BY <1>2, <1>5, <2>2, PartIsPrefix
  <2> QED BY <2>1, <2>2
<1> HIDE DEF done
<1>7. [result |-> IF stop = 0 THEN "ok" ELSE "error", done |-> done] \in ChainAnswers
  BY <1>6 DEF ChainAnswers
<1>8. answer' \in [Tasks -> ChainAnswers]
  BY <1>1, <1>7 DEF ChainTypes
<1>9. answer'[t].done = done /\ (answer'[t].result = "ok" => stop = 0)
  BY <1>1 DEF ChainTypes
<1>10. AnswerFits(t)'
  BY <1>1, <1>2, <1>6, <1>9 DEF AnswerFits
<1>11. held' \subseteq Chars \cup {"left", "right"}
  BY <1>1 DEF Holding
<1> QED BY <1>1, <1>8, <1>10, <1>11 DEF ChainTypes

(* A step that is none of the chain's. *)
Apart == UNCHANGED input /\ \A s \in Tasks : pc'[s] = "performed" => pc[s] = "performed"

(* A step that is none of a chain keeps the invariant of the chains. *)
LEMMA ApartKeeps == ASSUME ChainTypes, ChainInv, Apart PROVE ChainTypes' /\ ChainInv'
<1>1. UNCHANGED <<chain, script, found, answer, held>>
  BY DEF Apart, input
<1>2. \A t \in Tasks : AnswerFits(t) => AnswerFits(t)'
  BY <1>1 DEF AnswerFits
<1> QED BY <1>1, <1>2 DEF Apart, ChainTypes, ChainInv

(* Every step keeps the invariant of the chains. *)
LEMMA ChainStep ==
  ASSUME LocalTypes, ChainTypes, ChainInv, [BrowserNext]_stateVars PROVE ChainTypes' /\ ChainInv'
<1>1. ASSUME NEW t \in Tasks, Chain(t) PROVE ChainTypes' /\ ChainInv'
  <2>1. CASE ChainBegin(t)
    <3>1. UNCHANGED <<chain, script, answer, held>> /\ DOMAIN found' = DOMAIN found
      BY <2>1 DEF ChainBegin
    <3>2. \A s \in Tasks : pc'[s] = "performed" => pc[s] = "performed"
      BY <2>1 DEF ChainBegin, Step, LocalTypes
    <3>3. \A s \in Tasks : AnswerFits(s) => AnswerFits(s)'
      BY <3>1 DEF AnswerFits
    <3> QED BY <3>1, <3>2, <3>3 DEF ChainTypes, ChainInv
  <2>2. CASE ChainCall(t)
    <3>1. PICK m \in Methods : chain' = [chain EXCEPT ![t] = Call(@, m)] /\ script' = [script EXCEPT ![t] = Append(@, m)]
      BY <2>2 DEF ChainCall
    <3>2. /\ pc[t] = "chain" /\ Len(script[t]) < MaxCalls /\ pc' = pc
          /\ UNCHANGED <<answer, held, found>>
      BY <2>2 DEF ChainCall, local
    <3>3. chain[t] \in InStep /\ script[t] \in Seq(Methods) /\ Len(script[t]) \in 0 .. MaxCalls
      BY DEF ChainTypes
    <3>4. Gives(chain[t], Call(chain[t], m), Means(m))
      BY <3>3, CallGives
    <3>5. Spelled(Append(script[t], m)) = Spelled(script[t]) \o Means(m)
      BY <3>3, SpelledAppend
    <3>6. chain'[t] = Call(chain[t], m) /\ script'[t] = Append(script[t], m)
      BY <3>1 DEF ChainTypes
    <3>7. \A s \in Tasks \ {t} : chain'[s] = chain[s] /\ script'[s] = script[s]
      BY <3>1 DEF ChainTypes
    <3>8. Call(chain[t], m) \in InStep /\ Performed(Call(chain[t], m)) = Performed(chain[t]) \o Means(m)
      BY <3>4 DEF Gives, Adds
    <3>9. Append(script[t], m) \in Seq(Methods) /\ Len(Append(script[t], m)) = Len(script[t]) + 1
      BY <3>3
    <3>10. Len(Append(script[t], m)) \in 0 .. MaxCalls
      BY <3>2, <3>3, <3>9, BrowserAssumption
    <3>11. ChainTypes'
      <4>1. chain' \in [Tasks -> InStep]
        BY <3>1, <3>8 DEF ChainTypes
      <4>2. script' \in [Tasks -> Seq(Methods)]
        BY <3>1, <3>9 DEF ChainTypes
      <4>3. \A s \in Tasks : Len(script'[s]) \in 0 .. MaxCalls
        BY <3>6, <3>7, <3>10 DEF ChainTypes
      <4> QED BY <3>2, <4>1, <4>2, <4>3 DEF ChainTypes
    <3>12. ASSUME NEW s \in Tasks
           PROVE Performed(chain'[s]) = Spelled(script'[s]) /\ (pc'[s] = "performed" => AnswerFits(s)')
      <4>1. CASE s = t
        BY <3>2, <3>5, <3>6, <3>8, <4>1 DEF ChainInv
      <4>2. CASE s # t
        <5>1. chain'[s] = chain[s] /\ script'[s] = script[s] /\ answer'[s] = answer[s] /\ pc'[s] = pc[s]
          BY <3>2, <3>7, <4>2
        <5> QED BY <5>1 DEF ChainInv, AnswerFits
      <4> QED BY <4>1, <4>2
    <3> QED BY <3>11, <3>12 DEF ChainInv
  <2>3. CASE Perform(t)
    <3>1. UNCHANGED <<chain, script, found>> /\ \A s \in Tasks \ {t} : pc'[s] = pc[s]
      BY <2>3 DEF Perform, LocalTypes
    <3>2. ChainTypes'
      BY <2>3, <3>1, PerformFits DEF ChainTypes
    <3>3. ASSUME NEW s \in Tasks, pc'[s] = "performed" PROVE AnswerFits(s)'
      <4>1. CASE s = t
        BY <2>3, <4>1, PerformFits
      <4>2. CASE s # t
        <5>1. answer'[s] = answer[s] /\ script'[s] = script[s] /\ pc'[s] = pc[s]
          BY <2>3, <3>1, <4>2, PerformFits
        <5> QED BY <3>3, <5>1 DEF ChainInv, AnswerFits
      <4> QED BY <4>1, <4>2
    <3> QED BY <3>1, <3>2, <3>3 DEF ChainInv
  <2>4. CASE Reset(t)
    <3>1. UNCHANGED <<chain, script, found, answer, pc>> /\ held' = {}
      BY <2>4 DEF Reset, local
    <3>2. \A s \in Tasks : AnswerFits(s) => AnswerFits(s)'
      BY <3>1 DEF AnswerFits
    <3> QED BY <3>1, <3>2 DEF ChainTypes, ChainInv
  <2>5. CASE ChainEnd(t)
    <3>1. /\ chain' = [chain EXCEPT ![t] = New] /\ script' = [script EXCEPT ![t] = <<>>]
          /\ found' = [found EXCEPT ![t] = <<>>] /\ answer' = [answer EXCEPT ![t] = Silent] /\ held' = held
      BY <2>5 DEF ChainEnd
    <3>2. pc'[t] = "idle" /\ \A s \in Tasks \ {t} : pc'[s] = pc[s]
      BY <2>5 DEF ChainEnd, End, LocalTypes
    <3>3. <<>> \in Seq(Methods) /\ Len(<<>>) \in 0 .. MaxCalls /\ Silent \in ChainAnswers
      BY BrowserAssumption DEF Silent, ChainAnswers
    <3>4. ChainTypes'
      <4>1. chain' \in [Tasks -> InStep]
        BY <3>1, NothingPerformed DEF ChainTypes
      <4>2. script' \in [Tasks -> Seq(Methods)] /\ answer' \in [Tasks -> ChainAnswers] /\ DOMAIN found' = Tasks
        BY <3>1, <3>3 DEF ChainTypes
      <4>3. \A s \in Tasks : Len(script'[s]) \in 0 .. MaxCalls
        BY <3>1, <3>3 DEF ChainTypes
      <4> QED BY <3>1, <4>1, <4>2, <4>3 DEF ChainTypes
    <3>5. ASSUME NEW s \in Tasks
          PROVE Performed(chain'[s]) = Spelled(script'[s]) /\ (pc'[s] = "performed" => AnswerFits(s)')
      <4>1. CASE s = t
        <5>1. chain'[s] = New /\ script'[s] = <<>>
          BY <3>1, <4>1 DEF ChainTypes
        <5> QED BY <3>2, <4>1, <5>1, NothingPerformed, SpelledNone
      <4>2. CASE s # t
        <5>1. chain'[s] = chain[s] /\ script'[s] = script[s] /\ answer'[s] = answer[s] /\ pc'[s] = pc[s]
          BY <3>1, <3>2, <4>2 DEF ChainTypes
        <5> QED BY <5>1 DEF ChainInv, AnswerFits
      <4> QED BY <4>1, <4>2
    <3> QED BY <3>4, <3>5 DEF ChainInv
  <2> QED BY <1>1, <2>1, <2>2, <2>3, <2>4, <2>5 DEF Chain
<1>2. ASSUME NEW t \in Tasks, Method(t) PROVE Apart
  BY <1>2 DEF Apart, LocalTypes, Method, TabBegin, TabOpen, TabEnter, TabBody, TabClose, TabBack, NamedBegin, NamedList,
              NamedVisit, NamedAsk, NamedBack, Fail, Abandon, Step, End, rest
<1>3. ASSUME NEW t \in Tasks, Pick(t) PROVE Apart
  <2>1. ASSUME NEW from, NEW to, to # "performed", NEW p, Goes(t, from, to, p) PROVE Apart
    BY <2>1 DEF Goes, Apart, Step, LocalTypes
  <2>2. ASSUME NEW from, NEW hit, Advance(t, from, hit) PROVE Apart
    BY <2>1, <2>2, Zenon DEF Advance
  <2>3. CASE PickFind(t) \/ PickCandidates(t) \/ PickShows(t) \/ PickLook(t) \/ PickClick(t)
    BY <2>1, <2>2, <2>3 DEF PickFind, PickCandidates, PickShows, PickLook, PickClick
  <2>4. CASE PickBegin(t) \/ PickEnd(t)
    BY <2>4 DEF PickBegin, PickEnd, Step, End, Apart, LocalTypes
  <2> QED BY <1>3, <2>3, <2>4 DEF Pick
<1>4. Other \/ (\E t \in Tasks : Navigate(t) \/ Context(t) \/ Settle(t)) \/ UNCHANGED stateVars => Apart
  BY DEF Apart, Other, Navigate, Context, Settle, stateVars, rest, local
<1> QED BY <1>1, <1>2, <1>3, <1>4, ApartKeeps DEF BrowserNext

-----------------------------------------------------------------------------
(* What goes down comes up again. *)
LetsGo(s) ==
  \A i \in 1 .. Len(s) : s[i][1] \in {"down", "keyDown"} =>
     \E j \in i + 1 .. Len(s) : s[j][2] = s[i][2] /\ s[j][1] \in {"up", "keyUp"}

(* Then nothing is held that was not before. *)
LEMMA NothingMore == ASSUME NEW h, NEW s \in Seq(Acts), LetsGo(s) PROVE Holding(h, s) \subseteq h
<1> SUFFICES ASSUME NEW x \in Holding(h, s) PROVE x \in h
  OBVIOUS
<1> DEFINE I == {i \in 1 .. Len(s) : s[i][1] \in {"down", "up", "keyDown", "keyUp"} /\ s[i][2] = x}
           last == IF I # {} THEN Max(I) ELSE 0
<1>0. Len(s) \in Nat
  OBVIOUS
<1>1. IF last = 0 THEN x \in h ELSE s[last][1] \in {"down", "keyDown"}
  BY DEF Holding, SelectLastInSeq
<1>2. CASE I = {}
  BY <1>1, <1>2
<1>3. CASE I # {}
  <2>1. I \in SUBSET (1 .. Len(s))
    OBVIOUS
  <2>2. Max(I) \in I /\ \A j \in I : j <= Max(I)
    <3> HIDE DEF I
    <3> QED BY <1>0, <1>3, <2>1, MaxOK
  <2> DEFINE n == Max(I)
  <2>3. n \in 1 .. Len(s) /\ s[n][2] = x /\ n \in I /\ \A j \in I : j <= n
    BY <2>2
  <2>4. last = n
    BY <1>3
  <2> HIDE DEF n
  <2>5. s[n][1] \in {"down", "keyDown"}
    BY <1>1, <2>3, <2>4
  <2>6. PICK j \in n + 1 .. Len(s) : s[j][2] = s[n][2] /\ s[j][1] \in {"up", "keyUp"}
    BY <2>3, <2>5 DEF LetsGo
  <2>7. j \in 1 .. Len(s) /\ ~(j <= n)
    BY <1>0, <2>3, <2>6
  <2>8. j \in I
    BY <2>3, <2>6, <2>7
  <2> QED BY <2>3, <2>7, <2>8
<1> QED BY <1>2, <1>3

(* Two sequences that let go make one that does. *)
LEMMA LetsGoThen == ASSUME NEW s \in Seq(Acts), NEW r \in Seq(Acts), LetsGo(s), LetsGo(r) PROVE LetsGo(s \o r)
<1> DEFINE p == s \o r
           M == Len(s)
           N == Len(r)
<1>1. /\ M \in Nat /\ N \in Nat /\ Len(p) = M + N
      /\ \A i \in 1 .. M : p[i] = s[i]
      /\ \A i \in 1 .. N : p[M + i] = r[i]
  OBVIOUS
<1>2. ASSUME NEW i \in 1 .. M, s[i][1] \in {"down", "keyDown"}
      PROVE  \E j \in i + 1 .. M : s[j][2] = s[i][2] /\ s[j][1] \in {"up", "keyUp"}
  BY <1>2 DEF LetsGo
<1>3. ASSUME NEW i \in 1 .. N, r[i][1] \in {"down", "keyDown"}
      PROVE  \E j \in i + 1 .. N : r[j][2] = r[i][2] /\ r[j][1] \in {"up", "keyUp"}
  BY <1>3 DEF LetsGo
<1> HIDE DEF p, M, N
<1> SUFFICES ASSUME NEW i \in 1 .. Len(p), p[i][1] \in {"down", "keyDown"}
             PROVE  \E j \in i + 1 .. Len(p) : p[j][2] = p[i][2] /\ p[j][1] \in {"up", "keyUp"}
  BY DEF LetsGo, p
<1>4. CASE i \in 1 .. M
  <2>1. p[i] = s[i]
    BY <1>1, <1>4
  <2>2. PICK j \in i + 1 .. M : s[j][2] = s[i][2] /\ s[j][1] \in {"up", "keyUp"}
    BY <1>2, <1>4, <2>1
  <2>3. j \in 1 .. M /\ j \in i + 1 .. Len(p)
    BY <1>1, <1>4, <2>2
  <2>4. p[j] = s[j]
    BY <1>1, <2>3
  <2> QED BY <2>1, <2>2, <2>3, <2>4
<1>5. CASE i \notin 1 .. M
  <2>1. PICK k \in 1 .. N : i = M + k
    BY <1>1, <1>5
  <2>2. p[i] = r[k]
    BY <1>1, <2>1
  <2>3. PICK j \in k + 1 .. N : r[j][2] = r[k][2] /\ r[j][1] \in {"up", "keyUp"}
    BY <1>3, <2>2
  <2>4. j \in 1 .. N /\ M + j \in i + 1 .. Len(p)
    BY <1>1, <2>1, <2>3
  <2>5. p[M + j] = r[j]
    BY <1>1, <2>4
  <2> QED BY <2>2, <2>3, <2>4, <2>5
<1> QED BY <1>4, <1>5

(* And so do any number of them. *)
LEMMA LetsGoAll ==
  ASSUME NEW w \in Seq(Seq(Acts)), \A i \in 1 .. Len(w) : LetsGo(w[i]) PROVE LetsGo(FlattenSeq(w))
<1> DEFINE N == Len(w)
<1>0. N \in Nat /\ \A i \in 1 .. N : w[i] \in Seq(Acts) /\ LetsGo(w[i])
  OBVIOUS
<1> HIDE DEF N
<1>1. PICK f : Flattens(f, w, N, Acts)
  BY <1>0, FlattensExist DEF N
<1>2. FlattenSeq(w) = IF N = 0 THEN <<>> ELSE f[N]
  BY <1>1, FlattenIs DEF N
<1> DEFINE S == {n \in Nat : n \in 1 .. N => LetsGo(f[n])}
<1>3. 0 \in S
  OBVIOUS
<1>4. ASSUME NEW n \in Nat, n \in S PROVE n + 1 \in S
  <2> SUFFICES ASSUME n + 1 \in 1 .. N PROVE LetsGo(f[n + 1])
    OBVIOUS
  <2>1. f[n + 1] = IF n + 1 = 1 THEN w[n + 1] ELSE f[(n + 1) - 1] \o w[n + 1]
    BY <1>1 DEF Flattens
  <2>2. CASE n = 0
    BY <1>0, <2>1, <2>2
  <2>3. CASE n # 0
    <3>1. n \in 1 .. N /\ n + 1 # 1 /\ (n + 1) - 1 = n
      BY <1>0, <2>3
    <3>2. f[n] \in Seq(Acts) /\ LetsGo(f[n])
      BY <1>1, <1>4, <3>1 DEF Flattens
    <3>3. f[n + 1] = f[n] \o w[n + 1]
      BY <2>1, <3>1
    <3> QED BY <1>0, <3>2, <3>3, LetsGoThen
  <2> QED BY <2>2, <2>3
<1>5. Nat \subseteq S
  <2> HIDE DEF S
  <2> QED BY <1>3, <1>4, AllNumbers
<1>6. CASE N = 0
  BY <1>2, <1>6 DEF LetsGo
<1>7. CASE N # 0
  <2>1. N \in 1 .. N
    BY <1>0, <1>7
  <2> QED BY <1>0, <1>2, <1>5, <1>7, <2>1
<1> QED BY <1>6, <1>7

-----------------------------------------------------------------------------
(* A click lets go. *)
LEMMA ClickedLetsGo == LetsGo(Clicked("left")) /\ LetsGo(Clicked("right"))
<1>1. ASSUME NEW b PROVE LetsGo(Clicked(b))
  <2>1. Len(Clicked(b)) = 2 /\ Clicked(b)[1] = <<"down", b>> /\ Clicked(b)[2] = <<"up", b>>
    BY DEF Clicked, ButtonDown, ButtonUp
  <2>2. \A i \in 1 .. 2 : i = 1 \/ i = 2
    OBVIOUS
  <2>3. 2 \in 1 + 1 .. 2
    OBVIOUS
  <2> QED BY <2>1, <2>2, <2>3 DEF LetsGo
<1> QED BY <1>1

(* A move holds nothing. *)
LEMMA MoveLetsGo == ASSUME NEW o PROVE LetsGo(<<Move(o)>>)
<1>1. Len(<<Move(o)>>) = 1 /\ <<Move(o)>>[1] = <<"move", o>>
  BY DEF Move
<1>2. \A i \in 1 .. 1 : i = 1
  OBVIOUS
<1> QED BY <1>1, <1>2 DEF LetsGo

(* A stroke lets go. *)
LEMMA StrokesLetGo == ASSUME NEW k PROVE LetsGo(Strokes(k))
<1>1. Len(Strokes(k)) = 2 /\ Strokes(k)[1] = <<"keyDown", k>> /\ Strokes(k)[2] = <<"keyUp", k>>
  BY DEF Strokes, KeyDown, KeyUp
<1>2. \A i \in 1 .. 2 : i = 1 \/ i = 2
  OBVIOUS
<1>3. 2 \in 1 + 1 .. 2
  OBVIOUS
<1> QED BY <1>1, <1>2, <1>3 DEF LetsGo

(* A drag and drop lets go. *)
LEMMA DragLetsGo == ASSUME NEW e, NEW to PROVE LetsGo(<<Move(e), ButtonDown("left"), Move(to), ButtonUp("left")>>)
<1> DEFINE s == <<Move(e), ButtonDown("left"), Move(to), ButtonUp("left")>>
<1>1. Len(s) = 4 /\ s[1] = <<"move", e>> /\ s[2] = <<"down", "left">> /\ s[3] = <<"move", to>> /\ s[4] = <<"up", "left">>
  BY DEF Move, ButtonDown, ButtonUp
<1> HIDE DEF s
<1>2. \A i \in 1 .. 4 : i = 1 \/ i = 2 \/ i = 3 \/ i = 4
  OBVIOUS
<1>3. 4 \in 2 + 1 .. 4
  OBVIOUS
<1>4. LetsGo(s)
  BY <1>1, <1>2, <1>3 DEF LetsGo
<1> QED BY <1>4 DEF s

(* Typing lets go. *)
LEMMA TypedLetsGo == ASSUME NEW s \in Seq(Chars) PROVE LetsGo(Typed(s))
<1> DEFINE w == [i \in DOMAIN s |-> Strokes(s[i])]
<1>0. Len(s) \in Nat /\ DOMAIN s = 1 .. Len(s) /\ \A n \in 1 .. Len(s) : s[n] \in Chars
  OBVIOUS
<1>1. w \in Seq(Seq(Acts)) /\ Len(w) = Len(s)
  <2>1. w \in [1 .. Len(s) -> Seq(Acts)]
    BY <1>0, StrokesOK
  <2> QED BY <1>0, <2>1
<1>2. \A i \in 1 .. Len(w) : LetsGo(w[i])
  BY <1>0, <1>1, StrokesLetGo
<1>3. Typed(s) = FlattenSeq(w)
  BY DEF Typed, Strokes
<1> HIDE DEF w
<1> QED BY <1>1, <1>2, <1>3, LetsGoAll

(* A complete gesture lets go. *)
LEMMA GestureLetsGo == ASSUME NEW m \in Methods, m[1] \in Complete PROVE LetsGo(Means(m))
<1>0. ASSUME NEW e \in {Source, Target}, NEW s \in Seq(Acts), LetsGo(s) PROVE LetsGo(<<Move(e)>> \o s)
  <2>1. <<Move(e)>> \in Seq(Acts)
    BY OneOK, ActsAre
  <2> QED BY <2>1, <1>0, MoveLetsGo, LetsGoThen
<1>1. CASE m \in {<<n>> : n \in {"click", "click_and_hold", "context_click", "double_click", "move_to",
                                 "move_by_offset", "release", "drag_and_drop_by_offset"}}
  <2>1. m \in {<<n>> : n \in {"click", "context_click", "double_click", "move_to", "move_by_offset"}}
    BY <1>1 DEF Complete
  <2>2. LetsGo(Clicked("left") \o Clicked("left"))
    BY ClickedOK, ClickedLetsGo, LetsGoThen
  <2> QED BY <2>1, <2>2, CallPlain, ClickedLetsGo, MoveLetsGo
<1>2. ASSUME NEW e \in {Source, Target},
             m \in {<<n, e>> : n \in {"click_element", "click_and_hold_element", "context_click_element",
                                    "double_click_element", "release_on_element", "move_to_element_center",
                                    "move_to_element_with_offset", "drag_and_drop_element_by_offset"}}
      PROVE  LetsGo(Means(m))
  <2>1. m \in {<<n, e>> : n \in {"click_element", "context_click_element", "double_click_element",
                                 "move_to_element_center", "move_to_element_with_offset"}}
    BY <1>2 DEF Complete
  <2>2. LetsGo(<<Move(e)>> \o Clicked("left")) /\ LetsGo(<<Move(e)>> \o Clicked("right"))
    BY <1>0, ClickedOK, ClickedLetsGo
  <2>3. LetsGo(<<Move(e)>> \o Clicked("left") \o Clicked("left"))
    <3>1. <<Move(e)>> \o Clicked("left") \in Seq(Acts)
      <4>1. <<Move(e)>> \in Seq(Acts)
        BY OneOK, ActsAre
      <4> QED BY <4>1, ClickedOK
    <3> QED BY <2>2, <3>1, ClickedOK, ClickedLetsGo, LetsGoThen
  <2>4. CASE m = <<"click_element", e>>
    BY <2>2, <2>4, CallOnElement
  <2>5. CASE m = <<"context_click_element", e>>
    BY <2>2, <2>5, CallOnElement
  <2>6. CASE m = <<"double_click_element", e>>
    BY <2>3, <2>6, CallOnElement
  <2>7. CASE m = <<"move_to_element_center", e>>
    BY <2>7, CallOnElement, MoveLetsGo
  <2>8. CASE m = <<"move_to_element_with_offset", e>>
    BY <2>8, CallOnElement, MoveLetsGo
  <2> QED BY <2>1, <2>4, <2>5, <2>6, <2>7, <2>8
<1>3. CASE m = <<"drag_and_drop_element", Source, Target>>
  BY <1>3, CallDragged, DragLetsGo
<1>4. CASE m \in {<<n, k>> : n \in {"key_down", "key_up"}, k \in Chars}
  BY <1>4 DEF Complete
<1>5. CASE m \in {<<n, Source, k>> : n \in {"key_down_on_element", "key_up_on_element"}, k \in Chars}
  BY <1>5 DEF Complete
<1>6. ASSUME NEW k \in Chars, NEW l \in Chars, m = <<"send_keys", <<k, l>>>> PROVE LetsGo(Means(m))
  <2>1. <<k, l>> \in Seq(Chars)
    OBVIOUS
  <2> QED BY <1>6, <2>1, CallOfKeys, TypedLetsGo
<1>7. ASSUME NEW e \in {Source, Target}, NEW s \in Seq(Chars), m = <<"send_keys_to_element", e, s>>
      PROVE  LetsGo(Means(m))
  <2>1. Means(m) = <<Move(e)>> \o Clicked("left") \o Typed(s)
    BY <1>7, CallOfKeysOn, Zenon
  <2>2. <<Move(e)>> \o Clicked("left") \in Seq(Acts) /\ LetsGo(<<Move(e)>> \o Clicked("left"))
    <3>1. <<Move(e)>> \in Seq(Acts)
      BY OneOK, ActsAre
    <3> QED BY <3>1, <1>0, ClickedOK, ClickedLetsGo
  <2>3. Typed(s) \in Seq(Acts)
    <3>1. New \in InStep
      BY DEF New, InStep
    <3> QED BY <3>1, AddsTyped
  <2> QED BY <2>1, <2>2, <2>3, TypedLetsGo, LetsGoThen
<1>8. ASSUME NEW k \in Chars PROVE <<k>> \in Seq(Chars)
  OBVIOUS
<1>9. CASE m \in {<<n, Source>> : n \in {"click_element", "click_and_hold_element", "context_click_element",
                                         "double_click_element", "release_on_element", "move_to_element_center",
                                         "move_to_element_with_offset", "drag_and_drop_element_by_offset"}}
  BY <1>2, <1>9
<1>12. CASE m \in {<<"send_keys", <<k, l>>>> : k \in Chars, l \in Chars}
  BY <1>6, <1>12
<1>13. CASE m \in {<<"send_keys_to_element", Source, <<k>>>> : k \in Chars}
  BY <1>7, <1>8, <1>13
<1> QED BY <1>1, <1>3, <1>4, <1>5, <1>9, <1>12, <1>13 DEF Methods

(* A script of complete gestures lets go. *)
LEMMA ScriptLetsGo ==
  ASSUME NEW s \in Seq(Methods), \A i \in DOMAIN s : s[i][1] \in Complete PROVE LetsGo(Spelled(s))
<1> DEFINE w == [i \in DOMAIN s |-> Means(s[i])]
<1>0. Len(s) \in Nat /\ DOMAIN s = 1 .. Len(s) /\ \A n \in 1 .. Len(s) : s[n] \in Methods /\ s[n][1] \in Complete
  OBVIOUS
<1>1. w \in Seq(Seq(Acts)) /\ Len(w) = Len(s)
  <2>1. w \in [1 .. Len(s) -> Seq(Acts)]
    BY <1>0, MeansOK
  <2> QED BY <1>0, <2>1
<1>2. \A i \in 1 .. Len(w) : LetsGo(w[i])
  BY <1>0, <1>1, GestureLetsGo
<1>3. Spelled(s) = FlattenSeq(w)
  BY DEF Spelled
<1> HIDE DEF w
<1> QED BY <1>1, <1>2, <1>3, LetsGoAll

-----------------------------------------------------------------------------
(* SelectElement *)

(* Where a method of a SelectElement may have come to. *)
Picking == {"options", "candidates", "shows", "look", "click", "picked"}
Trying == {"shows", "look", "click"}

(* Who builds a chain, and who works with a <select>, is a task for that. *)
OthersFit == \A t \in Tasks : /\ pc[t] \in {"chain", "performed"} => role[t] = "input"
                              /\ pc[t] \in Picking => role[t] = "select"

(* The <select>. *)
MenuTypes ==
  /\ menu.dom \in Lists /\ menu.multiple \in BOOLEAN /\ menu.selected \subseteq DOMAIN menu.dom
  /\ menu = [dom |-> menu.dom, multiple |-> menu.multiple, selected |-> menu.selected]
  /\ ~menu.multiple => \E k \in DOMAIN menu.dom : menu.selected = {k}

Whats == Picks \cup {NoPick.call}
PickStates == [call : Whats, todo : SUBSET Nat, fallback : BOOLEAN, matched : BOOLEAN, got : SUBSET Nat,
               result : {"none", "ok", "missing"}, before : SUBSET Nat]
PickTypes == picks \in [Tasks -> PickStates]

(* The options among which a method looks, those of them that it is for, and
   all it is for. *)
Among(dom, p) == IF p.fallback THEN Candidates(dom, p.call) ELSE Found(dom, p.call)
Showing(dom, call) == {k \in Candidates(dom, call) : dom[k].shown = call.text}
Sought(dom, p) == IF p.fallback THEN Showing(dom, p.call) ELSE Found(dom, p.call)
All(dom, call) == IF Found(dom, call) = {} /\ FallsBack(call) THEN Showing(dom, call) ELSE Found(dom, call)
Done(dom, p) == Sought(dom, p) \ p.todo

(* Whatever the other tasks do: the options it has still to look at are the last
   of those among which it looks. *)
PickShape(t) ==
  LET p == picks[t]
      dom == menu.dom
  IN  /\ pc[t] \in Picking => p.call \in Picks /\ ~Panics(menu.multiple, p.call)
      /\ pc[t] \in {"options", "candidates"} =>
            p.todo = {} /\ p.fallback = FALSE /\ p.matched = FALSE /\ p.got = {} /\ p.result = "none"
      /\ pc[t] = "candidates" => Found(dom, p.call) = {} /\ FallsBack(p.call)
      /\ pc[t] \in Trying =>
            /\ p.todo # {} /\ p.todo \subseteq Among(dom, p) /\ p.result = "none"
            /\ p.fallback => Found(dom, p.call) = {} /\ FallsBack(p.call)
            /\ \A x \in Among(dom, p) \ p.todo, y \in p.todo : x < y
      /\ pc[t] = "shows" => p.fallback
      /\ pc[t] \in {"look", "click"} /\ p.fallback => Topmost(p.todo) \in Showing(dom, p.call)
      /\ pc[t] = "click" => ~Reads(p.call)

(* What is selected when some of the options have been set. *)
Having(base, call, done) == IF call.select THEN base \cup done ELSE base \ done

(* And what will be, of those it is for. *)
Outcome(t) ==
  LET p == picks[t]
      all == All(menu.dom, p.call)
  IN  /\ menu.multiple => (menu.selected \ p.before) \cup (p.before \ menu.selected) \subseteq all
      /\ p.result # "none"
      /\ p.result = "ok" =>
            /\ menu.selected = IF Reads(p.call) \/ all = {} THEN p.before
                               ELSE IF menu.multiple THEN Having(p.before, p.call, all)
                               ELSE IF p.call.select THEN {Min(all)} ELSE p.before
            /\ p.call.how = "all_selected" => p.got = p.before
            /\ p.call.how = "first_selected" => p.got = {Min(p.before)}
      /\ p.result = "missing" => Required(p.call) /\ (IF Reads(p.call) THEN p.before ELSE all) = {}

(* When no other task has set any: it has set those it is for and has looked at. *)
PickEffect(t) ==
  LET p == picks[t]
      done == Done(menu.dom, p)
  IN  /\ pc[t] \in Picking => p.before \subseteq DOMAIN menu.dom
      /\ pc[t] \in Picking /\ ~menu.multiple => \E k \in DOMAIN menu.dom : p.before = {k}
      /\ pc[t] \in {"options", "candidates"} => menu.selected = p.before
      /\ pc[t] \in Trying /\ Reads(p.call) =>
            /\ menu.selected = p.before /\ p.got = done \cap p.before /\ (p.matched <=> p.got # {})
            /\ StopsAtFirst(menu.multiple, p.call) => ~p.matched
      /\ pc[t] \in Trying /\ ~Reads(p.call) =>
            /\ menu.selected = Having(p.before, p.call, done) /\ (p.matched <=> done # {})
            /\ StopsAtFirst(menu.multiple, p.call) => done = {}
      /\ pc[t] = "click" => (Topmost(p.todo) \in menu.selected) # p.call.select
      /\ pc[t] = "picked" => Outcome(t)

PickInv == \A t \in Tasks : role[t] = "select" => PickShape(t) /\ (pc[t] \in Picking /\ alone[t] => PickEffect(t))
PickIInv == OthersFit /\ MenuTypes /\ PickTypes /\ PickInv

-----------------------------------------------------------------------------
(* The topmost of some options. *)
LEMMA TopmostOK ==
  ASSUME NEW S \in SUBSET Nat, S # {} PROVE Topmost(S) \in S /\ \A y \in S : Topmost(S) <= y
<1>1. \E n \in S : \A m \in S : n <= m
  BY LeastOK
<1> QED BY <1>1 DEF Topmost, Min

(* The member below all others is the least. *)
LEMMA MinIsTopmost == ASSUME NEW S \in SUBSET Nat, NEW k \in S, \A y \in S : k <= y PROVE Min(S) = k
<1>1. Topmost(S) \in S /\ Topmost(S) <= k
  BY TopmostOK
<1>2. k <= Topmost(S) /\ k \in Nat /\ Topmost(S) \in Nat
  BY <1>1
<1>3. Topmost(S) = k
  BY <1>1, <1>2
<1> QED BY <1>3 DEF Topmost

(* The kinds of calls. *)
Hows == {"all", "value", "index", "visible", "exact", "partial", "xpath", "all_selected", "first_selected"}

(* The parts of a call. *)
LEMMA HowsAre == ASSUME NEW c \in Picks PROVE c.how \in Hows /\ c.select \in BOOLEAN /\ c.index \in Nat
BY PicksAssumption DEF Hows

(* What is found are options. *)
LEMMA FoundOK ==
  ASSUME NEW d \in Lists, NEW c \in Picks
  PROVE  /\ DOMAIN d \in SUBSET Nat /\ DOMAIN d # {}
         /\ Found(d, c) \subseteq DOMAIN d /\ Candidates(d, c) \subseteq DOMAIN d /\ Showing(d, c) \subseteq DOMAIN d
<1>1. DOMAIN d = 1 .. Len(d) /\ Len(d) \in Nat \ {0}
  BY ListsAssumption
<1>2. Candidates(d, c) \subseteq DOMAIN d
  BY DEF Candidates, Options
<1>3. c.how \in Hows
  BY HowsAre
<1>4. Found(d, c) \subseteq DOMAIN d
  BY <1>3 DEF Found, Options, ByIndex, Nth, Hows
<1>5. 1 \in DOMAIN d
  BY <1>1
<1> QED BY <1>1, <1>2, <1>4, <1>5 DEF Showing

(* find() returns one option. *)
LEMMA IndexOne ==
  ASSUME NEW d \in Lists, NEW c \in Picks, c.how = "index", NEW x \in Found(d, c), NEW y \in Found(d, c) PROVE x = y
<1>1. Found(d, c) = ByIndex(d, c.index)
  BY DEF Found
<1>2. x \in Nat /\ y \in Nat
  BY FoundOK
<1>3. x <= y /\ y <= x
  BY <1>1 DEF ByIndex
<1> QED BY <1>2, <1>3

(* In one group, an option's place in the group is its place. *)
LEMMA IndexIs ==
  ASSUME NEW d \in Lists, NEW n \in Nat, \A k \in DOMAIN d : d[k].group = d[1].group
  PROVE  ByIndex(d, n) = {n + 1} \cap DOMAIN d
<1>1. DOMAIN d = 1 .. Len(d) /\ Len(d) \in Nat
  BY ListsAssumption
<1>2. ASSUME NEW k \in DOMAIN d PROVE Cardinality({j \in 1..k : d[j].group = d[k].group}) = k
  <2>1. k \in Nat /\ 1 .. k \subseteq DOMAIN d
    BY <1>1
  <2>2. {j \in 1..k : d[j].group = d[k].group} = 1 .. k
    BY <2>1
  <2>3. Cardinality(1 .. k) = k
    <3>1. k \in Int /\ 1 \in Int
      BY <2>1
    <3>2. Cardinality(1 .. k) = IF 1 > k THEN 0 ELSE k - 1 + 1
      BY <3>1, FS_Interval
    <3> QED BY <2>1, <1>1, <3>2
  <2> QED BY <2>2, <2>3
<1>3. Nth(d, n) = {k \in DOMAIN d : k = n + 1}
  BY <1>2 DEF Nth
<1> QED BY <1>1, <1>3 DEF ByIndex

(* What a method is for is what its documentation names. *)
LEMMA NamedIs == ASSUME NEW d \in Lists, NEW c \in Picks, Plain(d, c) PROVE Named(d, c) = All(d, c)
<1>0. c.how \in Hows /\ c.index \in Nat
  BY HowsAre
<1>1. CASE c.how = "index"
  <2>1. \A k \in DOMAIN d : d[k].group = d[1].group
    BY <1>1 DEF Plain
  <2>2. Named(d, c) = {c.index + 1} \cap DOMAIN d /\ Found(d, c) = ByIndex(d, c.index) /\ ~FallsBack(c)
    BY <1>1 DEF Named, Found, FallsBack
  <2> QED BY <1>0, <2>1, <2>2, IndexIs DEF All
<1>2. CASE c.how = "visible"
  <2> DEFINE word == LongestToken(c.text)
             shown == {k \in DOMAIN d : d[k].shown = c.text}
             there == {k \in DOMAIN d : Normal(d[k].raw) = c.text}
             has(k) == word = "" \/ Within(<<word>>, d[k].raw)
             showing == {k \in shown : has(k)}
  <2>1. /\ ~Cut(c.text) /\ (FallsBack(c) => ~Cut(<<word>>))
        /\ \/ \A k \in DOMAIN d : Unstyled(d[k])
           \/ FallsBack(c) /\ \A k \in DOMAIN d : Normal(d[k].raw) # c.text /\ (d[k].shown = c.text => has(k))
    BY <1>2 DEF Plain
  <2>2. EscapeString(c.text) = c.text /\ (FallsBack(c) => EscapeString(<<word>>) = <<word>>)
    BY <2>1 DEF EscapeString
  <2>3. Found(d, c) = there
    BY <1>2, <2>2 DEF Found
  <2>4. Named(d, c) = shown
    BY <1>2 DEF Named
  <2>5. FallsBack(c) => Candidates(d, c) = {k \in DOMAIN d : has(k)}
    <3>1. ASSUME FallsBack(c)
          PROVE  Candidates(d, c) = IF word = "" THEN DOMAIN d ELSE {k \in DOMAIN d : Within(<<word>>, d[k].raw)}
      BY <2>2, <3>1 DEF Candidates, Options
    <3> HIDE DEF word
    <3> QED BY <3>1
  <2> HIDE DEF word
  <2>6. FallsBack(c) => Showing(d, c) = showing
    BY <2>5 DEF Showing
  <2>7. CASE \A k \in DOMAIN d : Unstyled(d[k])
    <3>1. there = shown
      BY <2>7 DEF Unstyled
    <3>2. there = {} => showing = {}
      BY <3>1
    <3> HIDE DEF there, shown, showing
    <3> QED BY <2>3, <2>4, <2>6, <3>1, <3>2 DEF All
  <2>8. CASE FallsBack(c) /\ \A k \in DOMAIN d : Normal(d[k].raw) # c.text /\ (d[k].shown = c.text => has(k))
    <3>1. there = {} /\ shown = showing
      BY <2>8
    <3> HIDE DEF there, shown, showing
    <3> QED BY <2>3, <2>4, <2>6, <2>8, <3>1 DEF All
  <2> QED BY <2>1, <2>7, <2>8
<1>3. CASE c.how \in {"exact", "partial"}
  <2>1. EscapeString(c.text) = c.text /\ \A k \in DOMAIN d : HasNode(d[k]) /\ d[k].shown = d[k].raw
    BY <1>3 DEF Plain, EscapeString, AsWritten
  <2>2. CASE c.how = "exact"
    BY <2>1, <2>2 DEF Named, Found, FallsBack, All
  <2>3. CASE c.how = "partial"
    <3>1. \A k \in DOMAIN d : Within(c.text, d[k].raw) <=> Within(c.text, d[k].shown)
      BY <2>1
    <3> QED BY <2>1, <2>3, <3>1 DEF Named, Found, FallsBack, All
  <2> QED BY <1>3, <2>2, <2>3
<1>4. CASE c.how \in {"all", "value", "xpath", "all_selected", "first_selected"}
  <2>1. Named(d, c) = Found(d, c) /\ ~FallsBack(c)
    BY <1>4 DEF Named, Found, FallsBack, Options
  <2> QED BY <2>1 DEF All
<1> QED BY <1>0, <1>1, <1>2, <1>3, <1>4 DEF Hows

-----------------------------------------------------------------------------
(* A step on no SelectElement. *)
PickQuiet ==
  /\ UNCHANGED <<menu, picks, role>>
  /\ \A s \in Tasks : role[s] = "select" => pc'[s] = pc[s] /\ (alone'[s] => alone[s])

(* A task whose method does not go on. *)
LEMMA ShapeStays ==
  ASSUME NEW s \in Tasks, pc'[s] = pc[s], picks'[s] = picks[s], menu'.dom = menu.dom, menu'.multiple = menu.multiple,
         PickShape(s)
  PROVE  PickShape(s)'
BY DEF PickShape

(* What does not touch a task nor the <select> keeps what the task has done. *)
LEMMA EffectStays ==
  ASSUME NEW s \in Tasks, pc'[s] = pc[s], picks'[s] = picks[s], menu' = menu, PickEffect(s) PROVE PickEffect(s)'
BY DEF PickEffect, Outcome

(* A step that leaves the <select> and those at work with it alone keeps the invariant. *)
LEMMA QuietKeeps ==
  ASSUME MenuTypes, PickTypes, PickInv, PickQuiet PROVE MenuTypes' /\ PickTypes' /\ PickInv'
<1>1. ASSUME NEW s \in Tasks, role'[s] = "select"
      PROVE  PickShape(s)' /\ (pc'[s] \in Picking /\ alone'[s] => PickEffect(s)')
  <2>1. role[s] = "select" /\ pc'[s] = pc[s] /\ picks'[s] = picks[s] /\ menu' = menu /\ (alone'[s] => alone[s])
    BY <1>1 DEF PickQuiet
  <2>2. PickShape(s) /\ (pc[s] \in Picking /\ alone[s] => PickEffect(s))
    BY <2>1 DEF PickInv
  <2> QED BY <2>1, <2>2, ShapeStays, EffectStays
<1>2. PickInv'
  BY <1>1 DEF PickInv
<1> QED BY <1>2 DEF PickQuiet, MenuTypes, PickTypes

(* The roles. *)
LEMMA RolesDiffer == ASSUME OthersFit, RolesFit, NEW t \in Tasks
  PROVE /\ Method(t) => role[t] = "windows"
        /\ Chain(t) => role[t] = "input"
        /\ Pick(t) => role[t] = "select"
<1>1. Method(t) => role[t] = "windows"
  BY DEF RolesFit, InMethod, Method, TabBegin, TabOpen, TabEnter, TabBody, TabClose, TabBack, NamedBegin, NamedList,
         NamedVisit, NamedAsk, NamedBack, Fail, Impossible, Abandon, Step
<1>2. Chain(t) => role[t] = "input"
  BY DEF OthersFit, Chain, ChainBegin, ChainCall, Perform, Reset, ChainEnd
<1>3. Pick(t) => role[t] = "select"
  BY DEF OthersFit, Picking, Pick, PickBegin, PickFind, PickCandidates, PickShows, PickLook, PickClick, PickEnd
<1> QED BY <1>1, <1>2, <1>3

(* What a step of one task at a <select> does to it and to the others. *)
LEMMA GoesIs ==
  ASSUME LocalTypes, PickTypes, NEW t \in Tasks, NEW from, NEW to, NEW p, Goes(t, from, to, p)
  PROVE  /\ pc[t] = from /\ pc'[t] = to /\ picks'[t] = p /\ picks' = [picks EXCEPT ![t] = p]
         /\ role' = role /\ alone'[t] = alone[t]
         /\ \A s \in Tasks \ {t} : /\ pc'[s] = pc[s] /\ picks'[s] = picks[s] /\ (alone'[s] => alone[s])
                                   /\ role[s] = "select" /\ from = "click" => ~alone'[s]
BY DEF Goes, Step, LocalTypes, PickTypes

(* Where the methods of one task lead. *)
LEMMA PickGoes ==
  ASSUME LocalTypes, PickTypes, NEW t \in Tasks, Pick(t)
  PROVE  /\ pc'[t] \in Picking \cup {"idle"} /\ role' = role
         /\ \A s \in Tasks \ {t} : /\ pc'[s] = pc[s] /\ picks'[s] = picks[s] /\ (alone'[s] => alone[s])
                                   /\ role[s] = "select" => menu' = menu \/ ~alone'[s]
         /\ menu'.dom = menu.dom /\ menu'.multiple = menu.multiple
<1>0. ASSUME NEW from, NEW to \in Picking, NEW p, Goes(t, from, to, p), menu' = menu \/ from = "click",
             menu'.dom = menu.dom /\ menu'.multiple = menu.multiple
      PROVE  /\ pc'[t] \in Picking \cup {"idle"} /\ role' = role
             /\ \A s \in Tasks \ {t} : /\ pc'[s] = pc[s] /\ picks'[s] = picks[s] /\ (alone'[s] => alone[s])
                                       /\ role[s] = "select" => menu' = menu \/ ~alone'[s]
             /\ menu'.dom = menu.dom /\ menu'.multiple = menu.multiple
  BY <1>0, GoesIs
<1>1. ASSUME NEW from, NEW hit, Advance(t, from, hit)
      PROVE  \E to, p : to \in Picking /\ Goes(t, from, to, p)
  <2>1. ASSUME NEW to \in Picking, NEW p, Goes(t, from, to, p)
        PROVE  \E q, r : q \in Picking /\ Goes(t, from, q, r)
    BY <2>1
  <2>2. \E q, r : q \in Picking /\ Goes(t, from, q, r)
    BY <1>1, <2>1, Zenon DEF Advance, Picking
  <2> QED BY <2>2
<1>2. CASE PickBegin(t) \/ PickEnd(t)
  BY <1>2 DEF PickBegin, PickEnd, Step, End, LocalTypes, Picking, PickTypes
<1>3. CASE PickFind(t) \/ PickCandidates(t)
  <2>1. menu' = menu /\ \E from, to, p : to \in Picking /\ Goes(t, from, to, p)
    BY <1>3 DEF PickFind, PickCandidates, Picking
  <2> QED BY <2>1, <1>0
<1>4. CASE PickShows(t) \/ PickLook(t)
  <2>1. menu' = menu
    BY <1>4 DEF PickShows, PickLook
  <2>2. (\E from, hit : Advance(t, from, hit)) \/ \E from, to, p : to \in Picking /\ Goes(t, from, to, p)
    <3>1. CASE PickShows(t)
      <4>1. Goes(t, "shows", "look", picks[t]) \/ Advance(t, "shows", FALSE)
        BY <3>1 DEF PickShows
      <4>2. "look" \in Picking
        BY DEF Picking
      <4> QED BY <4>1, <4>2
    <3>2. CASE PickLook(t)
      <4>1. \/ Advance(t, "look", Topmost(picks[t].todo) \in menu.selected) \/ Advance(t, "look", TRUE)
            \/ Goes(t, "look", "click", picks[t])
        BY <3>2, Zenon DEF PickLook
      <4>2. "click" \in Picking
        BY DEF Picking
      <4> QED BY <4>1, <4>2
    <3> QED BY <1>4, <3>1, <3>2
  <2>3. \E from, to, p : to \in Picking /\ Goes(t, from, to, p)
    BY <1>1, <2>2
  <2> QED BY <2>1, <2>3, <1>0
<1>5. CASE PickClick(t)
  <2>1. \E to, p : to \in Picking /\ Goes(t, "click", to, p)
    <3>1. Advance(t, "click", TRUE)
      BY <1>5 DEF PickClick
    <3> QED BY <3>1, <1>1
  <2>2. menu'.dom = menu.dom /\ menu'.multiple = menu.multiple
    BY <1>5 DEF PickClick, Clicks
  <2> QED BY <2>1, <2>2, <1>0
<1> QED BY <1>2, <1>3, <1>4, <1>5 DEF Pick

(* Every step keeps the tasks in the places of their roles. *)
LEMMA OthersFitStep == ASSUME LocalTypes, PickTypes, OthersFit, RolesFit, [BrowserNext]_stateVars PROVE OthersFit'
<1>0. role' = role
  BY RoleStays
<1>1. ASSUME NEW t \in Tasks, \A s \in Tasks \ {t} : pc'[s] = pc[s],
             pc'[t] \in {"chain", "performed"} => role[t] = "input", pc'[t] \in Picking => role[t] = "select"
      PROVE  OthersFit'
  BY <1>0, <1>1 DEF OthersFit
<1>2. pc' = pc => OthersFit'
  BY <1>0 DEF OthersFit
<1>3. ASSUME NEW t \in Tasks, Method(t) PROVE OthersFit'
  <2>1. pc'[t] \in InMethod \cup {"idle"} /\ \A s \in Tasks \ {t} : pc'[s] = pc[s]
    BY <1>3 DEF Method, TabBegin, TabOpen, TabEnter, TabBody, TabClose, TabBack, NamedBegin, NamedList, NamedVisit,
                    NamedAsk, NamedBack, Fail, Abandon, Step, End, InMethod, LocalTypes
  <2> QED BY <2>1, <1>1 DEF InMethod, Picking
<1>4. ASSUME NEW t \in Tasks, Pick(t) PROVE OthersFit'
  <2>1. role[t] = "select" /\ pc'[t] \in Picking \cup {"idle"} /\ \A s \in Tasks \ {t} : pc'[s] = pc[s]
    BY <1>4, RolesDiffer, PickGoes
  <2> QED BY <2>1, <1>1 DEF Picking
<1>5. ASSUME NEW t \in Tasks, Chain(t) PROVE OthersFit'
  <2>1. role[t] = "input"
    BY <1>5, RolesDiffer
  <2>2. pc'[t] \in {"idle", "chain", "performed"} /\ \A s \in Tasks \ {t} : pc'[s] = pc[s]
    BY <1>5 DEF Chain, ChainBegin, ChainCall, Perform, Reset, ChainEnd, Step, End, LocalTypes, local
  <2> QED BY <2>1, <2>2, <1>1 DEF Picking
<1>6. Other \/ (\E t \in Tasks : Navigate(t) \/ Context(t) \/ Settle(t)) \/ UNCHANGED stateVars => pc' = pc
  BY DEF Other, Navigate, Context, Settle, stateVars, local
<1> QED BY <1>2, <1>3, <1>4, <1>5, <1>6 DEF BrowserNext

(* The steps of all but the tasks at a <select>. *)
LEMMA QuietSteps ==
  ASSUME LocalTypes, OthersFit, RolesFit, NEW t \in Tasks,
         Navigate(t) \/ Method(t) \/ Chain(t) \/ Context(t) \/ Settle(t)
  PROVE  PickQuiet
<1>0. ASSUME NEW b \in BOOLEAN, Disturb(t, b), UNCHANGED <<menu, picks, role, pc>> PROVE PickQuiet
  BY <1>0 DEF PickQuiet, Disturb, LocalTypes
<1>1. CASE Navigate(t)
  BY <1>0, <1>1 DEF Navigate, rest, selects, local
<1>2. CASE Context(t)
  BY <1>0, <1>2 DEF Context, selects, local
<1>3. CASE Settle(t)
  BY <1>3 DEF Settle, PickQuiet, selects, local
<1>4. ASSUME UNCHANGED <<menu, picks, role>>, role[t] # "select",
             \A s \in Tasks \ {t} : pc'[s] = pc[s] /\ (alone'[s] => alone[s])
      PROVE  PickQuiet
  BY <1>4 DEF PickQuiet
<1>5. CASE Method(t)
  <2>1. role[t] = "windows"
    BY <1>5, RolesDiffer
  <2>2. UNCHANGED <<menu, picks, role>>
    BY <1>5 DEF Method, TabBegin, TabOpen, TabEnter, TabBody, TabClose, TabBack, NamedBegin, NamedList, NamedVisit,
                NamedAsk, NamedBack, Fail, Abandon, rest, selects
  <2>3. \A s \in Tasks \ {t} : pc'[s] = pc[s] /\ (alone'[s] => alone[s])
    BY <1>5 DEF Method, TabBegin, TabOpen, TabEnter, TabBody, TabClose, TabBack, NamedBegin, NamedList, NamedVisit,
                NamedAsk, NamedBack, Fail, Abandon, Step, End, Disturb, LocalTypes
  <2> QED BY <2>1, <2>2, <2>3, <1>4
<1>6. CASE Chain(t)
  <2>1. role[t] = "input"
    BY <1>6, RolesDiffer
  <2>2. UNCHANGED <<menu, picks, role>> /\ alone' = alone
    BY <1>6 DEF Chain, ChainBegin, ChainCall, Perform, Reset, ChainEnd, selects
  <2>3. \A s \in Tasks \ {t} : pc'[s] = pc[s]
    BY <1>6 DEF Chain, ChainBegin, ChainCall, Perform, Reset, ChainEnd, Step, End, LocalTypes, local
  <2> QED BY <2>1, <2>2, <2>3, <1>4
<1> QED BY <1>1, <1>2, <1>3, <1>5, <1>6

-----------------------------------------------------------------------------
(* What a method knows after an option. *)
Gone(p, k, hit) == [p EXCEPT !.todo = @ \ {k}, !.matched = @ \/ hit, !.got = IF hit THEN @ \cup {k} ELSE @]

(* r is p with one option fewer to look at. *)
OneFewer(p, r, k, hit) ==
  /\ r.call = p.call /\ r.before = p.before /\ r.fallback = p.fallback /\ r.result = p.result
  /\ r.todo = p.todo \ {k} /\ (hit => r.matched) /\ (~hit => r.matched = p.matched)
  /\ r.got = IF hit THEN p.got \cup {k} ELSE p.got

(* The record with one option fewer to look at. *)
LEMMA GoneIs ==
  ASSUME NEW p \in PickStates, NEW k \in Nat, NEW hit \in BOOLEAN
  PROVE  Gone(p, k, hit) \in PickStates /\ OneFewer(p, Gone(p, k, hit), k, hit)
<1> DEFINE m == p.matched \/ hit
           g == IF hit THEN p.got \cup {k} ELSE p.got
           d == p.todo \ {k}
<1>1. m \in BOOLEAN /\ (hit => m) /\ (~hit => m = p.matched)
  BY Zenon DEF PickStates
<1>2. g \in SUBSET Nat /\ d \in SUBSET Nat
  BY DEF PickStates
<1>3. Gone(p, k, hit) = [p EXCEPT !.todo = d, !.matched = m, !.got = g]
  BY Zenon DEF Gone
<1>4. g = (IF hit THEN p.got \cup {k} ELSE p.got) /\ d = p.todo \ {k}
  OBVIOUS
<1> HIDE DEF m, g, d
<1>5. Gone(p, k, hit) = [call |-> p.call, todo |-> d, fallback |-> p.fallback, matched |-> m,
                         got |-> g, result |-> p.result, before |-> p.before]
  BY <1>3 DEF PickStates
<1>6. LET r == Gone(p, k, hit) IN
        /\ r.call = p.call /\ r.before = p.before /\ r.fallback = p.fallback /\ r.result = p.result
        /\ r.todo = d /\ r.matched = m /\ r.got = g
  BY <1>5
<1>7. Gone(p, k, hit) \in PickStates
  BY <1>1, <1>2, <1>5 DEF PickStates
<1> QED BY <1>1, <1>4, <1>6, <1>7 DEF OneFewer

(* The record at the end of the call. *)
LEMMA EndedIs ==
  ASSUME NEW p \in PickStates
  PROVE  LET r == Ended(p) IN
         /\ r \in PickStates /\ r.call = p.call /\ r.before = p.before /\ r.fallback = p.fallback /\ r.got = p.got
         /\ r.todo = {} /\ r.matched = p.matched
         /\ p.matched \/ ~Required(p.call) => r.result = "ok"
         /\ ~(p.matched \/ ~Required(p.call)) => r.result = "missing"
<1> DEFINE o == IF p.matched \/ ~Required(p.call) THEN "ok" ELSE "missing"
<1>1. /\ o \in {"ok", "missing"}
      /\ p.matched \/ ~Required(p.call) => o = "ok"
      /\ ~(p.matched \/ ~Required(p.call)) => o = "missing"
  OBVIOUS
<1>2. Ended(p) = [p EXCEPT !.todo = {}, !.result = o]
  BY DEF Ended
<1> HIDE DEF o
<1>3. Ended(p) = [call |-> p.call, todo |-> {}, fallback |-> p.fallback, matched |-> p.matched,
                  got |-> p.got, result |-> o, before |-> p.before]
  BY <1>2 DEF PickStates
<1>4. LET r == Ended(p) IN
        r.call = p.call /\ r.before = p.before /\ r.fallback = p.fallback /\ r.got = p.got /\ r.todo = {}
        /\ r.matched = p.matched /\ r.result = o
  BY <1>3
<1>5. Ended(p) \in PickStates
  BY <1>1, <1>3 DEF PickStates
<1> QED BY <1>1, <1>4, <1>5

(* On to the next option: the two ways. *)
LEMMA AdvanceIs ==
  ASSUME NEW t \in Tasks, NEW from, NEW hit \in BOOLEAN, Advance(t, from, hit), picks[t] \in PickStates
  PROVE  LET r == Gone(picks[t], Topmost(picks[t].todo), hit) IN
         \/ /\ r.todo = {} \/ (hit /\ StopsAtFirst(menu.multiple, r.call))
            /\ Goes(t, from, "picked", Ended(r))
         \/ /\ ~(r.todo = {} \/ (hit /\ StopsAtFirst(menu.multiple, r.call)))
            /\ r.fallback /\ Goes(t, from, "shows", r)
         \/ /\ ~(r.todo = {} \/ (hit /\ StopsAtFirst(menu.multiple, r.call)))
            /\ ~r.fallback /\ Goes(t, from, "look", r)
<1> DEFINE r == Gone(picks[t], Topmost(picks[t].todo), hit)
<1>1. IF r.todo = {} \/ (hit /\ StopsAtFirst(menu.multiple, r.call))
      THEN Goes(t, from, "picked", Ended(r))
      ELSE Goes(t, from, IF r.fallback THEN "shows" ELSE "look", r)
  BY Zenon DEF Advance, Gone
<1> HIDE DEF r
<1>2. CASE r.todo = {} \/ (hit /\ StopsAtFirst(menu.multiple, r.call))
  BY <1>1, <1>2 DEF r
<1>3. CASE ~(r.todo = {} \/ (hit /\ StopsAtFirst(menu.multiple, r.call)))
  <2>1. Goes(t, from, IF r.fallback THEN "shows" ELSE "look", r)
    BY <1>1, <1>3
  <2>2. CASE r.fallback
    BY <1>3, <2>1, <2>2 DEF r
  <2>3. CASE ~r.fallback
    BY <1>3, <2>1, <2>3 DEF r
  <2> QED BY <2>2, <2>3
<1> QED BY <1>2, <1>3

-----------------------------------------------------------------------------
(* The options a call looks among are options of the list. *)
LEMMA AmongOK ==
  ASSUME NEW d \in Lists, NEW p, p.call \in Picks
  PROVE  Sought(d, p) \subseteq Among(d, p) /\ Among(d, p) \subseteq DOMAIN d /\ DOMAIN d \in SUBSET Nat
<1>1. Showing(d, p.call) \subseteq Candidates(d, p.call)
  BY DEF Showing
<1> QED BY <1>1, FoundOK DEF Sought, Among

(* A method that looks at its options. *)
LEMMA TryingIs ==
  ASSUME MenuTypes, PickTypes, NEW t \in Tasks, PickShape(t), pc[t] \in Trying
  PROVE  LET p == picks[t]
             dom == menu.dom
             k == Topmost(p.todo)
         IN  /\ p \in PickStates /\ p.call \in Picks /\ ~Panics(menu.multiple, p.call)
             /\ Sought(dom, p) \subseteq Among(dom, p) /\ Among(dom, p) \subseteq DOMAIN dom /\ DOMAIN dom \in SUBSET Nat
             /\ All(dom, p.call) = Sought(dom, p)
             /\ k \in p.todo /\ k \in Nat /\ k \in DOMAIN dom /\ \A y \in p.todo : k <= y
<1> DEFINE p == picks[t]
           dom == menu.dom
<1>1. p \in PickStates /\ dom \in Lists
  BY DEF PickTypes, MenuTypes
<1>2. p.call \in Picks /\ ~Panics(menu.multiple, p.call)
  BY DEF PickShape, Trying, Picking
<1>3. /\ p.todo # {} /\ p.todo \subseteq Among(dom, p)
      /\ p.fallback => Found(dom, p.call) = {} /\ FallsBack(p.call)
  BY DEF PickShape
<1>4. Sought(dom, p) \subseteq Among(dom, p) /\ Among(dom, p) \subseteq DOMAIN dom /\ DOMAIN dom \in SUBSET Nat
  BY <1>1, <1>2, AmongOK
<1>5. All(dom, p.call) = Sought(dom, p)
  <2>1. CASE p.fallback
    BY <1>3, <2>1 DEF All, Sought
  <2>2. CASE ~p.fallback
    <3>1. Found(dom, p.call) # {}
      BY <1>3, <2>2 DEF Among
    <3> QED BY <3>1, <2>2 DEF All, Sought
  <2> QED BY <2>1, <2>2
<1>6. p.todo \in SUBSET Nat
  BY <1>3, <1>4
<1>7. Topmost(p.todo) \in p.todo /\ \A y \in p.todo : Topmost(p.todo) <= y
  BY <1>3, <1>6, TopmostOK
<1>8. Topmost(p.todo) \in DOMAIN dom /\ Topmost(p.todo) \in Nat
  BY <1>3, <1>4, <1>7
<1> HIDE DEF p, dom
<1> QED BY <1>1, <1>2, <1>4, <1>5, <1>7, <1>8 DEF p, dom

(* An option fewer to look at. *)
LEMMA ShapeGoesOn ==
  ASSUME MenuTypes, PickTypes, NEW t \in Tasks, PickShape(t), pc[t] \in Trying,
         menu'.dom = menu.dom, menu'.multiple = menu.multiple,
         NEW r \in PickStates, picks'[t] = r,
         r.call = picks[t].call, r.fallback = picks[t].fallback, r.result = picks[t].result,
         r.todo = picks[t].todo \ {Topmost(picks[t].todo)}, r.todo # {},
         \/ r.fallback /\ pc'[t] = "shows"
         \/ ~r.fallback /\ pc'[t] = "look"
  PROVE  PickShape(t)'
<1> DEFINE p == picks[t]
           dom == menu.dom
           k == Topmost(p.todo)
           A == Among(dom, p)
<1>0. PickShape(t)' = 
        (LET q == r
             d == menu.dom
         IN  /\ pc'[t] \in Picking => q.call \in Picks /\ ~Panics(menu.multiple, q.call)
             /\ pc'[t] \in {"options", "candidates"} =>
                   q.todo = {} /\ q.fallback = FALSE /\ q.matched = FALSE /\ q.got = {} /\ q.result = "none"
             /\ pc'[t] = "candidates" => Found(d, q.call) = {} /\ FallsBack(q.call)
             /\ pc'[t] \in Trying =>
                   /\ q.todo # {} /\ q.todo \subseteq Among(d, q) /\ q.result = "none"
                   /\ q.fallback => Found(d, q.call) = {} /\ FallsBack(q.call)
                   /\ \A x \in Among(d, q) \ q.todo, y \in q.todo : x < y
             /\ pc'[t] = "shows" => q.fallback
             /\ pc'[t] \in {"look", "click"} /\ q.fallback => Topmost(q.todo) \in Showing(d, q.call)
             /\ pc'[t] = "click" => ~Reads(q.call))
  BY DEF PickShape
<1>1. /\ p.call \in Picks /\ ~Panics(menu.multiple, p.call)
      /\ p.todo \subseteq A /\ A \subseteq Nat /\ p.result = "none"
      /\ p.fallback => Found(dom, p.call) = {} /\ FallsBack(p.call)
      /\ \A x \in A \ p.todo, y \in p.todo : x < y
      /\ k \in p.todo /\ \A y \in p.todo : k <= y
  <2>1. p.todo \subseteq A /\ p.result = "none" /\ (p.fallback => Found(dom, p.call) = {} /\ FallsBack(p.call))
        /\ \A x \in A \ p.todo, y \in p.todo : x < y
    BY DEF PickShape
  <2>2. /\ p.call \in Picks /\ ~Panics(menu.multiple, p.call) /\ A \subseteq DOMAIN dom /\ DOMAIN dom \in SUBSET Nat
        /\ k \in p.todo /\ \A y \in p.todo : k <= y
    BY TryingIs
  <2> HIDE DEF A, k, p, dom
  <2> QED BY <2>1, <2>2
<1>2. Among(dom, r) = A
  BY DEF Among
<1> HIDE DEF A, k, dom
<1>3. \A x \in A \ r.todo, y \in r.todo : x < y
  <2> SUFFICES ASSUME NEW x \in A \ r.todo, NEW y \in r.todo PROVE x < y
    OBVIOUS
  <2>1. x \in Nat /\ y \in Nat /\ y \in p.todo /\ y # k
    BY <1>1 DEF k
  <2>2. CASE x = k
    BY <1>1, <2>1, <2>2
  <2>3. CASE x # k
    <3>1. x \in A \ p.todo
      BY <2>3 DEF k
    <3> QED BY <3>1, <2>1, <1>1
  <2> QED BY <2>2, <2>3
<1>4. r.todo \subseteq A
  BY <1>1 DEF k
<1>5. pc'[t] \in {"shows", "look"} /\ (pc'[t] = "shows" <=> r.fallback)
  BY DEF PickStates
<1> QED BY <1>0, <1>1, <1>2, <1>3, <1>4, <1>5, Zenon DEF dom

-----------------------------------------------------------------------------
(* What a look at an option, and a click on it, leave: nothing, when it is not
   one that the method is for. *)
Looked(t, hit) ==
  LET p == picks[t]
      k == Topmost(p.todo)
      S == Sought(menu.dom, p)
  IN  \/ k \notin S /\ hit = FALSE /\ menu'.selected = menu.selected /\ p.call.how = "visible"
      \/ k \in S /\ Reads(p.call) /\ hit = (k \in menu.selected) /\ menu'.selected = menu.selected
      \/ /\ k \in S /\ ~Reads(p.call) /\ hit = TRUE
         /\ menu'.selected = IF menu.multiple THEN Having(menu.selected, p.call, {k})
                             ELSE IF p.call.select THEN {k} ELSE menu.selected

(* Setting one option after others is setting them all. *)
LEMMA AfterMore ==
  ASSUME NEW b, NEW c, NEW D, NEW k
  PROVE  Having(Having(b, c, D), c, {k}) = Having(b, c, D \cup {k}) /\ Having(b, c, {}) = b
BY DEF Having

(* Which calls stop at the first option that fits, as SelectElement is written. *)
LEMMA StopsAre ==
  ASSUME NEW c \in Picks, NEW m \in BOOLEAN, ~Panics(m, c)
  PROVE  /\ ~Reads(c) /\ ~m => StopsAtFirst(m, c)
         /\ ~Reads(c) /\ m /\ StopsAtFirst(m, c) => c.how = "index"
         /\ Reads(c) => (StopsAtFirst(m, c) <=> c.how = "first_selected")
         /\ c.how = "index" => StopsAtFirst(m, c) /\ ~Reads(c)
         /\ c.how = "visible" => ~Reads(c) /\ Required(c)
         /\ c.how = "all_selected" => ~Required(c) /\ Reads(c)
         /\ c.how = "first_selected" => Required(c) /\ Reads(c)
BY HowsAre DEF Panics, Reads, StopsAtFirst, Required, Hows

(* Looking at an option adds it to those done, if it is sought. *)
LEMMA DoneGrows ==
  ASSUME NEW d, NEW p, NEW r, NEW k \in p.todo, r.call = p.call, r.fallback = p.fallback, r.todo = p.todo \ {k}
  PROVE  /\ Sought(d, r) = Sought(d, p)
         /\ Done(d, r) = IF k \in Sought(d, p) THEN Done(d, p) \cup {k} ELSE Done(d, p)
<1>1. Sought(d, r) = Sought(d, p)
  BY DEF Sought
<1> QED BY <1>1 DEF Done

(* The next option. *)
LEMMA EffectGoesOn ==
  ASSUME MenuTypes, PickTypes, NEW t \in Tasks, PickShape(t), pc[t] \in Trying, PickEffect(t),
         menu'.dom = menu.dom, menu'.multiple = menu.multiple,
         NEW hit \in BOOLEAN, Looked(t, hit),
         NEW r, r = Gone(picks[t], Topmost(picks[t].todo), hit), picks'[t] = r,
         ~(hit /\ StopsAtFirst(menu.multiple, r.call)), pc'[t] \in {"shows", "look"}
  PROVE  PickEffect(t)'
<1> DEFINE p == picks[t]
           dom == menu.dom
           k == Topmost(p.todo)
           S == Sought(dom, p)
           done == Done(dom, p)
           nextDone == Done(dom, r)
           b == p.before
           m == menu.multiple
           c == p.call
           sel == menu.selected
           now == menu'.selected
<1>1. /\ p \in PickStates /\ c \in Picks /\ ~Panics(m, c) /\ k \in p.todo /\ k \in Nat /\ m \in BOOLEAN
  BY TryingIs DEF MenuTypes
<1>2. /\ r.call = c /\ r.before = b /\ r.fallback = p.fallback
      /\ r.todo = p.todo \ {k} /\ (hit => r.matched) /\ (~hit => r.matched = p.matched)
      /\ r.got = IF hit THEN p.got \cup {k} ELSE p.got
  <2>1. r = Gone(p, k, hit)
    OBVIOUS
  <2> HIDE DEF p, k, b, c
  <2>2. OneFewer(p, Gone(p, k, hit), k, hit)
    BY <1>1, GoneIs
  <2> QED BY <2>1, <2>2 DEF OneFewer, b, c
<1>3. nextDone = IF k \in S THEN done \cup {k} ELSE done
  <2> HIDE DEF p, dom, k, b
  <2>1. k \in p.todo /\ r.call = p.call /\ r.fallback = p.fallback /\ r.todo = p.todo \ {k}
    BY <1>1, <1>2 DEF c
  <2>2. Done(dom, r) = IF k \in Sought(dom, p) THEN Done(dom, p) \cup {k} ELSE Done(dom, p)
    BY <2>1, DoneGrows, Zenon
  <2> QED BY <2>2 DEF nextDone, S, done
<1>4. /\ b \subseteq DOMAIN dom
      /\ ~m => \E j \in DOMAIN dom : b = {j}
      /\ Reads(c) => /\ sel = b /\ p.got = done \cap b /\ (p.matched <=> p.got # {})
                     /\ StopsAtFirst(m, c) => ~p.matched
      /\ ~Reads(c) => /\ sel = Having(b, c, done) /\ (p.matched <=> done # {})
                      /\ StopsAtFirst(m, c) => done = {}
  BY DEF PickEffect, Trying, Picking
<1>5. \/ k \notin S /\ hit = FALSE /\ now = sel /\ c.how = "visible"
      \/ k \in S /\ Reads(c) /\ hit = (k \in sel) /\ now = sel
      \/ k \in S /\ ~Reads(c) /\ hit = TRUE /\ now = IF m THEN Having(sel, c, {k}) ELSE IF c.select THEN {k} ELSE sel
  BY DEF Looked
<1>6. /\ ~Reads(c) /\ ~m => StopsAtFirst(m, c)
      /\ c.how = "visible" => ~Reads(c)
  BY <1>1, StopsAre
<1>7. ~(hit /\ StopsAtFirst(m, c))
  BY <1>2
<1>8. PickEffect(t)' =
        (/\ pc'[t] \in Picking => r.before \subseteq DOMAIN dom
         /\ pc'[t] \in Picking /\ ~m => \E j \in DOMAIN dom : r.before = {j}
         /\ pc'[t] \in {"options", "candidates"} => now = r.before
         /\ pc'[t] \in Trying /\ Reads(r.call) =>
               /\ now = r.before /\ r.got = nextDone \cap r.before /\ (r.matched <=> r.got # {})
               /\ StopsAtFirst(m, r.call) => ~r.matched
         /\ pc'[t] \in Trying /\ ~Reads(r.call) =>
               /\ now = Having(r.before, r.call, nextDone) /\ (r.matched <=> nextDone # {})
               /\ StopsAtFirst(m, r.call) => nextDone = {}
         /\ pc'[t] = "click" => (Topmost(r.todo) \in now) # r.call.select
         /\ pc'[t] = "picked" => Outcome(t)')
  BY DEF PickEffect
<1> HIDE DEF p, dom, k, S, done, nextDone, b, m, c, sel, now
<1>9. Reads(c) => /\ now = b /\ r.got = nextDone \cap b /\ (r.matched <=> r.got # {})
                  /\ StopsAtFirst(m, c) => ~r.matched
  <2> SUFFICES ASSUME Reads(c) PROVE /\ now = b /\ r.got = nextDone \cap b /\ (r.matched <=> r.got # {})
                                     /\ StopsAtFirst(m, c) => ~r.matched
    OBVIOUS
  <2>1. k \in S /\ hit = (k \in b) /\ now = b
    BY <1>4, <1>5, <1>6
  <2>2. nextDone = done \cup {k}
    BY <1>3, <2>1
  <2>3. CASE hit
    <3>1. r.got = p.got \cup {k} /\ r.matched /\ k \in b /\ ~StopsAtFirst(m, c)
      BY <1>2, <1>7, <2>1, <2>3
    <3> QED BY <3>1, <2>1, <2>2, <1>4
  <2>4. CASE ~hit
    <3>1. r.got = p.got /\ r.matched = p.matched /\ k \notin b
      BY <1>2, <2>1, <2>4
    <3> QED BY <3>1, <2>1, <2>2, <1>4
  <2> QED BY <2>3, <2>4
<1>10. ~Reads(c) => /\ now = Having(b, c, nextDone) /\ (r.matched <=> nextDone # {})
                    /\ StopsAtFirst(m, c) => nextDone = {}
  <2> SUFFICES ASSUME ~Reads(c) PROVE /\ now = Having(b, c, nextDone) /\ (r.matched <=> nextDone # {})
                                      /\ StopsAtFirst(m, c) => nextDone = {}
    OBVIOUS
  <2>1. CASE k \notin S
    <3>1. hit = FALSE /\ now = sel /\ nextDone = done
      BY <1>3, <1>5, <2>1
    <3>2. r.matched = p.matched
      BY <1>2, <3>1
    <3> QED BY <3>1, <3>2, <1>4
  <2>2. CASE k \in S
    <3>1. hit = TRUE /\ now = (IF m THEN Having(sel, c, {k}) ELSE IF c.select THEN {k} ELSE sel) /\ nextDone = done \cup {k}
      BY <1>3, <1>5, <2>2
    <3>2. ~StopsAtFirst(m, c) /\ m /\ r.matched
      BY <1>2, <1>6, <1>7, <1>1, <3>1
    <3>3. now = Having(Having(b, c, done), c, {k})
      BY <3>1, <3>2, <1>4
    <3>4. now = Having(b, c, nextDone)
      <4>1. Having(Having(b, c, done), c, {k}) = Having(b, c, done \cup {k})
        BY DEF Having
      <4> QED BY <3>1, <3>3, <4>1
    <3> QED BY <3>1, <3>2, <3>4
  <2> QED BY <2>1, <2>2
<1>11. b \subseteq DOMAIN dom /\ (~m => \E j \in DOMAIN dom : b = {j})
  BY <1>4
<1> QED BY <1>2, <1>8, <1>9, <1>10, <1>11, Zenon

-----------------------------------------------------------------------------
(* The last option. *)
LEMMA EffectEnds ==
  ASSUME MenuTypes, PickTypes, NEW t \in Tasks, PickShape(t), pc[t] \in Trying, PickEffect(t),
         menu'.dom = menu.dom, menu'.multiple = menu.multiple,
         NEW hit \in BOOLEAN, Looked(t, hit),
         NEW r, r = Gone(picks[t], Topmost(picks[t].todo), hit), picks'[t] = Ended(r),
         r.todo = {} \/ (hit /\ StopsAtFirst(menu.multiple, r.call)), pc'[t] = "picked"
  PROVE  PickEffect(t)'
<1> DEFINE p == picks[t]
           dom == menu.dom
           k == Topmost(p.todo)
           S == Sought(dom, p)
           todo == p.todo
           all == All(dom, p.call)
           done == Done(dom, p)
           nextDone == Done(dom, r)
           b == p.before
           m == menu.multiple
           c == p.call
           sel == menu.selected
           now == menu'.selected
<1>1. /\ p \in PickStates /\ c \in Picks /\ ~Panics(m, c) /\ k \in p.todo /\ k \in Nat /\ m \in BOOLEAN
  BY TryingIs DEF MenuTypes
<1>2. /\ r.call = c /\ r.before = b /\ r.fallback = p.fallback
      /\ r.todo = p.todo \ {k} /\ (hit => r.matched) /\ (~hit => r.matched = p.matched)
      /\ r.got = IF hit THEN p.got \cup {k} ELSE p.got
  <2>1. r = Gone(p, k, hit)
    OBVIOUS
  <2> HIDE DEF p, k, b, c
  <2>2. OneFewer(p, Gone(p, k, hit), k, hit)
    BY <1>1, GoneIs
  <2> QED BY <2>1, <2>2 DEF OneFewer, b, c
<1>3. nextDone = IF k \in S THEN done \cup {k} ELSE done
  <2> HIDE DEF p, dom, k, b
  <2>1. k \in p.todo /\ r.call = p.call /\ r.fallback = p.fallback /\ r.todo = p.todo \ {k}
    BY <1>1, <1>2 DEF c
  <2>2. Done(dom, r) = IF k \in Sought(dom, p) THEN Done(dom, p) \cup {k} ELSE Done(dom, p)
    BY <2>1, DoneGrows, Zenon
  <2> QED BY <2>2 DEF nextDone, S, done
<1>4. /\ b \subseteq DOMAIN dom
      /\ ~m => \E j \in DOMAIN dom : b = {j}
      /\ Reads(c) => /\ sel = b /\ p.got = done \cap b /\ (p.matched <=> p.got # {})
                     /\ StopsAtFirst(m, c) => ~p.matched
      /\ ~Reads(c) => /\ sel = Having(b, c, done) /\ (p.matched <=> done # {})
                      /\ StopsAtFirst(m, c) => done = {}
  BY DEF PickEffect, Trying, Picking
<1>5. \/ k \notin S /\ hit = FALSE /\ now = sel /\ c.how = "visible"
      \/ k \in S /\ Reads(c) /\ hit = (k \in sel) /\ now = sel
      \/ k \in S /\ ~Reads(c) /\ hit = TRUE /\ now = IF m THEN Having(sel, c, {k}) ELSE IF c.select THEN {k} ELSE sel
  BY DEF Looked
<1>6. /\ ~Reads(c) /\ ~m => StopsAtFirst(m, c)
      /\ ~Reads(c) /\ m /\ StopsAtFirst(m, c) => c.how = "index"
      /\ Reads(c) => (StopsAtFirst(m, c) <=> c.how = "first_selected")
      /\ c.how = "index" => StopsAtFirst(m, c) /\ ~Reads(c)
      /\ c.how = "visible" => ~Reads(c) /\ Required(c)
      /\ c.how = "all_selected" => ~Required(c) /\ Reads(c)
      /\ c.how = "first_selected" => Required(c) /\ Reads(c)
      /\ Reads(c) => c.how \in {"all_selected", "first_selected"}
  <2>1. Reads(c) => c.how \in {"all_selected", "first_selected"}
    BY DEF Reads
  <2> QED BY <1>1, <2>1, StopsAre
<1>7. r.todo = {} \/ (hit /\ StopsAtFirst(m, c))
  BY <1>2
<1>8. /\ S \subseteq DOMAIN dom /\ DOMAIN dom \in SUBSET Nat /\ all = S /\ \A y \in todo : k <= y
      /\ todo \subseteq DOMAIN dom /\ k \in DOMAIN dom
  <2>1. /\ S \subseteq DOMAIN dom /\ DOMAIN dom \in SUBSET Nat /\ all = S /\ \A y \in todo : k <= y
        /\ Among(dom, p) \subseteq DOMAIN dom /\ k \in DOMAIN dom
    BY TryingIs
  <2>2. todo \subseteq Among(dom, p)
    BY DEF PickShape
  <2> QED BY <2>1, <2>2
<1>9. Reads(c) => S = DOMAIN dom
  <2>1. ASSUME Reads(c) PROVE S = DOMAIN dom
    <3>1. ~FallsBack(c) /\ Found(dom, c) = DOMAIN dom
      BY <2>1 DEF Reads, FallsBack, Found, Options
    <3>2. p.fallback => FallsBack(c)
      BY DEF PickShape
    <3>3. p.fallback \in BOOLEAN
      BY <1>1 DEF PickStates
    <3> QED BY <3>1, <3>2, <3>3 DEF Sought
  <2> QED BY <2>1
<1>10. c.how = "index" => S \subseteq {k} \/ k \notin S
  <2>1. ASSUME c.how = "index" PROVE S \subseteq {k} \/ k \notin S
    <3>1. ~FallsBack(c)
      BY <2>1 DEF FallsBack
    <3>2. p.fallback => FallsBack(c)
      BY DEF PickShape
    <3>3. S = Found(dom, c)
      BY <3>1, <3>2 DEF Sought
    <3>4. dom \in Lists
      BY DEF MenuTypes
    <3>5. \A x \in Found(dom, c) : \A y \in Found(dom, c) : x = y
      BY <1>1, <2>1, <3>4, IndexOne
    <3> QED BY <3>3, <3>5
  <2> QED BY <2>1
<1>11. done = S \ todo
  BY DEF Done
<1>12. PickEffect(t)' =
        (/\ pc'[t] \in Picking => Ended(r).before \subseteq DOMAIN dom
         /\ pc'[t] \in Picking /\ ~m => \E j \in DOMAIN dom : Ended(r).before = {j}
         /\ pc'[t] \in {"options", "candidates"} => now = Ended(r).before
         /\ pc'[t] \in Trying /\ Reads(Ended(r).call) =>
               /\ now = Ended(r).before /\ Ended(r).got = Done(dom, Ended(r)) \cap Ended(r).before
               /\ (Ended(r).matched <=> Ended(r).got # {})
               /\ StopsAtFirst(m, Ended(r).call) => ~Ended(r).matched
         /\ pc'[t] \in Trying /\ ~Reads(Ended(r).call) =>
               /\ now = Having(Ended(r).before, Ended(r).call, Done(dom, Ended(r)))
               /\ (Ended(r).matched <=> Done(dom, Ended(r)) # {})
               /\ StopsAtFirst(m, Ended(r).call) => Done(dom, Ended(r)) = {}
         /\ pc'[t] = "click" => (Topmost(Ended(r).todo) \in now) # Ended(r).call.select
         /\ pc'[t] = "picked" => Outcome(t)')
  BY DEF PickEffect
<1>13. Outcome(t)' =
        (LET q == Ended(r)
             every == All(dom, q.call)
         IN  /\ m => (now \ q.before) \cup (q.before \ now) \subseteq every
             /\ q.result # "none"
             /\ q.result = "ok" =>
                   /\ now = IF Reads(q.call) \/ every = {} THEN q.before
                            ELSE IF m THEN Having(q.before, q.call, every)
                            ELSE IF q.call.select THEN {Min(every)} ELSE q.before
                   /\ q.call.how = "all_selected" => q.got = q.before
                   /\ q.call.how = "first_selected" => q.got = {Min(q.before)}
             /\ q.result = "missing" => Required(q.call) /\ (IF Reads(q.call) THEN q.before ELSE every) = {})
  BY DEF Outcome
<1>14. r \in PickStates
  <2> HIDE DEF p, k
  <2>1. Gone(p, k, hit) \in PickStates
    BY <1>1, GoneIs
  <2> QED BY <2>1 DEF p, k
<1>15. /\ Ended(r).call = c /\ Ended(r).before = b /\ Ended(r).got = r.got
       /\ r.matched \/ ~Required(c) => Ended(r).result = "ok"
       /\ ~(r.matched \/ ~Required(c)) => Ended(r).result = "missing"
  BY <1>2, <1>14, EndedIs
<1>16. r.todo = todo \ {k} /\ k \in todo
  BY <1>1, <1>2
<1> DEFINE Goal ==
       /\ m => (now \ b) \cup (b \ now) \subseteq S
       /\ r.matched \/ ~Required(c) =>
             /\ now = IF Reads(c) \/ S = {} THEN b
                      ELSE IF m THEN Having(b, c, S)
                      ELSE IF c.select THEN {Min(S)} ELSE b
             /\ c.how = "all_selected" => r.got = b
             /\ c.how = "first_selected" => r.got = {Min(b)}
       /\ ~(r.matched \/ ~Required(c)) => (IF Reads(c) THEN b ELSE S) = {}
<1>17. Goal => PickEffect(t)'
  <2> SUFFICES ASSUME Goal PROVE PickEffect(t)'
    OBVIOUS
  <2>1. Outcome(t)'
    <3>1. all = S /\ all = All(dom, Ended(r).call)
      BY <1>8, <1>15
    <3> DEFINE w == Ended(r).result
    <3>2. (r.matched \/ ~Required(c) => w = "ok") /\ (~(r.matched \/ ~Required(c)) => w = "missing")
      BY <1>15
    <3>3. w # "none" /\ (w = "ok" => r.matched \/ ~Required(c)) /\ (w = "missing" => ~(r.matched \/ ~Required(c)))
      BY <3>2
    <3> HIDE DEF p, dom, k, S, done, nextDone, b, m, c, sel, now, todo, all
    <3> QED BY <3>1, <3>3, <1>13, <1>15 DEF w
  <2>2. pc'[t] = "picked" /\ Ended(r).before = b
    BY <1>15
  <2>3. b \subseteq DOMAIN dom /\ (~m => \E j \in DOMAIN dom : b = {j})
    BY <1>4
  <2> HIDE DEF p, dom, k, S, done, nextDone, b, m, c, sel, now, todo, all
  <2> QED BY <1>12, <2>1, <2>2, <2>3 DEF Trying
<1>18. k \in Nat
  BY <1>1
<1> HIDE DEF p, dom, k, S, done, nextDone, b, m, c, sel, now, todo, all
<1>19. CASE k \notin S
  <2>1. hit = FALSE /\ now = sel /\ ~Reads(c) /\ Required(c) /\ r.todo = {} /\ c.how = "visible"
    BY <1>5, <1>6, <1>7, <1>19
  <2>2. done = S /\ r.matched = p.matched
    BY <1>2, <1>11, <1>16, <1>19, <2>1
  <2>3. now = Having(b, c, S) /\ (r.matched <=> S # {}) /\ (~m => S = {})
    BY <1>4, <1>6, <2>1, <2>2
  <2>4. m => (now \ b) \cup (b \ now) \subseteq S
    BY <2>3 DEF Having
  <2>5. Having(b, c, {}) = b
    BY DEF Having
  <2>6. c.how # "all_selected" /\ c.how # "first_selected"
    BY <2>1
  <2>7. Goal
    BY <2>1, <2>3, <2>4, <2>5, <2>6
  <2> QED BY <1>17, <2>7
<1>20. CASE k \in S /\ Reads(c)
  <2>1. hit = (k \in b) /\ now = b /\ S = DOMAIN dom /\ b \subseteq S /\ sel = b
    BY <1>4, <1>5, <1>9, <1>20, <1>6
  <2>2. p.got = (S \ todo) \cap b /\ (p.matched <=> p.got # {}) /\ (StopsAtFirst(m, c) => ~p.matched)
    BY <1>4, <1>11, <1>20
  <2>3. CASE c.how = "all_selected"
    <3>1. r.todo = {} /\ ~Required(c)
      BY <1>6, <1>7, <2>3
    <3>2. S \ {k} = S \ todo
      BY <3>1, <1>16
    <3>3. r.got = b
      <4>1. p.got = (S \ {k}) \cap b
        BY <2>2, <3>2
      <4>2. CASE hit
        <5>1. r.got = p.got \cup {k} /\ k \in b
          BY <1>2, <2>1, <4>2
        <5> QED BY <2>1, <4>1, <5>1
      <4>3. CASE ~hit
        <5>1. r.got = p.got /\ k \notin b
          BY <1>2, <2>1, <4>3
        <5> QED BY <2>1, <4>1, <5>1
      <4> QED BY <4>2, <4>3
    <3> QED BY <1>17, <1>20, <2>1, <2>3, <3>1, <3>3
  <2>4. CASE c.how = "first_selected"
    <3>1. StopsAtFirst(m, c) /\ p.got = {} /\ ~p.matched /\ Required(c)
      BY <1>6, <2>2, <2>4
    <3>2. \A y \in b : y \in todo
      BY <2>1, <2>2, <3>1
    <3>3. CASE hit
      <4>1. r.got = {k} /\ r.matched /\ k \in b
        BY <1>2, <2>1, <3>1, <3>3
      <4>2. \A y \in b : k <= y
        BY <1>8, <3>2
      <4>3. b \in SUBSET Nat
        BY <1>8, <2>1
      <4>4. Min(b) = k
        BY <4>1, <4>2, <4>3, MinIsTopmost
      <4> QED BY <1>17, <1>20, <2>1, <2>4, <4>1, <4>4
    <3>4. CASE ~hit
      <4>1. r.todo = {} /\ ~r.matched
        BY <1>2, <1>7, <3>1, <3>4
      <4>2. b = {}
        BY <1>16, <2>1, <3>2, <3>4, <4>1
      <4> QED BY <1>17, <1>20, <2>1, <2>4, <3>1, <4>1, <4>2
    <3> QED BY <3>3, <3>4
  <2> QED BY <1>6, <1>20, <2>3, <2>4
<1>21. CASE k \in S /\ ~Reads(c)
  <2>1. hit = TRUE /\ now = (IF m THEN Having(sel, c, {k}) ELSE IF c.select THEN {k} ELSE sel) /\ r.matched
    BY <1>2, <1>5, <1>21
  <2>2. sel = Having(b, c, done) /\ (StopsAtFirst(m, c) => done = {})
    BY <1>4, <1>21
  <2>3. c.how # "all_selected" /\ c.how # "first_selected"
    BY <1>6, <1>21
  <2>4. CASE m
    <3>1. done \cup {k} = S
      <4>1. CASE StopsAtFirst(m, c)
        <5>1. S \subseteq {k}
          BY <1>6, <1>10, <1>21, <2>4, <4>1
        <5> QED BY <5>1, <2>2, <4>1, <1>21
      <4>2. CASE ~StopsAtFirst(m, c)
        BY <1>7, <1>11, <1>16, <1>21, <4>2
      <4> QED BY <4>1, <4>2
    <3>2. now = Having(b, c, S)
      <4>1. Having(Having(b, c, done), c, {k}) = Having(b, c, done \cup {k})
        BY DEF Having
      <4> QED BY <4>1, <3>1, <2>1, <2>2, <2>4
    <3>3. (now \ b) \cup (b \ now) \subseteq S
      BY <3>2 DEF Having
    <3> QED BY <1>17, <1>21, <2>1, <2>3, <2>4, <3>2, <3>3
  <2>5. CASE ~m
    <3>1. done = {} /\ sel = b
      <4>1. StopsAtFirst(m, c)
        BY <1>6, <1>21, <2>5
      <4>2. Having(b, c, {}) = b
        BY DEF Having
      <4> QED BY <4>1, <4>2, <2>2
    <3>2. \A y \in S : k <= y
      BY <1>8, <1>11, <3>1
    <3>3. Min(S) = k
      BY <1>8, <1>21, <3>2, MinIsTopmost
    <3> QED BY <1>17, <1>21, <2>1, <2>3, <2>5, <3>1, <3>3
  <2> QED BY <1>1, <2>4, <2>5
<1> QED BY <1>19, <1>20, <1>21

-----------------------------------------------------------------------------
(* A step that writes one record keeps the records typed. *)
LEMMA PickTypesStep ==
  ASSUME PickTypes, NEW t \in Tasks, NEW r \in PickStates, picks' = [picks EXCEPT ![t] = r] PROVE PickTypes'
BY DEF PickTypes

(* On to the next option, or the method ends. *)
LEMMA AdvanceKeeps ==
  ASSUME LocalTypes, MenuTypes, PickTypes, NEW t \in Tasks, NEW from, NEW hit \in BOOLEAN, Advance(t, from, hit),
         pc[t] \in Trying, PickShape(t), menu'.dom = menu.dom, menu'.multiple = menu.multiple
  PROVE  /\ PickTypes' /\ PickShape(t)' /\ alone'[t] = alone[t]
         /\ PickEffect(t) /\ Looked(t, hit) => PickEffect(t)'
<1> DEFINE p == picks[t]
           k == Topmost(picks[t].todo)
           r == Gone(picks[t], Topmost(picks[t].todo), hit)
           ends == r.todo = {} \/ (hit /\ StopsAtFirst(menu.multiple, r.call))
           Goal == /\ PickTypes' /\ PickShape(t)' /\ alone'[t] = alone[t]
                   /\ PickEffect(t) /\ Looked(t, hit) => PickEffect(t)'
<1>1. p \in PickStates /\ k \in Nat /\ p.call \in Picks /\ ~Panics(menu.multiple, p.call)
  BY TryingIs
<1>2. /\ r \in PickStates /\ r.call = p.call /\ r.fallback = p.fallback /\ r.result = p.result
      /\ r.todo = p.todo \ {k}
  <2>0. r = Gone(p, k, hit)
    OBVIOUS
  <2> HIDE DEF p, k, r
  <2>3. p \in PickStates /\ k \in Nat
    BY <1>1
  <2>4. hit \in BOOLEAN
    OBVIOUS
  <2>1. Gone(p, k, hit) \in PickStates /\ OneFewer(p, Gone(p, k, hit), k, hit)
    BY ONLY <2>3, <2>4, GoneIs
  <2> QED BY <2>0, <2>1 DEF OneFewer
<1>3. \/ ends /\ Goes(t, from, "picked", Ended(r))
      \/ ~ends /\ r.fallback /\ Goes(t, from, "shows", r)
      \/ ~ends /\ ~r.fallback /\ Goes(t, from, "look", r)
  BY <1>1, AdvanceIs
<1>4. r = Gone(picks[t], Topmost(picks[t].todo), hit)
  OBVIOUS
<1>5. ASSUME ends, Goes(t, from, "picked", Ended(r)) PROVE Goal
  <2>1. /\ Ended(r) \in PickStates /\ Ended(r).call = r.call
        /\ Ended(r).result # "none"
    <3> HIDE DEF r
    <3>1. LET q == Ended(r) IN /\ q \in PickStates /\ q.call = r.call
                               /\ r.matched \/ ~Required(r.call) => q.result = "ok"
                               /\ ~(r.matched \/ ~Required(r.call)) => q.result = "missing"
      BY <1>2, EndedIs
    <3> QED BY <3>1
  <2> HIDE DEF r
  <2>2. /\ pc'[t] = "picked" /\ picks'[t] = Ended(r) /\ picks' = [picks EXCEPT ![t] = Ended(r)] /\ alone'[t] = alone[t]
    BY <1>5, GoesIs
  <2>3. PickTypes'
    BY <2>1, <2>2, PickTypesStep
  <2>4. PickShape(t)'
    <3>1. picks'[t].call \in Picks /\ ~Panics(menu'.multiple, picks'[t].call)
      BY <1>1, <1>2, <2>1, <2>2
    <3> QED BY <3>1, <2>2 DEF PickShape, Trying
  <2>5. PickEffect(t) /\ Looked(t, hit) => PickEffect(t)'
    BY <1>4, <1>5, <2>2, EffectEnds
  <2> QED BY <2>2, <2>3, <2>4, <2>5
<1>6. ASSUME ~ends, NEW to, Goes(t, from, to, r), (r.fallback /\ to = "shows") \/ (~r.fallback /\ to = "look")
      PROVE  Goal
  <2>1. r.todo # {} /\ ~(hit /\ StopsAtFirst(menu.multiple, r.call))
    BY <1>6
  <2> HIDE DEF r, ends
  <2>2. /\ pc'[t] = to /\ picks'[t] = r /\ picks' = [picks EXCEPT ![t] = r] /\ alone'[t] = alone[t]
    BY <1>6, GoesIs
  <2>3. PickTypes'
    BY <1>2, <2>2, PickTypesStep
  <2>4. PickShape(t)'
    BY <1>2, <1>6, <2>1, <2>2, ShapeGoesOn
  <2>5. PickEffect(t) /\ Looked(t, hit) => PickEffect(t)'
    BY <1>4, <1>6, <2>1, <2>2, EffectGoesOn
  <2> QED BY <2>2, <2>3, <2>4, <2>5
<1>7. ASSUME ~ends, r.fallback, Goes(t, from, "shows", r) PROVE Goal
  <2> HIDE DEF ends, r, Goal
  <2> QED BY <1>6, <1>7
<1>8. ASSUME ~ends, ~r.fallback, Goes(t, from, "look", r) PROVE Goal
  <2> HIDE DEF ends, r, Goal
  <2> QED BY <1>6, <1>8
<1>9. Goal
  <2> HIDE DEF ends, r, Goal
  <2> QED BY <1>3, <1>5, <1>7, <1>8
<1> QED BY <1>9

(* The method is called. *)
LEMMA BeginKeeps ==
  ASSUME LocalTypes, MenuTypes, PickTypes, NEW t \in Tasks, PickBegin(t)
  PROVE  MenuTypes' /\ PickTypes' /\ PickShape(t)' /\ PickEffect(t)'
<1>1. PICK c \in Picks : /\ ~Panics(menu.multiple, c)
                         /\ picks' = [picks EXCEPT ![t] = Called(c, menu.selected)]
  BY DEF PickBegin
<1>2. menu' = menu /\ pc'[t] = "options"
  BY DEF PickBegin, Step, LocalTypes
<1>4. menu.selected \subseteq DOMAIN menu.dom /\ DOMAIN menu.dom \in SUBSET Nat
      /\ (~menu.multiple => \E k \in DOMAIN menu.dom : menu.selected = {k})
  BY ListsAssumption DEF MenuTypes
<1> DEFINE q == Called(c, menu.selected)
<1>5. q \in PickStates /\ q.call = c /\ q.todo = {} /\ q.fallback = FALSE /\ q.matched = FALSE /\ q.got = {} /\ q.result = "none"
      /\ q.before = menu.selected
  BY <1>4 DEF PickStates, Whats, Called
<1>6. picks' = [picks EXCEPT ![t] = q]
  BY <1>1
<1> HIDE DEF q
<1>7. PickTypes' /\ picks'[t] = q
  BY <1>5, <1>6, PickTypesStep DEF PickTypes
<1>8. PickShape(t)'
  BY <1>1, <1>2, <1>5, <1>7 DEF PickShape, Trying
<1>9. PickEffect(t)'
  BY <1>2, <1>4, <1>5, <1>7 DEF PickEffect, Trying
<1> QED BY <1>2, <1>7, <1>8, <1>9 DEF MenuTypes

(* The method returns, or fails. *)
LEMMA EndKeeps ==
  ASSUME LocalTypes, MenuTypes, PickTypes, NEW t \in Tasks, PickEnd(t)
  PROVE  MenuTypes' /\ PickTypes' /\ PickShape(t)' /\ pc'[t] = "idle"
<1>1. menu' = menu /\ pc'[t] = "idle" /\ picks' = [picks EXCEPT ![t] = NoPick]
  BY DEF PickEnd, End, LocalTypes
<1>2. NoPick \in PickStates
  BY DEF NoPick, Called, PickStates, Whats
<1>3. PickTypes'
  BY <1>1, <1>2, PickTypesStep
<1>4. PickShape(t)'
  BY <1>1 DEF PickShape, Picking, Trying
<1> QED BY <1>1, <1>3, <1>4 DEF MenuTypes

-----------------------------------------------------------------------------
(* The record with its options to look at. *)
LEMMA TodoIs ==
  ASSUME NEW p \in PickStates, NEW S \in SUBSET Nat
  PROVE  LET q == [p EXCEPT !.todo = S] IN
         /\ q \in PickStates /\ q.call = p.call /\ q.before = p.before /\ q.fallback = p.fallback /\ q.got = p.got
         /\ q.todo = S /\ q.matched = p.matched /\ q.result = p.result
<1> DEFINE q == [p EXCEPT !.todo = S]
<1>1. q = [call |-> p.call, todo |-> S, fallback |-> p.fallback, matched |-> p.matched, got |-> p.got,
           result |-> p.result, before |-> p.before]
  BY DEF PickStates
<1>2. q \in PickStates
  BY <1>1 DEF PickStates
<1>3. /\ q.call = p.call /\ q.before = p.before /\ q.fallback = p.fallback /\ q.got = p.got
      /\ q.todo = S /\ q.matched = p.matched /\ q.result = p.result
  <2> HIDE DEF q
  <2> QED BY <1>1
<1> QED BY <1>2, <1>3

(* The record when the call falls back on the longest word. *)
LEMMA FallbackIs ==
  ASSUME NEW p \in PickStates, NEW S \in SUBSET Nat
  PROVE  LET q == [p EXCEPT !.todo = S, !.fallback = TRUE] IN
         /\ q \in PickStates /\ q.call = p.call /\ q.before = p.before /\ q.fallback = TRUE /\ q.got = p.got
         /\ q.todo = S /\ q.matched = p.matched /\ q.result = p.result
<1> DEFINE f == TRUE
           q == [p EXCEPT !.todo = S, !.fallback = f]
<1>0. f \in BOOLEAN /\ f = TRUE
  OBVIOUS
<1>4. q = [p EXCEPT !.todo = S, !.fallback = f]
  OBVIOUS
<1> HIDE DEF f, q
<1>1. q = [call |-> p.call, todo |-> S, fallback |-> f, matched |-> p.matched, got |-> p.got,
           result |-> p.result, before |-> p.before]
  BY <1>4 DEF PickStates
<1>2. q \in PickStates
  BY <1>0, <1>1 DEF PickStates
<1>3. /\ q.call = p.call /\ q.before = p.before /\ q.fallback = f /\ q.got = p.got
      /\ q.todo = S /\ q.matched = p.matched /\ q.result = p.result
  BY <1>1
<1> QED BY <1>0, <1>2, <1>3 DEF f, q

(* A method that has found nothing. *)
LEMMA NothingFound ==
  ASSUME LocalTypes, MenuTypes, PickTypes, NEW t \in Tasks, pc[t] \in {"options", "candidates"}, PickShape(t),
         All(menu.dom, picks[t].call) = {}, ~Reads(picks[t].call), menu' = menu,
         NEW from, Goes(t, from, "picked", Ended(picks[t]))
  PROVE  /\ PickTypes' /\ PickShape(t)' /\ alone'[t] = alone[t]
         /\ PickEffect(t) => PickEffect(t)'
<1> DEFINE p == picks[t]
           c == p.call
           q == Ended(p)
<1>1. p \in PickStates /\ c \in Picks /\ ~Panics(menu.multiple, c) /\ p.matched = FALSE
  BY DEF PickTypes, PickShape, Picking
<1>2. /\ q \in PickStates /\ q.call = c /\ q.before = p.before /\ q.got = p.got
      /\ p.matched \/ ~Required(c) => q.result = "ok"
      /\ ~(p.matched \/ ~Required(c)) => q.result = "missing"
  <2> HIDE DEF p, q
  <2> QED BY <1>1, EndedIs DEF q, c
<1> HIDE DEF q
<1>3. /\ pc'[t] = "picked" /\ picks'[t] = q /\ picks' = [picks EXCEPT ![t] = q] /\ alone'[t] = alone[t]
  BY GoesIs DEF q
<1>4. PickTypes'
  BY <1>2, <1>3, PickTypesStep
<1>5. PickShape(t)'
  BY <1>1, <1>2, <1>3 DEF PickShape, Trying
<1>6. PickEffect(t) => PickEffect(t)'
  <2> SUFFICES ASSUME PickEffect(t) PROVE PickEffect(t)'
    OBVIOUS
  <2>1. /\ p.before \subseteq DOMAIN menu.dom /\ (~menu.multiple => \E k \in DOMAIN menu.dom : p.before = {k})
        /\ menu.selected = p.before
    BY DEF PickEffect, Picking
  <2>2. Outcome(t)'
    <3>1. All(menu'.dom, q.call) = {} /\ ~Reads(q.call) /\ q.call.how # "all_selected" /\ q.call.how # "first_selected"
      BY <1>2 DEF Reads
    <3>2. q.result # "none" /\ (q.result = "missing" => Required(q.call))
      BY <1>1, <1>2
    <3>3. menu'.selected = q.before
      BY <1>2, <2>1
    <3> QED BY <1>3, <3>1, <3>2, <3>3 DEF Outcome
  <2> QED BY <1>2, <1>3, <2>1, <2>2 DEF PickEffect, Trying
<1> QED BY <1>3, <1>4, <1>5, <1>6

(* A method that has found options. *)
LEMMA SomeFound ==
  ASSUME LocalTypes, MenuTypes, PickTypes, NEW t \in Tasks, pc[t] \in {"options", "candidates"}, PickShape(t), menu' = menu,
         NEW q \in PickStates, q.call = picks[t].call, q.before = picks[t].before, q.got = picks[t].got,
         q.matched = picks[t].matched, q.result = picks[t].result,
         q.todo = Among(menu.dom, q), q.todo # {}, q.fallback => Found(menu.dom, q.call) = {} /\ FallsBack(q.call),
         NEW from, NEW to, Goes(t, from, to, q),
         \/ q.fallback = TRUE /\ to = "shows"
         \/ q.fallback = FALSE /\ to = "look"
  PROVE  /\ PickTypes' /\ PickShape(t)' /\ alone'[t] = alone[t]
         /\ PickEffect(t) => PickEffect(t)'
<1> DEFINE p == picks[t]
           c == p.call
<1>1. /\ c \in Picks /\ ~Panics(menu.multiple, c) /\ p.matched = FALSE /\ p.got = {} /\ p.result = "none"
  BY DEF PickShape, Picking
<1>2. /\ pc'[t] = to /\ picks'[t] = q /\ picks' = [picks EXCEPT ![t] = q] /\ alone'[t] = alone[t]
  BY GoesIs
<1>3. PickTypes'
  BY <1>2, PickTypesStep
<1>4. PickShape(t)'
  BY <1>1, <1>2 DEF PickShape, Trying
<1>5. PickEffect(t) => PickEffect(t)'
  <2> SUFFICES ASSUME PickEffect(t) PROVE PickEffect(t)'
    OBVIOUS
  <2>1. /\ p.before \subseteq DOMAIN menu.dom /\ (~menu.multiple => \E k \in DOMAIN menu.dom : p.before = {k})
        /\ menu.selected = p.before
    BY DEF PickEffect, Picking
  <2>2. Done(menu.dom, q) = {}
    <3>1. menu.dom \in Lists
      BY DEF MenuTypes
    <3>2. Sought(menu.dom, q) \subseteq Among(menu.dom, q)
      BY <1>1, <3>1, AmongOK
    <3> QED BY <3>2 DEF Done
  <2>3. Having(q.before, q.call, {}) = q.before
    BY DEF Having
  <2>4. pc'[t] \in {"shows", "look"}
    BY <1>2
  <2> QED BY <1>1, <1>2, <2>1, <2>2, <2>3, <2>4 DEF PickEffect
<1> QED BY <1>2, <1>3, <1>4, <1>5

-----------------------------------------------------------------------------
(* Finding the options keeps the invariant of its task. *)
LEMMA FindKeeps ==
  ASSUME LocalTypes, MenuTypes, PickTypes, NEW t \in Tasks, PickFind(t), PickShape(t)
  PROVE  /\ menu' = menu /\ PickTypes' /\ PickShape(t)' /\ alone'[t] = alone[t]
         /\ PickEffect(t) => PickEffect(t)'
<1> DEFINE p == picks[t]
           c == p.call
           S == Found(menu.dom, p.call)
           q == [p EXCEPT !.todo = S]
           Goal == /\ menu' = menu /\ PickTypes' /\ PickShape(t)' /\ alone'[t] = alone[t]
                   /\ PickEffect(t) => PickEffect(t)'
<1>1. pc[t] = "options" /\ menu' = menu
  BY DEF PickFind
<1>2. /\ p \in PickStates /\ c \in Picks /\ ~Panics(menu.multiple, c) /\ p.todo = {} /\ p.fallback = FALSE
      /\ menu.dom \in Lists
  BY <1>1 DEF PickTypes, PickShape, Picking, MenuTypes
<1>3. S \subseteq DOMAIN menu.dom /\ DOMAIN menu.dom # {} /\ S \in SUBSET Nat
  BY <1>2, FoundOK
<1>4. \/ S # {} /\ Goes(t, "options", "look", q)
      \/ S = {} /\ FallsBack(c) /\ Goes(t, "options", "candidates", p)
      \/ S = {} /\ ~FallsBack(c) /\ Goes(t, "options", "picked", Ended(p))
  BY DEF PickFind
<1>5. ASSUME S # {}, Goes(t, "options", "look", q) PROVE Goal
  <2>1. /\ q \in PickStates /\ q.call = c /\ q.before = p.before /\ q.fallback = p.fallback /\ q.got = p.got
        /\ q.todo = S /\ q.matched = p.matched /\ q.result = p.result
    <3> HIDE DEF p, S
    <3> QED BY <1>2, <1>3, TodoIs
  <2> HIDE DEF q, S
  <2>2. q.todo = Among(menu.dom, q) /\ q.todo # {} /\ q.fallback = FALSE
    BY <1>2, <1>5, <2>1 DEF Among, S
  <2>3. /\ PickTypes' /\ PickShape(t)' /\ alone'[t] = alone[t]
        /\ PickEffect(t) => PickEffect(t)'
    BY <1>1, <1>5, <2>1, <2>2, SomeFound
  <2> QED BY <1>1, <2>3
<1>6. ASSUME S = {}, FallsBack(c), Goes(t, "options", "candidates", p) PROVE Goal
  <2>1. /\ pc'[t] = "candidates" /\ picks'[t] = p /\ picks' = [picks EXCEPT ![t] = p] /\ alone'[t] = alone[t]
    BY <1>6, GoesIs
  <2>2. PickTypes'
    BY <1>2, <2>1, PickTypesStep
  <2>3. PickShape(t)'
    BY <1>1, <1>2, <1>6, <2>1 DEF PickShape, Trying
  <2>4. PickEffect(t) => PickEffect(t)'
    BY <1>1, <2>1 DEF PickEffect, Trying, Picking
  <2> QED BY <1>1, <2>1, <2>2, <2>3, <2>4
<1>7. ASSUME S = {}, ~FallsBack(c), Goes(t, "options", "picked", Ended(p)) PROVE Goal
  <2>1. All(menu.dom, c) = {}
    BY <1>7 DEF All
  <2>2. ~Reads(c)
    <3>1. Reads(c) => S = DOMAIN menu.dom
      BY DEF Reads, Found, Options
    <3> QED BY <1>3, <1>7, <3>1
  <2>3. /\ PickTypes' /\ PickShape(t)' /\ alone'[t] = alone[t]
        /\ PickEffect(t) => PickEffect(t)'
    BY <1>1, <1>7, <2>1, <2>2, NothingFound
  <2> QED BY <1>1, <2>3
<1>8. Goal
  <2> HIDE DEF Goal, S, p, q
  <2> QED BY <1>4, <1>5, <1>6, <1>7
<1> QED BY <1>8

(* Finding the candidates keeps it. *)
LEMMA CandidatesKeep ==
  ASSUME LocalTypes, MenuTypes, PickTypes, NEW t \in Tasks, PickCandidates(t), PickShape(t)
  PROVE  /\ menu' = menu /\ PickTypes' /\ PickShape(t)' /\ alone'[t] = alone[t]
         /\ PickEffect(t) => PickEffect(t)'
<1> DEFINE p == picks[t]
           c == p.call
           S == Candidates(menu.dom, p.call)
           q == [p EXCEPT !.todo = S, !.fallback = TRUE]
           Goal == /\ menu' = menu /\ PickTypes' /\ PickShape(t)' /\ alone'[t] = alone[t]
                   /\ PickEffect(t) => PickEffect(t)'
<1>1. pc[t] = "candidates" /\ menu' = menu
  BY DEF PickCandidates
<1>2. /\ p \in PickStates /\ c \in Picks /\ ~Panics(menu.multiple, c) /\ p.todo = {} /\ p.fallback = FALSE
      /\ menu.dom \in Lists /\ Found(menu.dom, c) = {} /\ FallsBack(c)
  BY <1>1 DEF PickTypes, PickShape, Picking, MenuTypes
<1>3. S \subseteq DOMAIN menu.dom /\ DOMAIN menu.dom # {} /\ S \in SUBSET Nat
  BY <1>2, FoundOK
<1>4. \/ S # {} /\ Goes(t, "candidates", "shows", q)
      \/ S = {} /\ Goes(t, "candidates", "picked", Ended(p))
  BY DEF PickCandidates
<1>5. ASSUME S # {}, Goes(t, "candidates", "shows", q) PROVE Goal
  <2>1. /\ q \in PickStates /\ q.call = c /\ q.before = p.before /\ q.fallback = TRUE /\ q.got = p.got
        /\ q.todo = S /\ q.matched = p.matched /\ q.result = p.result
    <3> HIDE DEF p, S
    <3> QED BY <1>2, <1>3, FallbackIs
  <2> HIDE DEF q, S
  <2>2. q.todo = Among(menu.dom, q) /\ q.todo # {}
    BY <1>2, <1>5, <2>1 DEF Among, S
  <2>3. Found(menu.dom, q.call) = {} /\ FallsBack(q.call)
    BY <1>2, <2>1
  <2>4. /\ PickTypes' /\ PickShape(t)' /\ alone'[t] = alone[t]
        /\ PickEffect(t) => PickEffect(t)'
    BY <1>1, <1>5, <2>1, <2>2, <2>3, SomeFound
  <2> QED BY <1>1, <2>4
<1>6. ASSUME S = {}, Goes(t, "candidates", "picked", Ended(p)) PROVE Goal
  <2>1. All(menu.dom, c) = {}
    BY <1>2, <1>6 DEF All, Showing
  <2>2. ~Reads(c)
    BY <1>2 DEF Reads, FallsBack
  <2>3. /\ PickTypes' /\ PickShape(t)' /\ alone'[t] = alone[t]
        /\ PickEffect(t) => PickEffect(t)'
    BY <1>1, <1>6, <2>1, <2>2, NothingFound
  <2> QED BY <1>1, <2>3
<1>7. Goal
  <2> HIDE DEF Goal, S, p, q
  <2> QED BY <1>4, <1>5, <1>6
<1> QED BY <1>7

(* Reading what an option shows keeps it. *)
LEMMA ShowsKeep ==
  ASSUME LocalTypes, MenuTypes, PickTypes, NEW t \in Tasks, PickShows(t), PickShape(t)
  PROVE  /\ menu' = menu /\ PickTypes' /\ PickShape(t)' /\ alone'[t] = alone[t]
         /\ PickEffect(t) => PickEffect(t)'
<1> DEFINE p == picks[t]
           c == p.call
           k == Topmost(p.todo)
<1>1. pc[t] = "shows" /\ menu' = menu
  BY DEF PickShows
<1>2. p \in PickStates /\ k \in p.todo
  BY <1>1, TryingIs DEF Trying
<1>3. p.fallback /\ FallsBack(c) /\ p.todo \subseteq Candidates(menu.dom, c)
  <2>1. p.fallback /\ (p.fallback => FallsBack(c)) /\ p.todo \subseteq Among(menu.dom, p)
    BY <1>1 DEF PickShape, Trying
  <2> QED BY <2>1 DEF Among
<1>4. CASE menu.dom[k].shown = c.text
  <2>1. Goes(t, "shows", "look", p)
    BY <1>4 DEF PickShows
  <2>2. /\ pc'[t] = "look" /\ picks'[t] = p /\ picks' = [picks EXCEPT ![t] = p] /\ alone'[t] = alone[t]
    BY <2>1, GoesIs
  <2>3. PickTypes'
    BY <1>2, <2>2, PickTypesStep
  <2>4. k \in Showing(menu.dom, c)
    BY <1>2, <1>3, <1>4 DEF Showing
  <2>5. PickShape(t)'
    BY <1>1, <2>2, <2>4 DEF PickShape, Trying, Picking
  <2>6. PickEffect(t) => PickEffect(t)'
    BY <1>1, <2>2 DEF PickEffect, Trying, Picking
  <2> QED BY <1>1, <2>2, <2>3, <2>5, <2>6
<1>5. CASE menu.dom[k].shown # c.text
  <2>1. Advance(t, "shows", FALSE)
    BY <1>5 DEF PickShows
  <2>2. k \notin Sought(menu.dom, p)
    BY <1>3, <1>5 DEF Sought, Showing
  <2>3. Looked(t, FALSE)
    <3>1. c.how = "visible"
      BY <1>3 DEF FallsBack
    <3> QED BY <1>1, <2>2, <3>1 DEF Looked
  <2>4. pc[t] \in Trying
    BY <1>1 DEF Trying
  <2>5. menu'.dom = menu.dom /\ menu'.multiple = menu.multiple /\ FALSE \in BOOLEAN
    BY <1>1
  <2> QED BY <1>1, <2>1, <2>3, <2>4, <2>5, AdvanceKeeps
<1> QED BY <1>4, <1>5

(* The option that is looked at is one that the method is for. *)
LEMMA LooksAtSought ==
  ASSUME MenuTypes, PickTypes, NEW t \in Tasks, pc[t] \in {"look", "click"}, PickShape(t)
  PROVE  Topmost(picks[t].todo) \in Sought(menu.dom, picks[t])
<1> DEFINE p == picks[t]
           k == Topmost(p.todo)
<1>1. p \in PickStates /\ k \in p.todo
  BY TryingIs DEF Trying
<1>2. p.todo \subseteq Among(menu.dom, p) /\ (p.fallback => k \in Showing(menu.dom, p.call))
  BY DEF PickShape, Trying
<1> QED BY <1>1, <1>2 DEF Among, Sought, PickStates

-----------------------------------------------------------------------------
(* Looking whether an option is selected keeps it. *)
LEMMA LookKeeps ==
  ASSUME LocalTypes, MenuTypes, PickTypes, NEW t \in Tasks, PickLook(t), PickShape(t)
  PROVE  /\ menu' = menu /\ PickTypes' /\ PickShape(t)' /\ alone'[t] = alone[t]
         /\ PickEffect(t) => PickEffect(t)'
<1> DEFINE p == picks[t]
           c == p.call
           k == Topmost(p.todo)
           Goal == /\ menu' = menu /\ PickTypes' /\ PickShape(t)' /\ alone'[t] = alone[t]
                   /\ PickEffect(t) => PickEffect(t)'
<1>1. pc[t] = "look" /\ menu' = menu
  BY DEF PickLook
<1>2. p \in PickStates /\ k \in Sought(menu.dom, p) /\ c \in Picks
  BY <1>1, TryingIs, LooksAtSought DEF Trying
<1>3. c.select \in BOOLEAN /\ (~menu.multiple => \E j : menu.selected = {j})
  BY <1>2, HowsAre DEF MenuTypes
<1>4. PICK hit \in BOOLEAN : hit = (k \in menu.selected)
  <2>1. k \in menu.selected => TRUE = (k \in menu.selected)
    OBVIOUS
  <2>2. k \notin menu.selected => FALSE = (k \in menu.selected)
    OBVIOUS
  <2> QED BY <2>1, <2>2, Zenon
<1>5. ASSUME NEW b \in BOOLEAN, Advance(t, "look", b), Looked(t, b) PROVE Goal
  <2>1. pc[t] \in Trying /\ menu'.dom = menu.dom /\ menu'.multiple = menu.multiple
    BY <1>1 DEF Trying
  <2> QED BY <1>1, <1>5, <2>1, AdvanceKeeps
<1>6. CASE Reads(c)
  <2>1. Advance(t, "look", k \in menu.selected)
    BY <1>6 DEF PickLook
  <2>2. Advance(t, "look", hit)
    BY <1>4, <2>1, Zenon
  <2>3. Looked(t, hit)
    BY <1>1, <1>2, <1>4, <1>6 DEF Looked
  <2> QED BY <1>5, <2>2, <2>3
<1>7. CASE ~Reads(c) /\ hit = c.select
  <2>1. Advance(t, "look", TRUE)
    BY <1>4, <1>7 DEF PickLook
  <2>2. menu'.selected = IF menu.multiple THEN Having(menu.selected, c, {k})
                         ELSE IF c.select THEN {k} ELSE menu.selected
    BY <1>1, <1>3, <1>4, <1>7 DEF Having
  <2>3. Looked(t, TRUE)
    BY <1>2, <1>7, <2>2 DEF Looked
  <2> QED BY <1>5, <2>1, <2>3
<1>8. CASE ~Reads(c) /\ hit # c.select
  <2>1. Goes(t, "look", "click", p)
    BY <1>4, <1>8 DEF PickLook
  <2>2. /\ pc'[t] = "click" /\ picks'[t] = p /\ picks' = [picks EXCEPT ![t] = p] /\ alone'[t] = alone[t]
    BY <2>1, GoesIs
  <2>3. PickTypes'
    BY <1>2, <2>2, PickTypesStep
  <2>4. PickShape(t)'
    BY <1>1, <1>8, <2>2 DEF PickShape, Trying, Picking
  <2>5. PickEffect(t) => PickEffect(t)'
    <3>1. (k \in menu.selected) # c.select
      BY <1>4, <1>8
    <3> QED BY <1>1, <2>2, <3>1 DEF PickEffect, Trying, Picking
  <2> QED BY <1>1, <2>2, <2>3, <2>4, <2>5
<1> QED BY <1>6, <1>7, <1>8

(* Clicking an option keeps it. *)
LEMMA ClickKeeps ==
  ASSUME LocalTypes, MenuTypes, PickTypes, NEW t \in Tasks, PickClick(t), PickShape(t)
  PROVE  /\ MenuTypes' /\ PickTypes' /\ PickShape(t)' /\ alone'[t] = alone[t]
         /\ PickEffect(t) => PickEffect(t)'
<1> DEFINE p == picks[t]
           c == p.call
           k == Topmost(p.todo)
<1>1. pc[t] = "click" /\ Clicks(k) /\ Advance(t, "click", TRUE)
  BY DEF PickClick
<1>2. p \in PickStates /\ k \in Sought(menu.dom, p) /\ c \in Picks /\ k \in DOMAIN menu.dom /\ pc[t] \in Trying
  BY <1>1, TryingIs, LooksAtSought DEF Trying
<1>3. c.select \in BOOLEAN /\ ~Reads(c)
  BY <1>1, <1>2, HowsAre DEF PickShape
<1>4. /\ menu'.dom = menu.dom /\ menu'.multiple = menu.multiple
      /\ menu' = [dom |-> menu'.dom, multiple |-> menu'.multiple, selected |-> menu'.selected]
      /\ menu'.selected = IF ~menu.multiple THEN {k} ELSE IF k \in menu.selected THEN menu.selected \ {k} ELSE menu.selected \cup {k}
  BY <1>1 DEF Clicks, MenuTypes
<1>5. MenuTypes'
  <2>1. menu'.selected \subseteq DOMAIN menu.dom /\ (~menu.multiple => menu'.selected = {k})
    BY <1>2, <1>4 DEF MenuTypes
  <2> QED BY <1>2, <1>4, <2>1 DEF MenuTypes
<1>6. PickTypes' /\ PickShape(t)' /\ alone'[t] = alone[t] /\ (PickEffect(t) /\ Looked(t, TRUE) => PickEffect(t)')
  <2>1. TRUE \in BOOLEAN
    OBVIOUS
  <2> QED BY <1>1, <1>2, <1>4, <2>1, AdvanceKeeps
<1>7. PickEffect(t) => Looked(t, TRUE)
  <2> SUFFICES ASSUME PickEffect(t) PROVE Looked(t, TRUE)
    OBVIOUS
  <2>1. (k \in menu.selected) # c.select
    BY <1>1 DEF PickEffect
  <2>2. ~menu.multiple => \E j : menu.selected = {j}
    BY DEF MenuTypes
  <2>3. menu'.selected = IF menu.multiple THEN Having(menu.selected, c, {k})
                         ELSE IF c.select THEN {k} ELSE menu.selected
    <3>1. CASE menu.multiple
      BY <1>3, <1>4, <2>1, <3>1 DEF Having
    <3>2. CASE ~menu.multiple
      BY <1>3, <1>4, <2>1, <2>2, <3>2
    <3> QED BY <3>1, <3>2
  <2> QED BY <1>2, <1>3, <2>3 DEF Looked
<1> QED BY <1>5, <1>6, <1>7

(* One step of a method. *)
LEMMA PickKeeps ==
  ASSUME LocalTypes, MenuTypes, PickTypes, NEW t \in Tasks, Pick(t), PickShape(t),
         pc[t] \in Picking /\ alone[t] => PickEffect(t)
  PROVE  /\ MenuTypes' /\ PickTypes' /\ PickShape(t)'
         /\ pc'[t] \in Picking /\ alone'[t] => PickEffect(t)'
<1>1. CASE PickBegin(t)
  BY <1>1, BeginKeeps
<1>2. CASE PickFind(t)
  <2>1. pc[t] \in Picking
    BY <1>2 DEF PickFind, Picking
  <2> QED BY <1>2, <2>1, FindKeeps DEF MenuTypes
<1>3. CASE PickCandidates(t)
  <2>1. pc[t] \in Picking
    BY <1>3 DEF PickCandidates, Picking
  <2> QED BY <1>3, <2>1, CandidatesKeep DEF MenuTypes
<1>4. CASE PickShows(t)
  <2>1. pc[t] \in Picking
    BY <1>4 DEF PickShows, Picking
  <2> QED BY <1>4, <2>1, ShowsKeep DEF MenuTypes
<1>5. CASE PickLook(t)
  <2>1. pc[t] \in Picking
    BY <1>5 DEF PickLook, Picking
  <2> QED BY <1>5, <2>1, LookKeeps DEF MenuTypes
<1>6. CASE PickClick(t)
  <2>1. pc[t] \in Picking
    BY <1>6 DEF PickClick, Picking
  <2> QED BY <1>6, <2>1, ClickKeeps
<1>7. CASE PickEnd(t)
  <2>1. "idle" \notin Picking
    BY DEF Picking
  <2> QED BY <1>7, <2>1, EndKeeps
<1> QED BY <1>1, <1>2, <1>3, <1>4, <1>5, <1>6, <1>7 DEF Pick

-----------------------------------------------------------------------------
(* The <select> keeps its options. *)
LEMMA MenuKept ==
  ASSUME LocalTypes, PickTypes, OthersFit, RolesFit, [BrowserNext]_stateVars
  PROVE  menu'.dom = menu.dom /\ menu'.multiple = menu.multiple
<1>1. ASSUME NEW t \in Tasks, Pick(t) PROVE menu'.dom = menu.dom /\ menu'.multiple = menu.multiple
  BY <1>1, PickGoes
<1>2. ASSUME NEW t \in Tasks, Navigate(t) \/ Method(t) \/ Chain(t) \/ Context(t) \/ Settle(t)
      PROVE  menu' = menu
  BY <1>2, QuietSteps DEF PickQuiet
<1>3. Other => menu'.dom = menu.dom /\ menu'.multiple = menu.multiple
  <2>1. ASSUME NEW k, Clicks(k) PROVE menu'.dom = menu.dom /\ menu'.multiple = menu.multiple
    BY <2>1 DEF Clicks
  <2> QED BY <2>1 DEF Other
<1>4. UNCHANGED stateVars => menu' = menu
  BY DEF stateVars, rest, selects
<1> QED BY <1>1, <1>2, <1>3, <1>4 DEF BrowserNext

(* Whoever clicks. *)
LEMMA ClicksKeep == ASSUME MenuTypes, NEW k \in DOMAIN menu.dom, Clicks(k) PROVE MenuTypes'
<1>1. /\ menu'.dom = menu.dom /\ menu'.multiple = menu.multiple
      /\ menu' = [dom |-> menu'.dom, multiple |-> menu'.multiple, selected |-> menu'.selected]
      /\ menu'.selected = IF ~menu.multiple THEN {k} ELSE IF k \in menu.selected THEN menu.selected \ {k} ELSE menu.selected \cup {k}
  BY DEF Clicks, MenuTypes
<1>2. menu'.selected \subseteq DOMAIN menu.dom /\ (~menu.multiple => menu'.selected = {k})
  BY <1>1 DEF MenuTypes
<1> QED BY <1>1, <1>2 DEF MenuTypes

(* Every step keeps the invariant of the selections. *)
LEMMA SelectionsStep == ASSUME WindowsIInv, PickIInv, [BrowserNext]_stateVars PROVE PickIInv'
<1> USE DEF WindowsIInv, PickIInv
<1>0. OthersFit'
  BY OthersFitStep
<1>1. PickQuiet => MenuTypes' /\ PickTypes' /\ PickInv'
  BY QuietKeeps
<1>2. ASSUME NEW t \in Tasks, Navigate(t) \/ Method(t) \/ Chain(t) \/ Context(t) \/ Settle(t) PROVE PickQuiet
  BY <1>2, QuietSteps
<1>3. CASE UNCHANGED stateVars
  <2>1. PickQuiet
    BY <1>3 DEF stateVars, local, rest, selects, PickQuiet
  <2> QED BY <1>0, <1>1, <2>1
<1>4. CASE Other
  <2>1. UNCHANGED <<picks, role, pc>> /\ \A s \in Tasks : alone'[s] = FALSE
    BY <1>4 DEF Other, local
  <2>2. CASE menu' = menu
    <3>1. PickQuiet
      BY <2>1, <2>2 DEF PickQuiet
    <3> QED BY <1>0, <1>1, <3>1
  <2>3. CASE \E k \in DOMAIN menu.dom : Clicks(k)
    <3>1. MenuTypes'
      BY <2>3, ClicksKeep
    <3>2. menu'.dom = menu.dom /\ menu'.multiple = menu.multiple
      BY MenuKept
    <3>3. ASSUME NEW s \in Tasks, role'[s] = "select" PROVE PickShape(s)'
      BY <2>1, <3>2, <3>3, ShapeStays DEF PickInv
    <3>4. PickInv'
      BY <2>1, <3>3 DEF PickInv
    <3> QED BY <1>0, <2>1, <3>1, <3>4 DEF PickTypes
  <2> QED BY <1>4, <2>2, <2>3 DEF Other
<1>5. ASSUME NEW t \in Tasks, Pick(t) PROVE MenuTypes' /\ PickTypes' /\ PickInv'
  <2>1. /\ role[t] = "select" /\ role' = role
        /\ \A s \in Tasks \ {t} : /\ pc'[s] = pc[s] /\ picks'[s] = picks[s] /\ (alone'[s] => alone[s])
                                  /\ role[s] = "select" => menu' = menu \/ ~alone'[s]
        /\ menu'.dom = menu.dom /\ menu'.multiple = menu.multiple
    BY <1>5, RolesDiffer, PickGoes
  <2>2. /\ MenuTypes' /\ PickTypes' /\ PickShape(t)'
        /\ pc'[t] \in Picking /\ alone'[t] => PickEffect(t)'
    BY <1>5, <2>1, PickKeeps DEF PickInv
  <2>3. ASSUME NEW s \in Tasks \ {t}, role[s] = "select"
        PROVE  PickShape(s)' /\ (pc'[s] \in Picking /\ alone'[s] => PickEffect(s)')
    <3>1. /\ pc'[s] = pc[s] /\ picks'[s] = picks[s] /\ (alone'[s] => alone[s]) /\ (menu' = menu \/ ~alone'[s])
          /\ PickShape(s) /\ (pc[s] \in Picking /\ alone[s] => PickEffect(s))
      BY <2>1, <2>3 DEF PickInv
    <3> QED BY <2>1, <3>1, ShapeStays, EffectStays
  <2>4. PickInv'
    BY <2>1, <2>2, <2>3 DEF PickInv
  <2> QED BY <2>2, <2>4
<1> QED BY <1>0, <1>1, <1>2, <1>3, <1>4, <1>5 DEF BrowserNext

(* It holds at first. *)
LEMMA SelectionsBegin == BrowserInit => PickIInv
<1> SUFFICES ASSUME BrowserInit PROVE PickIInv
  OBVIOUS
<1>1. \A t \in Tasks : pc[t] = "idle" /\ picks[t] = NoPick
  BY DEF BrowserInit
<1>m. Menus = MultiMenus \cup SingleMenus
  BY DEF Menus
<1>2. \E m : m \in Menus
  <2>1. PICK d \in Lists : TRUE
    BY ListsAssumption
  <2>2. [dom |-> d, multiple |-> FALSE, selected |-> {1}] \in Menus
    <3>1. [dom |-> d, multiple |-> FALSE, selected |-> {1}] \in SingleMenus
      BY <2>1 DEF SingleMenus
    <3> QED BY <3>1, <1>m
  <2> QED BY <2>2
<1>3. menu \in Menus
  <2>1. (CHOOSE m \in Menus : TRUE) \in Menus
    BY <1>2
  <2> QED BY <2>1 DEF BrowserInit
<1>4. MenuTypes
  <2>1. ASSUME NEW d \in Lists PROVE DOMAIN d \subseteq Nat /\ 1 \in DOMAIN d
    BY ListsAssumption
  <2>2. ASSUME NEW d \in Lists, NEW s \in SUBSET DOMAIN d, menu = [dom |-> d, multiple |-> TRUE, selected |-> s]
        PROVE  MenuTypes
    BY <2>2 DEF MenuTypes
  <2>3. ASSUME NEW d \in Lists, menu = [dom |-> d, multiple |-> FALSE, selected |-> {1}] PROVE MenuTypes
    BY <2>1, <2>3 DEF MenuTypes
  <2>4. ASSUME menu \in MultiMenus PROVE MenuTypes
    <3>1. PICK d \in Lists : menu \in {[dom |-> d, multiple |-> TRUE, selected |-> s] : s \in SUBSET DOMAIN d}
      BY <2>4 DEF MultiMenus
    <3> QED BY <2>2, <3>1
  <2>5. ASSUME menu \in SingleMenus PROVE MenuTypes
    BY <2>3, <2>5 DEF SingleMenus
  <2> QED BY <1>3, <1>m, <2>4, <2>5
<1>5. PickTypes
  <2>1. NoPick \in PickStates
    BY DEF NoPick, Called, PickStates, Whats
  <2>2. picks = [t \in Tasks |-> NoPick]
    BY DEF BrowserInit
  <2> QED BY <2>1, <2>2 DEF PickTypes
<1>6. OthersFit /\ PickInv
  BY <1>1 DEF OthersFit, PickInv, PickShape, Picking, Trying
<1> QED BY <1>4, <1>5, <1>6 DEF PickIInv

(* The <select> and its methods, besides the windows: while no other task and no
   user clicks, a method has set the options that it is for and has looked at. *)
THEOREM SelectionsInductive == BrowserSpec => [](WindowsIInv /\ PickIInv)
<1>1. WindowsIInv /\ PickIInv /\ [BrowserNext]_stateVars => PickIInv'
  BY SelectionsStep
<1> QED BY WindowsInductive, SelectionsBegin, <1>1, PTL DEF BrowserSpec

(* What is selected by then, of the options that the documentation names. *)
SelectionFits ==
  \A t \in Tasks :
    LET p == picks[t]
        named == Named(menu.dom, p.call)
        changed == (menu.selected \ p.before) \cup (p.before \ menu.selected)
    IN  role[t] = "select" /\ pc[t] # "idle" /\ alone[t] /\ Plain(menu.dom, p.call) =>
          /\ menu.multiple => changed \subseteq named
          /\ p.result = "ok" =>
                /\ menu.selected = Selection(menu.dom, menu.multiple, p.before, p.call)
                /\ p.call.how = "all_selected" => p.got = p.before
                /\ p.call.how = "first_selected" => p.got = {Min(p.before)}
          /\ p.result = "missing" => Required(p.call) /\ (IF Reads(p.call) THEN p.before ELSE named) = {}

(* The invariant says what the property says of a call that has ended. *)
LEMMA SelectionIsNamed == ASSUME WindowsIInv, PickIInv PROVE SelectionFits
<1> SUFFICES ASSUME NEW t \in Tasks, role[t] = "select", pc[t] # "idle", alone[t], Plain(menu.dom, picks[t].call)
             PROVE  LET p == picks[t]
                        named == Named(menu.dom, p.call)
                        changed == (menu.selected \ p.before) \cup (p.before \ menu.selected)
                    IN  /\ menu.multiple => changed \subseteq named
                        /\ p.result = "ok" =>
                              /\ menu.selected = Selection(menu.dom, menu.multiple, p.before, p.call)
                              /\ p.call.how = "all_selected" => p.got = p.before
                              /\ p.call.how = "first_selected" => p.got = {Min(p.before)}
                        /\ p.result = "missing" => Required(p.call) /\ (IF Reads(p.call) THEN p.before ELSE named) = {}
  BY DEF SelectionFits
<1> DEFINE p == picks[t]
           c == p.call
           named == Named(menu.dom, c)
<1>1. pc[t] \in Picking
  <2>1. pc[t] \in Places
    BY DEF WindowsIInv, LocalTypes
  <2>2. pc[t] \notin InMethod /\ pc[t] \notin {"chain", "performed"}
    BY DEF WindowsIInv, RolesFit, PickIInv, OthersFit
  <2> QED BY <2>1, <2>2 DEF Places, InMethod, Picking
<1>2. PickShape(t) /\ PickEffect(t) /\ MenuTypes /\ PickTypes
  BY <1>1 DEF PickIInv, PickInv
<1>3. c \in Picks /\ menu.dom \in Lists
  BY <1>1, <1>2 DEF PickShape, MenuTypes
<1>4. named = All(menu.dom, c)
  BY <1>3, NamedIs
<1>5. CASE pc[t] = "picked"
  <2>1. Outcome(t)
    BY <1>2, <1>5 DEF PickEffect
  <2> DEFINE sel == menu.selected
             b == p.before
  <2>2. /\ menu.multiple => (sel \ b) \cup (b \ sel) \subseteq named
        /\ p.result = "ok" =>
             /\ sel = IF Reads(c) \/ named = {} THEN b
                      ELSE IF menu.multiple THEN Having(b, c, named)
                      ELSE IF c.select THEN {Min(named)} ELSE b
             /\ c.how = "all_selected" => p.got = b
             /\ c.how = "first_selected" => p.got = {Min(b)}
        /\ p.result = "missing" => Required(c) /\ (IF Reads(c) THEN b ELSE named) = {}
    BY <1>4, <2>1 DEF Outcome
  <2>3. Selection(menu.dom, menu.multiple, b, c) =
          IF Reads(c) \/ named = {} THEN b
          ELSE IF ~menu.multiple THEN IF c.select THEN {Min(named)} ELSE b
          ELSE IF c.select THEN b \cup named ELSE b \ named
    BY DEF Selection
  <2> HIDE DEF named, sel, b, c
  <2>4. Selection(menu.dom, menu.multiple, b, c) =
          IF Reads(c) \/ named = {} THEN b
          ELSE IF menu.multiple THEN Having(b, c, named)
          ELSE IF c.select THEN {Min(named)} ELSE b
    <3>1. CASE menu.multiple
      BY <2>3, <3>1 DEF Having
    <3>2. CASE ~menu.multiple
      BY <2>3, <3>2
    <3> QED BY <3>1, <3>2
  <2>5. p.result = "ok" => sel = Selection(menu.dom, menu.multiple, b, c)
    BY <2>2, <2>4
  <2> QED BY <2>2, <2>5, Zenon DEF named, sel, b, c
<1>6. CASE pc[t] \in {"options", "candidates"}
  BY <1>2, <1>6 DEF PickShape, PickEffect
<1>7. CASE pc[t] \in Trying
  <2>1. p.result = "none" /\ All(menu.dom, c) = Sought(menu.dom, p)
    BY <1>2, <1>7, TryingIs DEF PickShape
  <2>2. menu.selected = p.before \/ menu.selected = Having(p.before, c, Done(menu.dom, p))
    BY <1>2, <1>7 DEF PickEffect
  <2>3. Done(menu.dom, p) \subseteq named
    BY <1>4, <2>1 DEF Done
  <2>4. (menu.selected \ p.before) \cup (p.before \ menu.selected) \subseteq named
    <3> HIDE DEF named
    <3> QED BY <2>2, <2>3 DEF Having
  <2> QED BY <2>1, <2>4
<1> QED BY <1>1, <1>5, <1>6, <1>7 DEF Picking, Trying

(* A method of SelectElement ends with the selection that its documentation names. *)
THEOREM SelectionsAreAsAsked == BrowserSpec => SelectionIsAsAsked
<1> DEFINE Asked(t) ==
      LET p == picks'[t]
          named == Named(menu.dom, p.call)
          changed == (menu'.selected \ p.before) \cup (p.before \ menu'.selected)
      IN  role[t] = "select" /\ pc'[t] # "idle" /\ alone'[t] /\ Plain(menu.dom, p.call) =>
            /\ menu.multiple => changed \subseteq named
            /\ p.result = "ok" =>
                  /\ menu'.selected = Selection(menu.dom, menu.multiple, p.before, p.call)
                  /\ p.call.how = "all_selected" => p.got = p.before
                  /\ p.call.how = "first_selected" => p.got = {Min(p.before)}
            /\ p.result = "missing" => Required(p.call) /\ (IF Reads(p.call) THEN p.before ELSE named) = {}
<1>1. WindowsIInv /\ PickIInv => SelectionFits
  BY SelectionIsNamed
<1>2. WindowsIInv /\ PickIInv /\ SelectionFits' /\ [BrowserNext]_stateVars => [\A t \in Tasks : Asked(t)]_stateVars
  <2> SUFFICES ASSUME WindowsIInv, PickIInv, SelectionFits', [BrowserNext]_stateVars PROVE \A t \in Tasks : Asked(t)
    OBVIOUS
  <2>1. menu'.dom = menu.dom /\ menu'.multiple = menu.multiple /\ role' = role
    BY MenuKept, RoleStays DEF WindowsIInv, PickIInv
  <2> QED BY <2>1 DEF SelectionFits
<1> QED BY SelectionsInductive, <1>1, <1>2, PTL DEF BrowserSpec, SelectionIsAsAsked

-----------------------------------------------------------------------------
(* The invariant of the chains holds at first. *)
LEMMA ChainsBegin == BrowserInit => ChainTypes /\ ChainInv
<1> SUFFICES ASSUME BrowserInit PROVE ChainTypes /\ ChainInv
  OBVIOUS
<1>1. /\ chain = [t \in Tasks |-> New] /\ script = [t \in Tasks |-> <<>>] /\ found = [t \in Tasks |-> <<>>]
      /\ answer = [t \in Tasks |-> Silent] /\ held = {} /\ pc = [t \in Tasks |-> "idle"]
  BY DEF BrowserInit
<1>2. <<>> \in Seq(Methods) /\ Len(<<>>) \in 0 .. MaxCalls /\ Silent \in ChainAnswers
  BY BrowserAssumption DEF Silent, ChainAnswers
<1>3. ChainTypes
  BY <1>1, <1>2, NothingPerformed DEF ChainTypes
<1>4. ChainInv
  BY <1>1, NothingPerformed, SpelledNone DEF ChainInv
<1> QED BY <1>3, <1>4

(* The chains: the calls that a chain was built by, one after the other, are what
   its two lists say together. *)
THEOREM ChainsInductive == BrowserSpec => [](WindowsIInv /\ ChainTypes /\ ChainInv)
<1>1. WindowsIInv /\ ChainTypes /\ ChainInv /\ [BrowserNext]_stateVars => (ChainTypes /\ ChainInv)'
  BY ChainStep DEF WindowsIInv
<1> QED BY WindowsInductive, ChainsBegin, <1>1, PTL DEF BrowserSpec

(* The variables are of their types; and perform() has done what the methods
   stand for, in the order they were called. *)
THEOREM ChainsAreAlwaysInOrder == BrowserSpec => []ChainsAreInOrder
<1>1. WindowsIInv /\ SettingTypes /\ ChainTypes /\ MenuTypes => BrowserTypeOK
  <2> SUFFICES ASSUME WindowTypes, LocalTypes, CountTypes, SettingTypes, ChainTypes, MenuTypes PROVE BrowserTypeOK
    BY DEF WindowsIInv
  <2>1. /\ windows \subseteq Windows /\ current \in Windows /\ frame \in {"top", "child", "gone"}
        /\ doc \in [Windows -> Nat] /\ name \in [Windows -> Names \cup {NoName}]
    BY DEF WindowTypes
  <2>2. menu \in [dom : Lists, multiple : BOOLEAN, selected : SUBSET DOMAIN menu.dom]
    BY DEF MenuTypes
  <2>3. \A t \in Tasks : Len(script[t]) \in 0..MaxCalls /\ answer[t].result \in {"none", "ok", "error"}
    BY DEF ChainTypes, ChainAnswers
  <2>4. /\ users \in [Users -> {"new", "exists", "removed"}] /\ partition \in [Windows -> Users \cup {Default}]
        /\ setting \in Settings /\ Len(calls) \in 0..MaxCalls
        /\ settings \in [Windows \cup Users \cup {Everyone} -> Values \cup {Unset}]
    BY DEF SettingTypes, Scopes
  <2>5. /\ pc \in [Tasks -> {"idle", "open", "enter", "body", "close", "back", "list", "visit", "ask",
                             "chain", "performed", "options", "candidates", "shows", "look", "click", "picked"}]
        /\ saved \in [Tasks -> Windows \cup {NoWindow}] /\ tab \in [Tasks -> Windows \cup {NoWindow}]
        /\ want \in [Tasks -> Names \cup {NoName}] /\ left \in [Tasks -> SUBSET Windows]
        /\ before \in [Tasks -> SUBSET Windows] /\ alone \in [Tasks -> BOOLEAN]
    BY DEF LocalTypes, Places
  <2>6. held \subseteq Chars \cup {"left", "right"} /\ faults \in 0..MaxFaults /\ others \in 0..MaxOthers
    BY DEF ChainTypes, CountTypes
  <2> QED BY <2>1, <2>2, <2>3, <2>4, <2>5, <2>6 DEF BrowserTypeOK
<1>2. ChainTypes /\ ChainInv => ChainIsInOrder
  BY DEF ChainInv, ChainIsInOrder, AnswerFits, Spelled
<1>3. PickIInv => MenuTypes
  BY DEF PickIInv
<1> QED BY ChainsInductive, SettingsInductive, SelectionsInductive, <1>1, <1>2, <1>3, PTL DEF ChainsAreInOrder

(* What one perform() leaves down. *)
LEMMA PerformLetsGo ==
  ASSUME ChainTypes, ChainInv, NEW t \in Tasks, Perform(t), answer'[t].result = "ok",
         \A i \in DOMAIN script[t] : script[t][i][1] \in Complete
  PROVE  held' \subseteq held
<1> DEFINE all == Performed(chain[t])
           T == {i \in 1 .. Len(all) : all[i][1] = "move" /\ all[i][2] \in {Source, Target} /\ found[t] # Here}
           stop == IF ~Live THEN 1 ELSE IF T # {} THEN Min(T) ELSE 0
           done == IF stop = 0 THEN all ELSE SubSeq(all, 1, stop - 1)
<1>1. /\ answer' = [answer EXCEPT ![t] = [result |-> IF stop = 0 THEN "ok" ELSE "error", done |-> done]]
      /\ held' = Holding(held, done)
  BY DEF Perform, SelectInSeq
<1>2. all = Spelled(script[t]) /\ script[t] \in Seq(Methods)
  BY DEF ChainInv, ChainTypes
<1> HIDE DEF all, stop
<1>3. answer'[t].result = IF stop = 0 THEN "ok" ELSE "error"
  BY <1>1 DEF ChainTypes
<1>4. done = all
  BY <1>3
<1>5. Spelled(script[t]) \in Seq(Acts) /\ LetsGo(Spelled(script[t]))
  BY <1>2, SpelledOK, ScriptLetsGo
<1>6. Holding(held, Spelled(script[t])) \subseteq held
  BY <1>5, NothingMore
<1> QED BY <1>1, <1>2, <1>4, <1>6

(* Only perform() answers. *)
LEMMA AnswersArePerformed ==
  ASSUME LocalTypes, ChainTypes, [BrowserNext]_stateVars, NEW t \in Tasks, pc'[t] = "performed", answer'[t] # answer[t]
  PROVE  Perform(t)
<1>1. ASSUME NEW s \in Tasks, Chain(s) PROVE Perform(t)
  <2>1. CASE ChainBegin(s) \/ ChainCall(s) \/ Reset(s)
    BY <2>1 DEF ChainBegin, ChainCall, Reset
  <2>2. CASE Perform(s)
    <3>1. \A r \in Tasks \ {s} : answer'[r] = answer[r]
      BY <2>2 DEF Perform, ChainTypes
    <3> QED BY <2>2, <3>1
  <2>3. CASE ChainEnd(s)
    <3>1. pc'[s] = "idle" /\ \A r \in Tasks \ {s} : answer'[r] = answer[r]
      BY <2>3 DEF ChainEnd, End, LocalTypes, ChainTypes
    <3> QED BY <3>1
  <2> QED BY <1>1, <2>1, <2>2, <2>3 DEF Chain
<1>2. ASSUME NEW s \in Tasks, Method(s) PROVE answer' = answer
  BY <1>2 DEF Method, TabBegin, TabOpen, TabEnter, TabBody, TabClose, TabBack, NamedBegin, NamedList,
              NamedVisit, NamedAsk, NamedBack, Fail, Abandon, rest, input
<1>3. ASSUME NEW s \in Tasks, Pick(s) PROVE answer' = answer
  <2>1. ASSUME NEW from, NEW to, NEW p, Goes(s, from, to, p) PROVE answer' = answer
    BY <2>1 DEF Goes, input
  <2>2. ASSUME NEW from, NEW hit, Advance(s, from, hit) PROVE answer' = answer
    BY <2>1, <2>2, Zenon DEF Advance
  <2>3. CASE PickFind(s) \/ PickCandidates(s) \/ PickShows(s) \/ PickLook(s) \/ PickClick(s)
    BY <2>1, <2>2, <2>3 DEF PickFind, PickCandidates, PickShows, PickLook, PickClick
  <2>4. CASE PickBegin(s) \/ PickEnd(s)
    BY <2>4 DEF PickBegin, PickEnd, input
  <2> QED BY <1>3, <2>3, <2>4 DEF Pick
<1>4. Other \/ (\E s \in Tasks : Navigate(s) \/ Context(s) \/ Settle(s)) \/ UNCHANGED stateVars => answer' = answer
  BY DEF Other, Navigate, Context, Settle, stateVars, rest, input
<1> QED BY <1>1, <1>2, <1>3, <1>4 DEF BrowserNext

(* A chain of complete gestures leaves nothing down. *)
THEOREM GesturesAlwaysLetGo == BrowserSpec => GesturesLetGo
<1> DEFINE Lets(t) == /\ pc'[t] = "performed" /\ answer'[t] # answer[t] /\ answer'[t].result = "ok"
                      /\ \A i \in DOMAIN script[t] : script[t][i][1] \in Complete
                      => held' \subseteq held
<1>1. WindowsIInv /\ ChainTypes /\ ChainInv /\ [BrowserNext]_stateVars => [\A t \in Tasks : Lets(t)]_stateVars
  <2> SUFFICES ASSUME WindowsIInv, ChainTypes, ChainInv, [BrowserNext]_stateVars,
                      NEW t \in Tasks, pc'[t] = "performed", answer'[t] # answer[t], answer'[t].result = "ok",
                      \A i \in DOMAIN script[t] : script[t][i][1] \in Complete
               PROVE  held' \subseteq held
    OBVIOUS
  <2>1. Perform(t)
    BY AnswersArePerformed DEF WindowsIInv
  <2> QED BY <2>1, PerformLetsGo
<1> QED BY ChainsInductive, <1>1, PTL DEF BrowserSpec, GesturesLetGo
=============================================================================
