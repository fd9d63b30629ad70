----------------------------- MODULE CdpSession -----------------------------
(***************************************************************************)
(* One attached CDP session and the event streams opened on it:            *)
(* CdpSession (thirtyfour/src/cdp/session.rs), EventStream and             *)
(* RawEventStream (cdp/stream.rs), over one WsTransport                    *)
(* (cdp/transport/ws.rs).                                                  *)
(*                                                                         *)
(* Clones share `enabled`, the set of domains switched on, and its async   *)
(* mutex is held across the enable command.  The browser answers commands  *)
(* and sends events on one ordered connection, for this session and for    *)
(* others; the reader task broadcasts the events into a ring that keeps    *)
(* the last Capacity of them, and each stream filters what it reads.       *)
(***************************************************************************)
EXTENDS Naturals, Sequences, FiniteSets

CONSTANTS
  Tasks,       \* each holds a clone of the session and at most one stream
  Domains,     \* event domains, one event method in each
  Enables,     \* those whose events declare an ENABLE command
  AllOfSession, AllOfConnection, \* what a raw stream is opened for
  None,        \* no task; no domain
  Mine, Other, \* the sessions events arrive for
  Traffic,     \* the events the browser may send
  Capacity,    \* EVENT_BUFFER, 1024 in the code
  MaxEvents,   \* bound on the events the browser sends
  MaxCalls     \* bound on the calls the program makes

ASSUME EnablesAssumption == Enables \subseteq Domains
ASSUME NamesAssumption ==
  /\ None \notin Tasks \cup Domains
  /\ {AllOfSession, AllOfConnection} \cap (Domains \cup {None}) = {}
Shapes == {"typed", "other", "wide"}  \* decodes; does not; does not, and is not ASCII
Events == [session : {Mine, Other}, dom : Domains, shape : Shapes]

ASSUME TrafficAssumption == Traffic \subseteq Events
ASSUME CapacityAssumption == Capacity \in Nat \ {0}

VARIABLES
  pc,        \* where a task is in subscribe(), send() or detach(), and its stream
  want,      \* the domain of that call or stream, or all events of a scope
  answer,    \* what its command came to: "none", "sent", "ok", "err", "hung"
  holds,     \* tasks that still have their clone of the session
  lock,      \* the task that holds the mutex of `enabled`
  enabled,   \* CdpSession::enabled
  up,        \* commands on their way to the browser
  down,      \* replies and events on their way to the reader task
  remoteOn,  \* domains the browser has enabled in this session
  attached,  \* the browser still has this session
  conn,      \* "open", or "closed" once the reader task has ended
  sent,      \* all events broadcast so far; the ring holds the last Capacity
  from,      \* the number of events broadcast before the stream's receiver was made
  next,      \* the number of events the receiver has gone past
  got,       \* the events the stream has yielded, as indices into `sent`
  calls,     \* calls made, for MaxCalls
  switched   \* history: domains the program itself disabled

callVars   == <<answer, up>>
streamVars == <<from, next, got>>
remoteVars == <<remoteOn, attached>>
vars == <<pc, want, holds, lock, enabled, down, conn, sent,
          calls, callVars, streamVars, remoteVars, switched>>

Waiting == {"enabling", "sending", "detaching"}

TypeOK ==
  /\ pc \in [Tasks -> {"idle", "locking", "opening", "streaming", "ended", "panicked"} \cup Waiting]
  /\ want \in [Tasks -> Domains \cup {AllOfSession, AllOfConnection, None}]
  /\ answer \in [Tasks -> {"none", "sent", "ok", "err", "hung"}]
  /\ holds \subseteq Tasks /\ enabled \subseteq Enables
  /\ lock \in Tasks \cup {None}
  /\ remoteOn \subseteq Enables /\ attached \in BOOLEAN
  /\ conn \in {"open", "closed"}
  /\ sent \in Seq(Events)
  /\ \A t \in Tasks : 0 <= from[t] /\ from[t] <= next[t] /\ next[t] <= Len(sent)
  /\ lock # None => pc[lock] = "enabling"
  /\ \A t \in Tasks : (answer[t] # "none") = (pc[t] \in Waiting)

Init ==
  /\ pc = [t \in Tasks |-> "idle"]
  /\ want = [t \in Tasks |-> None]
  /\ answer = [t \in Tasks |-> "none"]
  /\ holds = Tasks /\ lock = None /\ enabled = {}
  /\ up = <<>> /\ down = <<>> /\ sent = <<>>
  /\ remoteOn = {} /\ attached = TRUE /\ conn = "open"
  /\ from = [t \in Tasks |-> 0] /\ next = [t \in Tasks |-> 0]
  /\ got = [t \in Tasks |-> {}]
  /\ calls = 0 /\ switched = {}

-----------------------------------------------------------------------------
(* send_raw_sessioned up to its await.  After the reader has drained `pending`
   nobody resolves the call; it is refused at once only when the writer task
   has met the closed socket too. *)
Send(t, cmd, d) ==
  IF conn = "open"
  THEN /\ answer' = [answer EXCEPT ![t] = "sent"]
       /\ up' = Append(up, [by |-> t, cmd |-> cmd, dom |-> d])
  ELSE /\ \E a \in {"hung", "err"} : answer' = [answer EXCEPT ![t] = a]
       /\ UNCHANGED up

(* subscribe::<E>() waits for the lock if the event has an ENABLE command. *)
Subscribe(t, d) ==
  /\ pc[t] = "idle" /\ t \in holds
  /\ calls < MaxCalls /\ calls' = calls + 1
  /\ pc' = [pc EXCEPT ![t] = IF d \in Enables THEN "locking" ELSE "opening"]
  /\ want' = [want EXCEPT ![t] = d]
  /\ UNCHANGED <<holds, lock, enabled, down, conn, sent, callVars, streamVars, remoteVars, switched>>

(* subscribe_all() and subscribe_connection(): no command, no domain. *)
SubscribeRaw(t, all) ==
  /\ pc[t] = "idle" /\ t \in holds
  /\ calls < MaxCalls /\ calls' = calls + 1
  /\ pc' = [pc EXCEPT ![t] = "streaming"]
  /\ want' = [want EXCEPT ![t] = all]
  /\ from' = [from EXCEPT ![t] = Len(sent)]
  /\ next' = [next EXCEPT ![t] = Len(sent)]
  /\ UNCHANGED <<holds, lock, enabled, down, conn, sent, callVars, got, remoteVars, switched>>

(* Mutant: the domain counts as enabled from when the command is sent. *)
AcquireMarksFirst(t) ==
  /\ pc[t] = "locking" /\ lock = None
  /\ IF want[t] \in enabled
     THEN /\ pc' = [pc EXCEPT ![t] = "opening"]
          /\ UNCHANGED <<lock, enabled, callVars>>
     ELSE /\ Send(t, "enable", want[t])
          /\ pc' = [pc EXCEPT ![t] = "enabling"]
          /\ lock' = t /\ enabled' = enabled \cup {want[t]}
  /\ UNCHANGED <<want, holds, down, conn, sent, calls, streamVars, remoteVars, switched>>

(* With the lock: a domain already enabled needs nothing, any other is
   enabled on the wire before the lock is given up. *)
Acquire(t) ==
  /\ pc[t] = "locking" /\ lock = None
  /\ IF want[t] \in enabled
     THEN /\ pc' = [pc EXCEPT ![t] = "opening"]
          /\ UNCHANGED <<lock, callVars>>
     ELSE /\ Send(t, "enable", want[t])
          /\ pc' = [pc EXCEPT ![t] = "enabling"]
          /\ lock' = t
  /\ UNCHANGED <<want, holds, enabled, down, conn, sent, calls, streamVars, remoteVars, switched>>

EnableOk(t) ==
  /\ pc[t] = "enabling" /\ answer[t] = "ok"
  /\ enabled' = enabled \cup {want[t]}
  /\ lock' = None
  /\ pc' = [pc EXCEPT ![t] = "opening"]
  /\ answer' = [answer EXCEPT ![t] = "none"]
  /\ UNCHANGED <<want, holds, up, calls, down, conn, sent, streamVars, remoteVars, switched>>

(* The `?` on the enable command returns with the set as it was. *)
EnableErr(t) ==
  /\ pc[t] = "enabling" /\ answer[t] = "err"
  /\ lock' = None
  /\ pc' = [pc EXCEPT ![t] = "idle"]
  /\ want' = [want EXCEPT ![t] = None]
  /\ answer' = [answer EXCEPT ![t] = "none"]
  /\ UNCHANGED <<holds, enabled, up, calls, down, conn, sent, streamVars, remoteVars, switched>>

(* A frame whose caller has gone away is still executed and answered. *)
Disown(frames, t) ==
  [i \in DOMAIN frames |-> IF "by" \in DOMAIN frames[i] /\ frames[i].by = t
                           THEN [frames[i] EXCEPT !.by = None] ELSE frames[i]]

(* The future of a call is dropped at one of its awaits; the entry it leaves
   in `pending` answers to nobody. *)
Cancel(t) ==
  /\ pc[t] \in {"locking"} \cup Waiting
  /\ pc' = [pc EXCEPT ![t] = "idle"]
  /\ want' = [want EXCEPT ![t] = None]
  /\ lock' = IF lock = t THEN None ELSE lock
  /\ answer' = [answer EXCEPT ![t] = "none"]
  /\ holds' = IF pc[t] = "detaching" THEN holds \ {t} ELSE holds
  /\ up' = Disown(up, t) /\ down' = Disown(down, t)
  /\ UNCHANGED <<enabled, calls, conn, sent, streamVars, remoteVars, switched>>

(* The receiver is made once the command has been answered, not before. *)
Open(t) ==
  /\ pc[t] = "opening"
  /\ pc' = [pc EXCEPT ![t] = "streaming"]
  /\ from' = [from EXCEPT ![t] = Len(sent)]
  /\ next' = [next EXCEPT ![t] = Len(sent)]
  /\ UNCHANGED <<want, got, holds, lock, enabled, down, conn, sent, calls, callVars, remoteVars, switched>>

(* The program switches a domain off itself; `enabled` is not told. *)
Disable(t, d) ==
  /\ pc[t] = "idle" /\ t \in holds
  /\ calls < MaxCalls /\ calls' = calls + 1
  /\ Send(t, "disable", d)
  /\ pc' = [pc EXCEPT ![t] = "sending"]
  /\ switched' = switched \cup {d}
  /\ UNCHANGED <<want, holds, lock, enabled, down, conn, sent, streamVars, remoteVars>>


(* detach(self) is addressed to the root session and ends it for all clones. *)
Detach(t) ==
  /\ pc[t] = "idle" /\ t \in holds
  /\ calls < MaxCalls /\ calls' = calls + 1
  /\ Send(t, "detach", None)
  /\ pc' = [pc EXCEPT ![t] = "detaching"]
  /\ UNCHANGED <<want, holds, lock, enabled, down, conn, sent, streamVars, remoteVars, switched>>

Return(t) ==
  /\ pc[t] \in {"sending", "detaching"} /\ answer[t] \in {"ok", "err"}
  /\ pc' = [pc EXCEPT ![t] = "idle"]
  /\ answer' = [answer EXCEPT ![t] = "none"]
  /\ holds' = IF pc[t] = "detaching" THEN holds \ {t} ELSE holds
  /\ UNCHANGED <<want, lock, enabled, up, calls, down, conn, sent, streamVars, remoteVars, switched>>

(* A clone of the session goes out of scope: nothing is sent. *)
DropHandle(t) ==
  /\ t \in holds /\ pc[t] \in {"idle", "streaming"}
  /\ holds' = holds \ {t}
  /\ UNCHANGED <<pc, want, lock, enabled, down, conn, sent, calls, callVars, streamVars, remoteVars, switched>>

DropStream(t) ==
  /\ pc[t] \in {"streaming", "ended", "panicked"}
  /\ pc' = [pc EXCEPT ![t] = "idle"]
  /\ want' = [want EXCEPT ![t] = None]
  /\ from' = [from EXCEPT ![t] = 0]
  /\ next' = [next EXCEPT ![t] = 0]
  /\ got' = [got EXCEPT ![t] = {}]
  /\ UNCHANGED <<holds, lock, enabled, down, conn, sent, calls, callVars, remoteVars, switched>>

-----------------------------------------------------------------------------
(* EventStream::matches, and the filter of RawEventStream. *)
Matches(t, e) ==
  /\ want[t] = AllOfConnection \/ e.session = Mine
  /\ want[t] \in Domains => e.dom = want[t]

Yields(t, e) == Matches(t, e) /\ (want[t] \in Domains => e.shape = "typed")

(* The events that have been pushed out of the ring. *)
Overwritten == IF Len(sent) > Capacity THEN Len(sent) - Capacity ELSE 0

(* Mutant: after Lagged the stream resumes at the newest event. *)
PollResubscribes(t) ==
  /\ pc[t] = "streaming" /\ next[t] < Len(sent)
  /\ IF next[t] < Overwritten
     THEN /\ next' = [next EXCEPT ![t] = Len(sent)]
          /\ UNCHANGED <<pc, got>>
     ELSE /\ next' = [next EXCEPT ![t] = @ + 1]
          /\ got' = IF Yields(t, sent[next[t] + 1])
                    THEN [got EXCEPT ![t] = @ \cup {next[t] + 1}] ELSE got
          /\ UNCHANGED pc
  /\ UNCHANGED <<want, holds, lock, enabled, down, conn, sent, calls, callVars, from, remoteVars, switched>>

(* One turn of the loop in poll_next.  A receiver that lags skips, in silence,
   to the oldest event kept.  An event that does not decode is logged with its
   first 200 bytes, a slice that panics inside a character. *)
Poll(t) ==
  /\ pc[t] = "streaming" /\ next[t] < Len(sent)
  /\ IF next[t] < Overwritten
     THEN /\ next' = [next EXCEPT ![t] = Overwritten]
          /\ UNCHANGED <<pc, got>>
     ELSE LET e == sent[next[t] + 1] IN
          /\ next' = [next EXCEPT ![t] = @ + 1]
          /\ got' = IF Yields(t, e) THEN [got EXCEPT ![t] = @ \cup {next[t] + 1}] ELSE got
          /\ pc' = IF want[t] \in Domains /\ Matches(t, e) /\ e.shape = "wide"
                   THEN [pc EXCEPT ![t] = "panicked"] ELSE pc
  /\ UNCHANGED <<want, holds, lock, enabled, down, conn, sent, calls, callVars, from, remoteVars, switched>>

(* Mutant: a stream holds a clone of the session, as the streams of BiDi do. *)
PollEndHolding(t) ==
  /\ pc[t] = "streaming" /\ next[t] = Len(sent)
  /\ conn # "open" /\ holds \cup {u \in Tasks : pc[u] = "streaming"} = {}
  /\ pc' = [pc EXCEPT ![t] = "ended"]
  /\ UNCHANGED <<want, holds, lock, enabled, down, conn, sent, calls, callVars, streamVars, remoteVars, switched>>

(* The broadcast closes with its sender, which the reader task and every
   clone of the session keep alive. *)
PollEnd(t) ==
  /\ pc[t] = "streaming" /\ next[t] = Len(sent)
  /\ conn # "open" /\ holds = {}
  /\ pc' = [pc EXCEPT ![t] = "ended"]
  /\ UNCHANGED <<want, holds, lock, enabled, down, conn, sent, calls, callVars, streamVars, remoteVars, switched>>

-----------------------------------------------------------------------------
(* The browser: commands in order, each answered; a session it no longer has,
   or a domain it does not know, is an error. *)
Reply(f, ok) == down' = Append(down, [by |-> f.by, ok |-> ok])

Execute ==
  /\ conn = "open" /\ up # <<>>
  /\ up' = Tail(up)
  /\ LET f == Head(up) IN
     CASE f.cmd = "detach" ->
            Reply(f, attached) /\ attached' = FALSE /\ remoteOn' = {}
       [] f.cmd = "disable" ->
            Reply(f, attached) /\ remoteOn' = remoteOn \ {f.dom} /\ UNCHANGED attached
       [] f.cmd = "enable" ->
            /\ UNCHANGED attached
            /\ \/ attached /\ Reply(f, TRUE) /\ remoteOn' = remoteOn \cup {f.dom}
               \/ Reply(f, FALSE) /\ UNCHANGED remoteOn
  /\ UNCHANGED <<pc, want, answer, calls, holds, lock, enabled, conn, sent, streamVars, switched>>

InFlight == {i \in DOMAIN down : "shape" \in DOMAIN down[i]}

Emit(e) ==
  /\ conn = "open" /\ Len(sent) + Cardinality(InFlight) < MaxEvents
  /\ e.session = Mine => attached /\ (e.dom \in Enables => e.dom \in remoteOn)
  /\ down' = Append(down, e)
  /\ UNCHANGED <<pc, want, holds, lock, enabled, conn, sent, calls, callVars, streamVars, remoteVars, switched>>

(* Inner::dispatch: a reply resolves the pending call it is keyed to, an event
   is broadcast to whoever has a receiver. *)
Dispatch ==
  /\ conn = "open" /\ down # <<>>
  /\ down' = Tail(down)
  /\ LET f == Head(down) IN
     IF "by" \in DOMAIN f
     THEN /\ answer' = IF f.by = None THEN answer
                       ELSE [answer EXCEPT ![f.by] = IF f.ok THEN "ok" ELSE "err"]
          /\ UNCHANGED sent
     ELSE /\ sent' = Append(sent, f)
          /\ UNCHANGED answer
  /\ UNCHANGED <<pc, want, up, calls, holds, lock, enabled, conn, streamVars, remoteVars, switched>>

(* The connection ends, with or without frames lost; the reader leaves its
   loop and fail_all_pending answers every call. *)
Close ==
  /\ conn = "open"
  /\ conn' = "closed"
  /\ up' = <<>> /\ down' = <<>>
  /\ answer' = [t \in Tasks |-> IF answer[t] = "sent" THEN "err" ELSE answer[t]]
  /\ remoteOn' = {} /\ attached' = FALSE
  /\ UNCHANGED <<pc, want, calls, holds, lock, enabled, sent, streamVars, switched>>

Environment ==
  \/ Execute \/ Dispatch \/ Close
  \/ \E e \in Traffic : Emit(e)

Task(t) ==
  \/ \E d \in Domains : Subscribe(t, d)
  \/ \E all \in {AllOfSession, AllOfConnection} : SubscribeRaw(t, all)
  \/ \E d \in Enables : Disable(t, d)
  \/ Acquire(t) \/ EnableOk(t) \/ EnableErr(t) \/ Cancel(t) \/ Open(t)
  \/ Detach(t) \/ Return(t) \/ DropHandle(t) \/ DropStream(t)
  \/ Poll(t) \/ PollEnd(t)

Next == Environment \/ \E t \in Tasks : Task(t)

(* The executor runs tasks that are ready and tokio's mutex is first come,
   first served; the browser answers and the reader task reads. *)
Fairness ==
  /\ WF_vars(Execute) /\ WF_vars(Dispatch)
  /\ \A t \in Tasks :
       /\ SF_vars(Acquire(t))
       /\ WF_vars(EnableOk(t)) /\ WF_vars(EnableErr(t)) /\ WF_vars(Open(t)) /\ WF_vars(Return(t))
       /\ WF_vars(Poll(t)) /\ WF_vars(PollEnd(t))

Spec == Init /\ [][Next]_vars /\ Fairness

-----------------------------------------------------------------------------
(* An event a stream filters for, broadcast since its receiver was made and
   already passed by, was yielded, unless a thousand newer ones (Capacity) had
   pushed it out by then; and nothing else is ever yielded. *)
Delivered ==
  \A t \in Tasks : \A i \in from[t] + 1 .. next[t] :
    LET wanted == /\ want[t] = AllOfConnection \/ sent[i].session = Mine
                  /\ want[t] \in Domains => sent[i].dom = want[t] /\ sent[i].shape = "typed"
    IN IF wanted THEN i \in got[t] \/ i <= Len(sent) - Capacity
                 ELSE i \notin got[t]

(* A typed stream is never deaf: while the session is attached the browser
   has the stream's domain enabled, unless the program disabled it itself. *)
StreamIsEnabled ==
  \A t \in Tasks :
    /\ pc[t] \in {"opening", "streaming"} /\ want[t] \in Enables \ switched
    /\ attached
    => want[t] \in remoteOn

(* The types, and the domains of the streams. *)
StreamsAreEnabled == TypeOK /\ StreamIsEnabled

(* Once the connection has ended and no clone of the session is left, a
   stream ends. *)
StreamEnds ==
  \A t \in Tasks :
    pc[t] = "streaming" /\ conn # "open" /\ holds = {} ~> pc[t] # "streaming"

=============================================================================
