--------------------------- MODULE CommandChannel ---------------------------
(***************************************************************************)
(* The command half of the BiDi WebSocket transport                        *)
(* (thirtyfour/src/bidi/transport/ws.rs).  Any number of tasks call        *)
(* send_raw on one shared connection.  Each call takes a fresh id,         *)
(* registers a oneshot sender under it in `pending`, queues its frame for  *)
(* the writer task and waits.  The reader task resolves `pending` entries  *)
(* as replies arrive and, when the connection ends, fails whatever is left *)
(* once and exits.  cdp/transport/ws.rs is built the same way.             *)
(*                                                                         *)
(* The pending mutex is never held across an await, so each critical       *)
(* section is one step.  Pings, events and malformed frames do not touch   *)
(* this state and are left out.  Serialising a serde_json Value cannot     *)
(* fail, so the early return after it is left out too.                     *)
(***************************************************************************)
EXTENDS Naturals, Sequences

CONSTANTS
  Callers,    \* the tasks that share the connection
  NoCaller,   \* marks an id with no entry in `pending`
  MaxCalls    \* bound on the ids handed out (next_id is a u64)

ASSUME CallersAssumption == NoCaller \notin Callers
ASSUME MaxCallsAssumption == MaxCalls \in Nat \ {0}

VARIABLES
  nextId,     \* Inner::next_id
  pending,    \* Inner::pending: the task whose oneshot sender is stored
  pc,         \* where each task is inside send_raw
  callId,     \* the id local to that call, 0 outside a call
  slot,       \* what the task's oneshot channel holds
  out,        \* Inner::out, the unbounded queue to the writer task
  writer,     \* the writer task
  writing,    \* the frame the writer took off the queue, 0 if none
  remote,     \* ids the remote end has received and not yet answered
  answered,   \* history: how the remote end answered each id
  inbound,    \* replies on the wire, read in order
  reader,     \* the reader task
  conn,       \* the socket
  held        \* does any BiDi handle or event stream still exist?

callVars   == <<nextId, pc, callId>>
writerVars == <<writer, writing>>
remoteVars == <<remote, answered, conn>>
vars == <<nextId, pending, pc, callId, slot, out, writer, writing, remote,
          answered, inbound, reader, conn, held>>

Ids      == 1 .. MaxCalls
Outcomes == {"success", "error"}
Empty    == "empty"
Replies  == [id : Ids, outcome : Outcomes]

TypeOK ==
  /\ nextId   \in 1 .. MaxCalls + 1
  /\ pending  \in [Ids -> Callers \cup {NoCaller}]
  /\ pc       \in [Callers -> {"idle", "lock", "registered", "waiting"}]
  /\ callId   \in [Callers -> Ids \cup {0}]
  /\ slot     \in [Callers -> Outcomes \cup {"closed", Empty}]
  /\ out      \in Seq(Ids)
  /\ writer   \in {"recv", "send", "closing", "gone"}
  /\ writing  \in Ids \cup {0}
  /\ remote   \in SUBSET Ids
  /\ answered \in [Ids -> Outcomes \cup {"none"}]
  /\ inbound  \in Seq(Replies)
  /\ reader   \in {"recv", "drain", "done"}
  /\ conn     \in {"open", "closed"}
  /\ held     \in BOOLEAN

Init ==
  /\ nextId   = 1
  /\ pending  = [i \in Ids |-> NoCaller]
  /\ pc       = [c \in Callers |-> "idle"]
  /\ callId   = [c \in Callers |-> 0]
  /\ slot     = [c \in Callers |-> Empty]
  /\ out      = << >>
  /\ writer   = "recv"
  /\ writing  = 0
  /\ remote   = {}
  /\ answered = [i \in Ids |-> "none"]
  /\ inbound  = << >>
  /\ reader   = "recv"
  /\ conn     = "open"
  /\ held     = TRUE

-----------------------------------------------------------------------------
(* The calling tasks: send_raw *)

(* Mutant: the id is read but not advanced. *)
FetchIdStale(c) ==
  /\ pc[c] = "idle" /\ held /\ nextId \in Ids
  /\ callId' = [callId EXCEPT ![c] = nextId]
  /\ pc' = [pc EXCEPT ![c] = "lock"]
  /\ UNCHANGED <<nextId, pending, slot, out, writerVars, remoteVars, inbound, reader, held>>

(* next_id.fetch_add(1), then the task waits for the pending lock. *)
FetchId(c) ==
  /\ pc[c] = "idle" /\ held /\ nextId \in Ids
  /\ nextId' = nextId + 1
  /\ callId' = [callId EXCEPT ![c] = nextId]
  /\ pc' = [pc EXCEPT ![c] = "lock"]
  /\ UNCHANGED <<pending, slot, out, writerVars, remoteVars, inbound, reader, held>>

(* pending.lock().await.insert(id, resp_tx) *)
Register(c) ==
  /\ pc[c] = "lock"
  /\ pending' = [pending EXCEPT ![callId[c]] = c]
  /\ pc' = [pc EXCEPT ![c] = "registered"]
  /\ UNCHANGED <<nextId, callId, slot, out, writerVars, remoteVars, inbound, reader, held>>

(* The call is over: its future is gone, and the oneshot receiver with it. *)
Leave(c) ==
  /\ pc' = [pc EXCEPT ![c] = "idle"]
  /\ callId' = [callId EXCEPT ![c] = 0]
  /\ slot' = [slot EXCEPT ![c] = Empty]

(* out.send(serialized) fails only once the writer has dropped the queue;
   the entry made by Register then stays behind. *)
Enqueue(c) ==
  /\ pc[c] = "registered"
  /\ \/ /\ writer # "gone"
        /\ out' = Append(out, callId[c])
        /\ pc' = [pc EXCEPT ![c] = "waiting"]
        /\ UNCHANGED <<callId, slot>>
     \/ /\ writer = "gone"
        /\ Leave(c)
        /\ UNCHANGED out
  /\ UNCHANGED <<nextId, pending, writerVars, remoteVars, inbound, reader, held>>

(* resp_rx.await completes. *)
Return(c) ==
  /\ pc[c] = "waiting" /\ slot[c] # Empty
  /\ Leave(c)
  /\ UNCHANGED <<nextId, pending, out, writerVars, remoteVars, inbound, reader, held>>

(* The caller drops the future (a timeout, a select!) at one of its two
   awaits.  Nothing removes the entry it may have left in `pending`. *)
Cancel(c) ==
  /\ pc[c] \in {"lock", "waiting"}
  /\ Leave(c)
  /\ UNCHANGED <<nextId, pending, out, writerVars, remoteVars, inbound, reader, held>>

(* The last BiDi handle goes out of scope; a call in progress borrows one. *)
DropHandles ==
  /\ held /\ \A c \in Callers : pc[c] = "idle"
  /\ held' = FALSE
  /\ UNCHANGED <<callVars, pending, slot, out, writerVars, remoteVars, inbound, reader>>

-----------------------------------------------------------------------------
(* The writer task *)

WriterRecv ==
  /\ writer = "recv" /\ out # << >>
  /\ writing' = Head(out)
  /\ out' = Tail(out)
  /\ writer' = "send"
  /\ UNCHANGED <<callVars, pending, slot, remoteVars, inbound, reader, held>>

(* sink.send(..).await.  On a dead socket the frame is either swallowed by
   the operating system or refused, and a refusal ends the loop. *)
WriterSend ==
  /\ writer = "send"
  /\ writing' = 0
  /\ \/ /\ conn = "open"
        /\ remote' = remote \cup {writing}
        /\ writer' = "recv"
     \/ /\ conn = "closed"
        /\ writer' \in {"recv", "closing"}
        /\ UNCHANGED remote
  /\ UNCHANGED <<callVars, pending, slot, out, answered, conn, inbound, reader, held>>

(* recv() yields None when every sender is gone.  The reader task owns an
   Arc<Inner>, and so a sender, for as long as it runs. *)
WriterEnd ==
  /\ writer = "recv" /\ out = << >> /\ ~held /\ reader = "done"
  /\ writer' = "closing"
  /\ UNCHANGED <<callVars, pending, slot, out, writing, remoteVars, inbound, reader, held>>

(* sink.close().await, then the task returns and drops the queue. *)
WriterClose ==
  /\ writer = "closing"
  /\ writer' = "gone"
  /\ out' = << >>
  /\ conn' = "closed"
  /\ UNCHANGED <<callVars, pending, slot, writing, remote, answered, inbound, reader, held>>

-----------------------------------------------------------------------------
(* The remote end (external): it answers each command it has received once,
   in any order, and may close the connection at any time. *)

RemoteReply(i) ==
  /\ conn = "open" /\ i \in remote
  /\ remote' = remote \ {i}
  /\ \E o \in Outcomes :
       /\ answered' = [answered EXCEPT ![i] = o]
       /\ inbound' = Append(inbound, [id |-> i, outcome |-> o])
  /\ UNCHANGED <<callVars, pending, slot, out, writerVars, reader, conn, held>>

RemoteClose ==
  /\ conn = "open"
  /\ conn' = "closed"
  /\ UNCHANGED <<callVars, pending, slot, out, writerVars, remote, answered, inbound, reader, held>>

-----------------------------------------------------------------------------
(* The reader task *)

(* Is the receiving half of the oneshot channel stored under i still alive? *)
Listening(c, i) == c \in Callers /\ callId[c] = i /\ pc[c] \in {"registered", "waiting"}

(* Mutant: replies are taken to come back in the order of the requests. *)
DispatchInOrder ==
  /\ reader = "recv" /\ inbound # << >>
  /\ \E i \in Ids :
       /\ pending[i] # NoCaller /\ \A j \in 1 .. i - 1 : pending[j] = NoCaller
       /\ pending' = [pending EXCEPT ![i] = NoCaller]
       /\ slot' = IF Listening(pending[i], i)
                  THEN [slot EXCEPT ![pending[i]] = Head(inbound).outcome]
                  ELSE slot
  /\ inbound' = Tail(inbound)
  /\ UNCHANGED <<callVars, out, writerVars, remoteVars, reader, held>>

(* dispatch(): take the entry for the reply's id, if any, and send on it. *)
Dispatch ==
  /\ reader = "recv" /\ inbound # << >>
  /\ LET reply == Head(inbound)
         owner == pending[reply.id]
     IN  /\ pending' = [pending EXCEPT ![reply.id] = NoCaller]
         /\ slot' = IF Listening(owner, reply.id)
                    THEN [slot EXCEPT ![owner] = reply.outcome]
                    ELSE slot
  /\ inbound' = Tail(inbound)
  /\ UNCHANGED <<callVars, out, writerVars, remoteVars, reader, held>>

(* Mutant: the reader exits without fail_all_pending. *)
ReaderBreakNoDrain ==
  /\ reader = "recv" /\ conn = "closed"
  /\ reader' = "done"
  /\ inbound' = << >>
  /\ UNCHANGED <<callVars, pending, slot, out, writerVars, remoteVars, held>>

(* A Close frame, an error or the end of the stream breaks the loop.  After
   an error, frames not read yet are lost. *)
ReaderBreak ==
  /\ reader = "recv" /\ conn = "closed"
  /\ reader' = "drain"
  /\ inbound' = << >>
  /\ UNCHANGED <<callVars, pending, slot, out, writerVars, remoteVars, held>>

(* fail_all_pending(): drain the map once, answering every entry. *)
Drain ==
  /\ reader = "drain"
  /\ slot' = [c \in Callers |-> IF \E i \in Ids : pending[i] = c /\ Listening(c, i)
                                THEN "closed" ELSE slot[c]]
  /\ pending' = [i \in Ids |-> NoCaller]
  /\ reader' = "done"
  /\ UNCHANGED <<callVars, out, writerVars, remoteVars, inbound, held>>

-----------------------------------------------------------------------------

Call(c) == FetchId(c) \/ Register(c) \/ Enqueue(c) \/ Return(c)
Writer  == WriterRecv \/ WriterSend \/ WriterEnd \/ WriterClose
Reader  == Dispatch \/ ReaderBreak \/ Drain

Next ==
  \/ \E c \in Callers : Call(c) \/ Cancel(c)
  \/ Writer \/ Reader
  \/ \E i \in Ids : RemoteReply(i)
  \/ RemoteClose \/ DropHandles

(* The runtime polls every ready task.  Nobody owes a new call (FetchId), a
   cancellation, a close or the dropping of a handle; a live remote end
   answers what it has received. *)
Fairness ==
  /\ \A c \in Callers : WF_vars(Register(c) \/ Enqueue(c) \/ Return(c))
  /\ WF_vars(Writer)
  /\ WF_vars(Reader)
  /\ \A i \in Ids : WF_vars(RemoteReply(i))

Spec     == Init /\ [][Next]_vars
FairSpec == Spec /\ Fairness

-----------------------------------------------------------------------------
(* The abstract request and reply service this channel implements. *)

Service == INSTANCE RequestReply
             WITH issued <- 1 .. nextId - 1, request <- callId,
                  answer <- slot, executed <- answered

-----------------------------------------------------------------------------
(* Properties *)

(* A task that gets a reply gets the remote end's reply to its own command,
   whatever other calls were in flight, cancelled or answered out of order. *)
RepliesMatch ==
  \A c \in Callers : slot[c] \in Outcomes => slot[c] = answered[callId[c]]

Queued(i)   == \E k \in DOMAIN out : out[k] = i
Coming(i)   == \E k \in DOMAIN inbound : inbound[k].id = i
InFlight(i) == Queued(i) \/ writing = i \/ i \in remote \/ Coming(i)

(* Until the reader ends, every frame queued, on the wire, at the remote end
   or on its way back has an entry in `pending`: no reply can arrive before
   the oneshot sender it needs, and none is dropped as unknown. *)
InFlightIsPending ==
  reader # "done" => \A i \in Ids : InFlight(i) => pending[i] # NoCaller

(* Until the reader ends, a task that still waits for an answer can be
   reached through the entry it made. *)
WaiterIsReachable ==
  reader # "done" =>
    \A c \in Callers : pc[c] = "waiting" /\ slot[c] = Empty => pending[callId[c]] = c

(* An entry of `pending` is never overwritten: it would drop the oneshot
   sender of another call, the "response channel dropped" case of send_raw. *)
EntryNeverOverwritten ==
  [][\A i \in Ids : pending[i] # NoCaller => pending'[i] \in {pending[i], NoCaller}]_vars

(* A call whose frame was queued before the reader drained `pending` returns:
   with the remote end's answer, or because the drain failed it. *)
EarlyCallReturns ==
  \A c \in Callers : (pc[c] = "waiting" /\ reader # "done") ~> (pc[c] # "waiting")

(* The channel offers the service RequestReply describes: no request is
   executed twice, and no call is told the outcome of another. *)
ImplementsRequestReply == Service!Spec

(* While the connection is up nothing leaks: an entry belongs to a call that
   is about to send, or its command is somewhere on its round trip. *)
NoLeakWhileOpen ==
  conn = "open" =>
    \A i \in Ids : pending[i] # NoCaller =>
      InFlight(i) \/ \E c \in Callers : pc[c] = "registered" /\ callId[c] = i

(* A call gets the answer to its own command or learns that there is none, its
   entry stays for as long as somebody may need it, and no entry outlives its
   command while the connection is up. *)
RepliesAreRouted ==
  /\ TypeOK
  /\ RepliesMatch
  /\ InFlightIsPending
  /\ WaiterIsReachable
  /\ NoLeakWhileOpen

-----------------------------------------------------------------------------
(* The inductive invariant behind the safety properties above. *)

Unsent(i) == \E c \in Callers : callId[c] = i /\ pc[c] \in {"lock", "registered"}

(* A task has an id exactly while it is inside send_raw, no two tasks share
   one, and ids not handed out yet are nowhere. *)
IdsAreOwned ==
  /\ \A c \in Callers : callId[c] < nextId /\ (callId[c] = 0 <=> pc[c] = "idle")
  /\ \A c, d \in Callers : callId[c] = callId[d] /\ callId[c] # 0 => c = d
  /\ \A i \in Ids : i >= nextId => pending[i] = NoCaller /\ answered[i] = "none" /\ ~InFlight(i)

(* A command is in one place at a time on its way out, and unanswered there. *)
OnePlace ==
  /\ writer = "send" <=> writing # 0
  /\ \A j, k \in DOMAIN out : out[j] = out[k] => j = k
  /\ \A j, k \in DOMAIN inbound : inbound[j].id = inbound[k].id => j = k
  /\ \A i \in Ids :
       /\ Queued(i) => writing # i /\ i \notin remote
       /\ writing = i => i \notin remote
       /\ Queued(i) \/ writing = i \/ i \in remote => answered[i] = "none"
       /\ Unsent(i) => ~InFlight(i) /\ answered[i] = "none"
  /\ \A k \in DOMAIN inbound : inbound[k].outcome = answered[inbound[k].id]

(* An entry under a live call's id is that call's. *)
EntriesAreOwned ==
  \A c \in Callers : callId[c] # 0 =>
    /\ pending[callId[c]] \in {c, NoCaller}
    /\ pc[c] = "lock" => pending[callId[c]] = NoCaller
    /\ pc[c] = "registered" /\ reader # "done" => pending[callId[c]] = c
    /\ slot[c] # Empty => pending[callId[c]] = NoCaller

SlotsFollowCalls ==
  \A c \in Callers : pc[c] \in {"idle", "lock"} => slot[c] = Empty

IInv ==
  /\ TypeOK /\ IdsAreOwned /\ OnePlace /\ EntriesAreOwned /\ SlotsFollowCalls
  /\ RepliesMatch /\ InFlightIsPending /\ WaiterIsReachable

=============================================================================
